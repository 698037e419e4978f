------------------------ MODULE PosRecognitionProofs ------------------------
(***************************************************************************)
(* Proofs about one ticket's recognition and return, for any number of     *)
(* deliveries and return requests served at once.                          *)
(*                                                                         *)
(* Under every fault: a request knows that what it carries was booked      *)
(* (Carried), because documents, once booked, and the ids a ticket names,  *)
(* once named, stay (Grows).                                               *)
(*                                                                         *)
(* While no answer is lost, no request dies and the advisory lock is kept: *)
(* a document is the one the ticket names or the one its only recognition  *)
(* is about to name (Accounted), which makes PosRecognition a RetailSale.  *)
(***************************************************************************)
EXTENDS PosRecognition, TLAPS

Busy(w) ==
  \/ RecognizeBegin(w) \/ Recognize(w) \/ ReturnBegin(w) \/ Return(w)
  \/ Crash(w) \/ LoseGuard(w)

\* A step of the next-state relation is a request's, or a replay.
LEMMA Steps ==
  Next <=> \/ \E w \in Workers : Busy(w)
           \/ \E total, paid \in Amounts : Replay(total, paid)
BY DEF Next, Busy

\* A request that goes on, or ends, touches nothing another request has.
LEMMA OwnStep ==
  ASSUME TypeOK, NEW w \in Workers, Busy(w)
  PROVE  \A v \in Workers \ {w} : pc'[v] = pc[v] /\ call'[v] = call[v]
<1>. pc \in [Workers -> PC] /\ call \in [Workers -> Calls] BY DEF TypeOK
<1>. USE DEF Goto, Continue, End, Acknowledged, Declined
<1>1. CASE RecognizeBegin(w) \/ ReturnBegin(w) \/ Crash(w) \/ LoseGuard(w)
  BY <1>1 DEF RecognizeBegin, ReturnBegin, Crash, LoseGuard
<1>2. CASE Fetch(w) \/ Lines(w) \/ Raise(w) \/ Link(w)
  BY <1>2 DEF Fetch, Lines, Raise, Link
<1>3. CASE Settle(w) \/ MarkPaid(w) \/ PublishPaid(w)
  BY <1>3 DEF Settle, MarkPaid, PublishPaid
<1>4. CASE Relief(w) \/ Issue(w) \/ LinkNote(w)
  BY <1>4 DEF Relief, Issue, LinkNote
<1>5. CASE Return(w)
  BY <1>5 DEF Return, Refund, CreditNote, MarkReturned, PublishReturned
<1>. QED BY <1>1, <1>2, <1>3, <1>4, <1>5 DEF Busy, Recognize

----------------------------------------------------------------------------
(* Types *)

LEMMA CallTypes ==
  ASSUME TypeOK, NEW w \in Workers
  PROVE  /\ call[w] \in Calls /\ NoCall \in Calls
         /\ \A i \in Invoices \cup {None} : [call[w] EXCEPT !.invoice = i] \in Calls
         /\ \A p \in Payments \cup {None} : [call[w] EXCEPT !.payment = p] \in Calls
         /\ \A n \in Notes \cup {None} : [call[w] EXCEPT !.note = n] \in Calls
         /\ [call[w] EXCEPT !.amount = ticket.total] \in Calls
         /\ [call[w] EXCEPT !.total = ticket.total, !.invoice = ticket.billing] \in Calls
         /\ [NoCall EXCEPT !.invoice = ticket.billing, !.payment = ticket.payment] \in Calls
<1>. call[w] \in Calls /\ ticket \in Tickets BY DEF TypeOK
<1>1. NoCall \in Calls BY DEF Calls, NoCall
<1>2. /\ \A i \in Invoices \cup {None} : [call[w] EXCEPT !.invoice = i] \in Calls
      /\ \A p \in Payments \cup {None} : [call[w] EXCEPT !.payment = p] \in Calls
      /\ \A n \in Notes \cup {None} : [call[w] EXCEPT !.note = n] \in Calls
  BY DEF Calls
<1>3. [call[w] EXCEPT !.amount = ticket.total] \in Calls BY DEF Calls, Tickets
<1>4. [call[w] EXCEPT !.total = ticket.total, !.invoice = ticket.billing] \in Calls
  BY DEF Calls, Tickets
<1>5. [NoCall EXCEPT !.invoice = ticket.billing, !.payment = ticket.payment] \in Calls
  BY DEF Calls, Tickets, NoCall
<1>. QED BY <1>1, <1>2, <1>3, <1>4, <1>5

Control ==
  /\ pc \in [Workers -> PC] /\ call \in [Workers -> Calls] /\ guard \in Workers \cup {None}

Books ==
  /\ ticket \in Tickets
  /\ invoice \in [Invoices -> [state : {"none", "open", "credited"}, amount : Nat]]
  /\ settlement \in [Payments -> [state : {"none", "open", "refunded"}, amount : Nat,
                                  invoice : Invoices \cup {None}]]
  /\ notes \subseteq Notes /\ returns \in Nat /\ published \in [paid : Nat, returned : Nat]

\* What a request does to itself and to its lock keeps their shape.
LEMMA EndTyped ==
  ASSUME TypeOK, NEW w \in Workers, End(w)
  PROVE  Control'
<1>1. NoCall \in Calls /\ "idle" \in PC BY DEF NoCall, Calls, PC
<1>. QED BY <1>1 DEF End, TypeOK, Control

LEMMA MoveTyped ==
  ASSUME TypeOK, NEW w \in Workers, NEW to \in PC, NEW noted \in Calls,
         pc' = [pc EXCEPT ![w] = to], call' = [call EXCEPT ![w] = noted], UNCHANGED guard
  PROVE  Control'
BY DEF TypeOK, Control

LEMMA TypeStep == TypeOK /\ [Next]_vars => TypeOK'
<1>. SUFFICES ASSUME TypeOK, [Next]_vars PROVE TypeOK' OBVIOUS
<1>0. Control' /\ Books' => TypeOK' BY DEF TypeOK, Control, Books
<1>1. CASE UNCHANGED vars BY <1>1 DEF vars, books, TypeOK
<1>2. ASSUME NEW total \in Amounts, NEW paid \in Amounts, Replay(total, paid) PROVE TypeOK'
  BY <1>2, RecognitionAssumption DEF Replay, TypeOK, Tickets, books
<1>3. ASSUME NEW w \in Workers, Busy(w) PROVE TypeOK'
  <2>. call[w] \in Calls BY CallTypes
  <2>. USE DEF PC, Continue, Goto, Acknowledged
  <2>1. CASE RecognizeBegin(w)
    BY <2>1 DEF RecognizeBegin, TakeGuard, Goto, TypeOK, books
  <2>2. CASE Crash(w) \/ LoseGuard(w)
    <3>1. Books' BY <2>2 DEF Crash, LoseGuard, TypeOK, Books, books
    <3>2. Control' BY <2>2, EndTyped DEF Crash, LoseGuard, TypeOK, Control
    <3>. QED BY <1>0, <3>1, <3>2
  <2>3. CASE Fetch(w) \/ Lines(w) \/ PublishPaid(w) \/ Relief(w) \/ ReturnBegin(w)
               \/ PublishReturned(w)
    <3>1. Books'
      BY <2>3 DEF Fetch, Lines, PublishPaid, Relief, ReturnBegin, PublishReturned, TypeOK,
                  Books, books
    <3>2. Fetch(w) => Control' BY MoveTyped, EndTyped, CallTypes DEF Fetch
    <3>3. Lines(w) => Control' BY MoveTyped, CallTypes DEF Lines
    <3>4. PublishPaid(w) => Control' BY MoveTyped DEF PublishPaid
    <3>5. Relief(w) => Control' BY MoveTyped, EndTyped DEF Relief
    <3>6. ReturnBegin(w) => Control' BY MoveTyped, CallTypes DEF ReturnBegin
    <3>7. PublishReturned(w) => Control' BY EndTyped DEF PublishReturned
    <3>. QED BY <1>0, <2>3, <3>1, <3>2, <3>3, <3>4, <3>5, <3>6, <3>7
  <2>4. CASE Raise(w) \/ Settle(w) \/ Issue(w)
    <3>1. Books'
      <4>1. Raise(w) => Books' BY DEF Raise, Declined, TypeOK, Books, books, Calls
      <4>2. Settle(w) => Books' BY DEF Settle, Declined, TypeOK, Books, books, Calls
      <4>3. Issue(w) => Books' BY DEF Issue, Declined, TypeOK, Books, books
      <4>. QED BY <2>4, <4>1, <4>2, <4>3
    <3>2. Raise(w) => Control' BY MoveTyped, EndTyped, CallTypes DEF Raise, Declined
    <3>3. Settle(w) => Control' BY MoveTyped, EndTyped, CallTypes DEF Settle, Declined
    <3>4. Issue(w) => Control' BY MoveTyped, EndTyped, CallTypes DEF Issue, Declined
    <3>. QED BY <1>0, <2>4, <3>1, <3>2, <3>3, <3>4
  <2>5. CASE Link(w) \/ MarkPaid(w) \/ LinkNote(w) \/ MarkReturned(w)
    <3>0. /\ ticket \in Tickets
          /\ Link(w) \/ MarkPaid(w) \/ LinkNote(w) => returns' = returns
          /\ UNCHANGED <<invoice, settlement, notes, published>>
      BY <2>5 DEF Link, MarkPaid, LinkNote, MarkReturned, books, TypeOK
    <3>1. ticket' \in Tickets /\ returns' \in Nat
      <4>1. Link(w) => ticket' \in Tickets BY <3>0 DEF Link, Calls, Tickets
      <4>2. MarkPaid(w) => ticket' \in Tickets BY <3>0 DEF MarkPaid, Calls, Tickets
      <4>3. LinkNote(w) => ticket' \in Tickets BY <3>0 DEF LinkNote, Calls, Tickets
      <4>4. MarkReturned(w) => ticket' \in Tickets /\ returns' \in Nat
        BY <3>0 DEF MarkReturned, Tickets, TypeOK
      <4>. QED BY <2>5, <3>0, <4>1, <4>2, <4>3, <4>4 DEF TypeOK
    <3>6. Books' BY <3>0, <3>1 DEF Books, TypeOK
    <3>2. Link(w) => Control' BY MoveTyped, EndTyped DEF Link
    <3>3. MarkPaid(w) => Control' BY MoveTyped DEF MarkPaid
    <3>4. LinkNote(w) => Control' BY EndTyped DEF LinkNote
    <3>5. MarkReturned(w) => Control' BY MoveTyped, EndTyped DEF MarkReturned
    <3>. QED BY <1>0, <2>5, <3>6, <3>2, <3>3, <3>4, <3>5
  <2>6. CASE Refund(w) \/ CreditNote(w)
    <3>1. Books'
      BY <2>6 DEF Refund, CreditNote, Declined, TypeOK, Books, books
    <3>2. Control'
      BY <2>6, MoveTyped, EndTyped DEF Refund, CreditNote, Declined
    <3>. QED BY <1>0, <3>1, <3>2
  <2>. QED BY <1>3, <2>1, <2>2, <2>3, <2>4, <2>5, <2>6 DEF Busy, Recognize, Return
<1>. QED BY <1>1, <1>2, <1>3, Steps

\* The ticket, its documents and every request keep their shape, whatever fails.
THEOREM TypeCorrect == Spec => []TypeOK
<1>1. Init => TypeOK
  BY RecognitionAssumption
  DEF Init, TypeOK, Tickets, Calls, NoInvoice, NoSettlement, NoCall, PC
<1>. QED BY <1>1, TypeStep, PTL DEF Spec

----------------------------------------------------------------------------
(* What holds under every fault *)

\* What a request carries was booked, and is what the ticket names.
Carried(w) ==
  LET c == call[w] IN
  /\ pc[w] = "link" => c.invoice # None /\ invoice[c.invoice].state # "none"
  /\ pc[w] \in {"settle", "flip"} => ticket.billing # None /\ c.invoice = ticket.billing
  /\ pc[w] = "flip" => /\ c.payment # None /\ settlement[c.payment].state # "none"
                       /\ settlement[c.payment].invoice = c.invoice
  /\ pc[w] \in {"refund", "credit", "return"} =>
       /\ ticket.status # "draft"
       /\ c.invoice = ticket.billing /\ c.payment = ticket.payment
  /\ pc[w] \in {"credit", "return"} => settlement[c.payment].state = "refunded"
  /\ pc[w] = "return" => invoice[c.invoice].state = "credited"

Linked == ticket.billing # None => invoice[ticket.billing].state # "none"

BooksInv == TypeOK /\ Linked /\ TicketNamesItsBooks /\ \A w \in Workers : Carried(w)

\* What is booked stays booked, what is reversed stays reversed, what is named stays named.
Grows ==
  /\ \A i \in Invoices : /\ invoice[i].state # "none" => invoice'[i].state # "none"
                         /\ invoice[i].state = "credited" => invoice'[i].state = "credited"
  /\ \A p \in Payments :
       /\ settlement[p].state # "none" => /\ settlement'[p].state # "none"
                                          /\ settlement'[p].invoice = settlement[p].invoice
       /\ settlement[p].state = "refunded" => settlement'[p].state = "refunded"
  /\ ticket.billing # None => ticket'.billing = ticket.billing
  /\ ticket.status # "draft" => ticket'.status # "draft" /\ ticket'.payment = ticket.payment

LEMMA NextGrows ==
  ASSUME BooksInv, NEW w \in Workers, Busy(w)
  PROVE  Grows
<1>. /\ ticket \in Tickets /\ call[w] \in Calls /\ TypeOK /\ Carried(w) /\ TicketNamesItsBooks
     /\ invoice \in [Invoices -> [state : {"none", "open", "credited"}, amount : Nat]]
     /\ settlement \in [Payments -> [state : {"none", "open", "refunded"}, amount : Nat,
                                     invoice : Invoices \cup {None}]]
  BY DEF BooksInv, TypeOK
<1>1. CASE UNCHANGED <<ticket, invoice, settlement>> BY <1>1 DEF Grows
<1>2. CASE Raise(w) BY <1>2 DEF Raise, Declined, books, Grows
<1>3. CASE Settle(w) BY <1>3 DEF Settle, Declined, books, Grows
<1>4. CASE Refund(w) BY <1>4 DEF Refund, Declined, books, Grows
<1>5. CASE CreditNote(w) BY <1>5 DEF CreditNote, Declined, books, Grows
<1>6. CASE Link(w) BY <1>6 DEF Link, books, Grows, Tickets
<1>7. CASE MarkPaid(w)
  <2>1. pc[w] = "flip" /\ call[w].invoice = ticket.billing
    BY <1>7 DEF MarkPaid, Continue, Goto, Carried
  <2>. QED BY <1>7, <2>1 DEF MarkPaid, books, Grows, Tickets
<1>8. CASE MarkReturned(w) BY <1>8 DEF MarkReturned, books, Grows, Tickets
<1>9. CASE LinkNote(w) BY <1>9 DEF LinkNote, books, Grows, Tickets
<1>10. RecognizeBegin(w) \/ Fetch(w) \/ Lines(w) \/ PublishPaid(w) \/ Relief(w) \/ Issue(w)
         \/ ReturnBegin(w) \/ PublishReturned(w) \/ Crash(w) \/ LoseGuard(w)
           => UNCHANGED <<ticket, invoice, settlement>>
  BY DEF RecognizeBegin, Fetch, Lines, PublishPaid, Relief, Issue, Declined, ReturnBegin,
         PublishReturned, Crash, LoseGuard, books
<1>. QED
  BY <1>1, <1>2, <1>3, <1>4, <1>5, <1>6, <1>7, <1>8, <1>9, <1>10 DEF Busy, Recognize, Return

\* Another request keeps what it carries.
LEMMA OthersCarry ==
  ASSUME BooksInv, Grows, TypeOK', NEW v \in Workers, pc'[v] = pc[v], call'[v] = call[v]
  PROVE  Carried(v)'
<1>. /\ TypeOK /\ Carried(v) /\ call[v] \in Calls /\ ticket \in Tickets
     /\ None \notin Invoices /\ None \notin Payments
  BY RecognitionAssumption DEF BooksInv, TypeOK
<1>. DEFINE c == call[v]
<1>1. c.invoice \in Invoices \cup {None} /\ c.payment \in Payments \cup {None}
  BY DEF Calls
<1>2. ticket.status # "draft" =>
        /\ ticket.billing # None /\ ticket.payment # None
        /\ ticket.billing \in Invoices /\ ticket.payment \in Payments
  BY DEF BooksInv, TicketNamesItsBooks, Tickets
<1>3. CASE pc[v] \in {"link", "settle", "flip"}
  BY <1>1, <1>3 DEF Carried, Grows
<1>4. CASE pc[v] \in {"refund", "credit", "return"}
  BY <1>1, <1>2, <1>4 DEF Carried, Grows
<1>5. CASE pc[v] \notin {"link", "settle", "flip", "refund", "credit", "return"}
  BY <1>5 DEF Carried
<1>. QED BY <1>3, <1>4, <1>5

\* A request carries what its own step booked.
LEMMA OwnCarries ==
  ASSUME BooksInv, NEW w \in Workers, Busy(w), Grows
  PROVE  Carried(w)'
<1>. /\ ticket \in Tickets /\ call[w] \in Calls /\ TypeOK /\ Carried(w) /\ Linked
     /\ pc \in [Workers -> PC] /\ call \in [Workers -> Calls]
     /\ invoice \in [Invoices -> [state : {"none", "open", "credited"}, amount : Nat]]
     /\ settlement \in [Payments -> [state : {"none", "open", "refunded"}, amount : Nat,
                                     invoice : Invoices \cup {None}]]
     /\ None \notin Invoices /\ None \notin Payments
     /\ TicketNamesItsBooks
  BY RecognitionAssumption DEF BooksInv, TypeOK
<1>. DEFINE Bare == pc'[w] \notin {"link", "settle", "flip", "refund", "credit", "return"}
<1>0. Bare => Carried(w)' BY DEF Carried
<1>1. End(w) => Bare BY DEF End
<1>. USE DEF Continue, Goto
<1>2. RecognizeBegin(w) \/ Lines(w) \/ PublishPaid(w) \/ Relief(w) \/ Issue(w)
        \/ LinkNote(w) \/ PublishReturned(w) \/ Crash(w) => Bare
  BY <1>1 DEF RecognizeBegin, Lines, PublishPaid, Relief, Issue, Declined, Acknowledged, LinkNote,
              PublishReturned, Crash
<1>. HIDE DEF Bare
<1>3. CASE LoseGuard(w) BY <1>3 DEF LoseGuard, books, Carried
<1>4. CASE Fetch(w)
  <2>1. CASE End(w) BY <1>0, <1>1, <2>1
  <2>2. CASE ~End(w)
    <3>. DEFINE noted == [call[w] EXCEPT !.total = ticket.total, !.invoice = ticket.billing]
    <3>0. noted.invoice = ticket.billing BY DEF Calls
    <3>1. /\ pc'[w] = IF ticket.billing = None THEN "lines" ELSE "settle"
          /\ call'[w] = noted /\ UNCHANGED ticket
      BY <1>4, <2>2 DEF Fetch
    <3>. HIDE DEF noted
    <3>2. CASE ticket.billing = None BY <3>1, <3>2 DEF Carried
    <3>3. CASE ticket.billing # None BY <3>0, <3>1, <3>3 DEF Carried
    <3>. QED BY <3>2, <3>3
  <2>. QED BY <2>1, <2>2
<1>5. CASE Raise(w)
  <2>1. CASE End(w) BY <1>0, <1>1, <2>1
  <2>2. CASE ~End(w)
    BY <1>5, <2>2 DEF Raise, Declined, Acknowledged, Carried, Calls, books
  <2>. QED BY <2>1, <2>2
<1>6. CASE Link(w)
  <2>1. CASE End(w) BY <1>0, <1>1, <2>1
  <2>2. CASE ~End(w)
    BY <1>6, <2>2 DEF Link, Carried, Calls, Tickets, books
  <2>. QED BY <2>1, <2>2
<1>7. CASE Settle(w)
  <2>1. CASE End(w) BY <1>0, <1>1, <2>1
  <2>2. CASE ~End(w)
    BY <1>7, <2>2 DEF Settle, Declined, Acknowledged, Carried, Calls, books
  <2>. QED BY <2>1, <2>2
<1>8. CASE MarkPaid(w)
  <2>1. pc'[w] \in {"publish_paid", "relief"} BY <1>8 DEF MarkPaid
  <2>. QED BY <2>1 DEF Carried
<1>9. CASE ReturnBegin(w)
  BY <1>9 DEF ReturnBegin, Carried, NoCall, books
<1>10. CASE Refund(w)
  <2>1. CASE End(w) BY <1>0, <1>1, <2>1
  <2>2. CASE ~End(w)
    BY <1>10, <2>2 DEF Refund, Declined, Acknowledged, Carried, TicketNamesItsBooks, Tickets, books
  <2>. QED BY <2>1, <2>2
<1>11. CASE CreditNote(w)
  <2>1. CASE End(w) BY <1>0, <1>1, <2>1
  <2>2. CASE ~End(w)
    BY <1>11, <2>2 DEF CreditNote, Declined, Acknowledged, Carried, TicketNamesItsBooks, Tickets,
                       books
  <2>. QED BY <2>1, <2>2
<1>12. CASE MarkReturned(w)
  <2>1. pc'[w] \in {"publish_returned", "idle"} BY <1>12 DEF MarkReturned, End
  <2>. QED BY <2>1 DEF Carried
<1>. QED
  BY <1>0, <1>2, <1>3, <1>4, <1>5, <1>6, <1>7, <1>8, <1>9, <1>10, <1>11, <1>12
  DEF Busy, Recognize, Return

\* The ticket names what was booked, and shows no more than it names.
LEMMA RowsName ==
  ASSUME BooksInv, NEW w \in Workers, Busy(w), Grows
  PROVE  Linked' /\ TicketNamesItsBooks'
<1>. /\ ticket \in Tickets /\ call[w] \in Calls /\ TypeOK /\ Carried(w) /\ Linked
     /\ None \notin Invoices /\ None \notin Payments
     /\ TicketNamesItsBooks
  BY RecognitionAssumption DEF BooksInv, TypeOK
<1>. USE DEF Continue, Goto
<1>1. CASE ticket'.billing = ticket.billing /\ ticket'.payment = ticket.payment
             /\ ticket'.status = ticket.status
  BY <1>1 DEF Grows, Linked, TicketNamesItsBooks, Tickets
<1>2. CASE Link(w)
  <2>1. CASE ticket' = [ticket EXCEPT !.billing = call[w].invoice] /\ pc[w] = "link"
               /\ ticket.status = "draft" /\ UNCHANGED invoice
    BY <2>1 DEF Carried, Calls, Linked, TicketNamesItsBooks, Tickets
  <2>. QED BY <1>1, <1>2, <2>1 DEF Link, books
<1>3. CASE MarkPaid(w)
  <2>1. CASE /\ ticket' = [ticket EXCEPT !.status = "paid", !.billing = call[w].invoice,
                                         !.payment = call[w].payment]
             /\ pc[w] = "flip" /\ UNCHANGED <<invoice, settlement>>
    BY <2>1 DEF Carried, Calls, Linked, TicketNamesItsBooks, Tickets
  <2>. QED BY <1>1, <1>3, <2>1 DEF MarkPaid, books
<1>4. CASE MarkReturned(w)
  <2>1. CASE /\ ticket' = [ticket EXCEPT !.status = "returned"] /\ ticket.status = "paid"
             /\ pc[w] = "return" /\ UNCHANGED <<invoice, settlement>>
    BY <2>1 DEF Carried, Calls, Linked, TicketNamesItsBooks, Tickets
  <2>. QED BY <1>1, <1>4, <2>1 DEF MarkReturned, books
<1>5. CASE LinkNote(w)
  BY <1>1, <1>5 DEF LinkNote, Tickets
<1>6. RecognizeBegin(w) \/ Fetch(w) \/ Lines(w) \/ Raise(w) \/ Settle(w) \/ PublishPaid(w)
        \/ Relief(w) \/ Issue(w) \/ ReturnBegin(w) \/ Refund(w) \/ CreditNote(w)
        \/ PublishReturned(w) \/ Crash(w) \/ LoseGuard(w) => UNCHANGED ticket
  BY DEF RecognizeBegin, Fetch, Lines, Raise, Settle, PublishPaid, Relief, Issue, ReturnBegin,
         Refund, CreditNote, PublishReturned, Crash, LoseGuard
<1>. QED BY <1>1, <1>2, <1>3, <1>4, <1>5, <1>6 DEF Busy, Recognize, Return

LEMMA BooksInvariant == Spec => []BooksInv
<1>1. Init => BooksInv
  <2>1. Init => TypeOK
    BY RecognitionAssumption
    DEF Init, TypeOK, Tickets, Calls, NoInvoice, NoSettlement, NoCall, PC
  <2>2. Init => Linked /\ TicketNamesItsBooks /\ \A w \in Workers : Carried(w)
    BY DEF Init, Linked, TicketNamesItsBooks, Carried
  <2>. QED BY <2>1, <2>2 DEF BooksInv
<1>2. BooksInv /\ [Next]_vars => BooksInv'
  <2>. SUFFICES ASSUME BooksInv, [Next]_vars PROVE BooksInv' OBVIOUS
  <2>0. TypeOK' BY TypeStep DEF BooksInv
  <2>1. CASE UNCHANGED vars
    BY <2>0, <2>1 DEF vars, books, BooksInv, Linked, TicketNamesItsBooks, Carried
  <2>2. ASSUME NEW total \in Amounts, NEW paid \in Amounts, Replay(total, paid) PROVE BooksInv'
    <3>1. /\ ticket'.billing = ticket.billing /\ ticket'.payment = ticket.payment
          /\ ticket'.status = ticket.status
          /\ UNCHANGED <<invoice, settlement, pc, call>>
      BY <2>2 DEF Replay, books, BooksInv, TypeOK, Tickets
    <3>. QED BY <2>0, <3>1 DEF BooksInv, Linked, TicketNamesItsBooks, Carried
  <2>3. ASSUME NEW w \in Workers, Busy(w) PROVE BooksInv'
    <3>1. Grows BY <2>3, NextGrows
    <3>2. Carried(w)' BY <2>3, <3>1, OwnCarries
    <3>3. ASSUME NEW v \in Workers \ {w} PROVE Carried(v)'
      <4>1. pc'[v] = pc[v] /\ call'[v] = call[v] BY <2>3, OwnStep DEF BooksInv
      <4>. QED BY <2>0, <3>1, <4>1, OthersCarry
    <3>4. Linked' /\ TicketNamesItsBooks' BY <2>3, <3>1, RowsName
    <3>. QED BY <2>0, <3>2, <3>3, <3>4 DEF BooksInv
  <2>. QED BY <2>1, <2>2, <2>3, Steps
<1>. QED BY <1>1, <1>2, PTL DEF Spec

\* Whatever fails, a paid ticket names an invoice and its settlement, and a returned one
\* the ones that were reversed.
THEOREM BooksAreNamed == Spec => []TicketNamesItsBooks
<1>1. BooksInv => TicketNamesItsBooks BY DEF BooksInv
<1>. QED BY <1>1, BooksInvariant, PTL

----------------------------------------------------------------------------
(* The events *)

\* Of the requests at a stage, one at most is about to tell what was done and not told.
Told(stage, told, done) ==
  /\ told \in {0, 1}
  /\ \A w \in Workers : pc[w] = stage => done /\ told = 0
  /\ \A v, w \in Workers : pc[v] = stage /\ pc[w] = stage => v = w
  /\ ~done => told = 0

Paid     == ticket.status # "draft"
Returned == ticket.status = "returned"

ToldInv ==
  /\ TypeOK
  /\ Told("publish_paid", published.paid, Paid)
  /\ Told("publish_returned", published.returned, Returned)
  /\ returns = IF Returned THEN 1 ELSE 0

\* A request enters the stage when it does the thing, and tells when it leaves.
Tells(w, stage, told, told1, done, done1) ==
  \/ (done => done1) /\ told1 = told /\ (pc'[w] # stage \/ pc'[w] = pc[w])
  \/ ~done /\ done1 /\ told1 = told
  \/ done /\ done1 /\ pc[w] = stage /\ pc'[w] # stage /\ told1 = told + 1

LEMMA ToldStep ==
  ASSUME NEW w \in Workers, \A v \in Workers \ {w} : pc'[v] = pc[v],
         NEW stage, NEW told, NEW told1, NEW done \in BOOLEAN, NEW done1 \in BOOLEAN,
         Told(stage, told, done), Tells(w, stage, told, told1, done, done1)
  PROVE  /\ told1 \in {0, 1}
         /\ \A v \in Workers : pc'[v] = stage => done1 /\ told1 = 0
         /\ \A u, v \in Workers : pc'[u] = stage /\ pc'[v] = stage => u = v
         /\ ~done1 => told1 = 0
BY DEF Told, Tells

LEMMA StepTells ==
  ASSUME ToldInv, NEW w \in Workers, Busy(w)
  PROVE  /\ Tells(w, "publish_paid", published.paid, published'.paid, Paid, Paid')
         /\ Tells(w, "publish_returned", published.returned, published'.returned,
                  Returned, Returned')
         /\ \/ returns' = returns /\ (Returned' <=> Returned)
            \/ returns' = returns + 1 /\ ~Returned /\ Returned'
<1>. /\ ticket \in Tickets /\ published \in [paid : Nat, returned : Nat] /\ returns \in Nat
     /\ pc \in [Workers -> PC] /\ ToldInv
     /\ \A v \in Workers : pc[v] = "publish_paid" => Paid
     /\ \A v \in Workers : pc[v] = "publish_returned" => Returned
  BY DEF ToldInv, TypeOK, Told
<1>. USE DEF Continue, Goto, End, Paid, Returned, Tells
<1>1. CASE RecognizeBegin(w) \/ Fetch(w) \/ Lines(w) \/ Relief(w) \/ ReturnBegin(w) \/ Crash(w)
             \/ LoseGuard(w)
  BY <1>1 DEF RecognizeBegin, Fetch, Lines, Relief, ReturnBegin, Crash, LoseGuard
<1>2. CASE Raise(w) \/ Settle(w) \/ Issue(w) \/ Refund(w) \/ CreditNote(w)
  <2>1. UNCHANGED <<ticket, returns, published>>
    BY <1>2 DEF Raise, Settle, Issue, Refund, CreditNote
  <2>2. pc'[w] \in {"link", "flip", "note", "credit", "return", "idle"}
    <3>1. \A from, to, noted : Acknowledged(w, from, to, noted) => pc'[w] \in {to, "idle"}
      BY DEF Acknowledged
    <3>2. Declined(w) => pc'[w] = "idle" BY DEF Declined
    <3>. QED BY <1>2, <3>1, <3>2 DEF Raise, Settle, Issue, Refund, CreditNote, Acknowledged
  <2>. QED BY <2>1, <2>2
<1>3. CASE Link(w) \/ LinkNote(w)
  BY <1>3 DEF Link, LinkNote, Tickets
<1>4. CASE MarkPaid(w)
  <2>1. \/ pc'[w] = "publish_paid" /\ ~Paid /\ Paid'
        \/ pc'[w] = "relief" /\ (UNCHANGED ticket)
    BY <1>4 DEF MarkPaid, Tickets
  <2>2. (Returned' <=> Returned) /\ UNCHANGED <<returns, published>>
    BY <1>4 DEF MarkPaid, Tickets
  <2>. QED BY <2>1, <2>2
<1>5. CASE MarkReturned(w)
  BY <1>5 DEF MarkReturned, Tickets
<1>6. CASE PublishPaid(w)
  BY <1>6 DEF PublishPaid
<1>7. CASE PublishReturned(w)
  BY <1>7 DEF PublishReturned
<1>. QED BY <1>1, <1>2, <1>3, <1>4, <1>5, <1>6, <1>7 DEF Busy, Recognize, Return

\* However often and however concurrently a ticket is recognised and returned, each event
\* is published at most once, and one return ticket exists when it is returned.
THEOREM ToldOnce == Spec => []ToldAtMostOnce
<1>1. Init => ToldInv
  <2>1. Init => TypeOK
    BY RecognitionAssumption
    DEF Init, TypeOK, Tickets, Calls, NoInvoice, NoSettlement, NoCall, PC
  <2>. QED BY <2>1 DEF Init, ToldInv, Told, Paid, Returned
<1>2. ToldInv /\ [Next]_vars => ToldInv'
  <2>. SUFFICES ASSUME ToldInv, [Next]_vars PROVE ToldInv' OBVIOUS
  <2>0. TypeOK' BY TypeStep DEF ToldInv
  <2>1. CASE UNCHANGED vars
    BY <2>0, <2>1 DEF vars, ToldInv, Told, Paid, Returned
  <2>2. ASSUME NEW total \in Amounts, NEW paid \in Amounts, Replay(total, paid) PROVE ToldInv'
    <3>1. ticket'.status = ticket.status /\ UNCHANGED <<returns, published, pc>>
      BY <2>2 DEF Replay, ToldInv, TypeOK, Tickets
    <3>. QED BY <2>0, <3>1 DEF ToldInv, Told, Paid, Returned
  <2>3. ASSUME NEW w \in Workers, Busy(w) PROVE ToldInv'
    <3>1. \A v \in Workers \ {w} : pc'[v] = pc[v] BY <2>3, OwnStep DEF ToldInv
    <3>2. Told("publish_paid", published.paid, Paid)'
      <4>1. PICK m \in {0, 1}, n \in Nat, d \in BOOLEAN, e \in BOOLEAN :
              m = published.paid /\ n = published'.paid /\ d = Paid /\ e = Paid'
        BY <2>0 DEF Paid, ToldInv, Told, TypeOK
      <4>2. Tells(w, "publish_paid", m, n, d, e) /\ Told("publish_paid", m, d)
        BY <2>3, <4>1, StepTells DEF ToldInv
      <4>. QED BY <3>1, <4>1, <4>2, ToldStep DEF Told
    <3>3. Told("publish_returned", published.returned, Returned)'
      <4>1. PICK m \in {0, 1}, n \in Nat, d \in BOOLEAN, e \in BOOLEAN :
              m = published.returned /\ n = published'.returned
                /\ d = Returned /\ e = Returned'
        BY <2>0 DEF Returned, ToldInv, Told, TypeOK
      <4>2. Tells(w, "publish_returned", m, n, d, e) /\ Told("publish_returned", m, d)
        BY <2>3, <4>1, StepTells DEF ToldInv
      <4>. QED BY <3>1, <4>1, <4>2, ToldStep DEF Told
    <3>4. returns' = IF Returned' THEN 1 ELSE 0
      <4>1. CASE returns' = returns /\ (Returned' <=> Returned)
        BY <4>1 DEF ToldInv
      <4>2. CASE returns' = returns + 1 /\ ~Returned /\ Returned'
        BY <4>2 DEF ToldInv
      <4>. QED BY <2>3, <4>1, <4>2, StepTells
    <3>. QED BY <2>0, <3>2, <3>3, <3>4 DEF ToldInv
  <2>. QED BY <2>1, <2>2, <2>3, Steps
<1>3. ToldInv => ToldAtMostOnce
  BY DEF ToldInv, Told, Returned, ToldAtMostOnce
<1>. QED BY <1>1, <1>2, <1>3, PTL DEF Spec

----------------------------------------------------------------------------
(* What holds while no answer is lost, no request dies and the lock is kept *)

NothingLost == Faults \subseteq {"decline", "replay"}

Recognizing == {"fetch", "lines", "raise", "link", "settle", "flip", "publish_paid",
                "relief", "issue", "note"}

\* A recognition holds the ticket's lock, and what it has read of the ticket still holds.
Serves(w) ==
  /\ pc[w] \in Recognizing => guard = w
  /\ pc[w] \in {"lines", "raise", "link", "settle", "flip"} => ticket.status = "draft"
  /\ pc[w] \in {"lines", "raise", "link"} => ticket.billing = None
  /\ pc[w] \in {"issue", "note"} => ticket.note = None

\* A document is the one the ticket names, or is about to name.
Accounted ==
  /\ \A i \in Raised : i = ticket.billing
       \/ \E w \in Workers : pc[w] = "link" /\ call[w].invoice = i
  /\ \A p \in Settled : p = ticket.payment
       \/ \E w \in Workers : pc[w] = "flip" /\ call[w].payment = p
  /\ \A n \in notes : n = ticket.note
       \/ \E w \in Workers : pc[w] = "note" /\ call[w].note = n

\* Nothing is reversed before the ticket is paid, and the settlement before the invoice.
ReversedInOrder ==
  /\ ticket.status = "draft" =>
       /\ ticket.payment = None
       /\ \A i \in Invoices : invoice[i].state # "credited"
       /\ \A p \in Payments : settlement[p].state # "refunded"
  /\ (\E i \in Invoices : invoice[i].state = "credited") =>
       \A p \in Settled : settlement[p].state = "refunded"

SaleInv == BooksInv /\ (\A w \in Workers : Serves(w)) /\ Accounted /\ ReversedInOrder

LEMMA Alone ==
  ASSUME SaleInv, NEW w \in Workers, pc[w] \in Recognizing, NEW v \in Workers \ {w}
  PROVE  pc[v] \notin Recognizing
BY DEF SaleInv, Serves

\* Nothing dies, and an acknowledged call went on.
LEMMA NothingDies ==
  ASSUME NothingLost, NEW w \in Workers
  PROVE  /\ ~Crash(w) /\ ~LoseGuard(w)
         /\ \A from, to, noted : Acknowledged(w, from, to, noted) =>
              /\ pc[w] = from /\ pc' = [pc EXCEPT ![w] = to]
              /\ call' = [call EXCEPT ![w] = noted] /\ UNCHANGED guard
BY DEF NothingLost, Crash, LoseGuard, Acknowledged, Goto

\* The ticket is written under the lock, or by its return.
LEMMA TicketWrites ==
  ASSUME SaleInv, NEW w \in Workers, Busy(w)
  PROVE  \/ UNCHANGED ticket
         \/ pc[w] \in Recognizing
         \/ /\ ticket.status = "paid" /\ ticket' = [ticket EXCEPT !.status = "returned"]
            /\ pc[w] = "return" /\ UNCHANGED <<invoice, settlement, notes>>
            /\ pc' = [pc EXCEPT ![w] = "publish_returned"]
<1>1. Link(w) \/ MarkPaid(w) \/ LinkNote(w) => pc[w] \in Recognizing
  BY DEF Link, MarkPaid, LinkNote, Recognizing
<1>2. MarkReturned(w) => \/ UNCHANGED ticket
                         \/ /\ ticket.status = "paid"
                            /\ ticket' = [ticket EXCEPT !.status = "returned"]
                            /\ pc[w] = "return" /\ UNCHANGED <<invoice, settlement, notes>>
                            /\ pc' = [pc EXCEPT ![w] = "publish_returned"]
  BY DEF MarkReturned, Continue, Goto, books
<1>3. RecognizeBegin(w) \/ Fetch(w) \/ Lines(w) \/ Raise(w) \/ Settle(w) \/ PublishPaid(w)
        \/ Relief(w) \/ Issue(w) \/ ReturnBegin(w) \/ Refund(w) \/ CreditNote(w)
        \/ PublishReturned(w) \/ Crash(w) \/ LoseGuard(w) => UNCHANGED ticket
  BY DEF RecognizeBegin, Fetch, Lines, Raise, Settle, PublishPaid, Relief, Issue, ReturnBegin,
         Refund, CreditNote, PublishReturned, Crash, LoseGuard
<1>. QED BY <1>1, <1>2, <1>3 DEF Busy, Recognize, Return

\* The lock changes hands only when it is free, or given up by its holder.
LEMMA GuardMoves ==
  ASSUME NothingLost, NEW w \in Workers, Busy(w)
  PROVE  guard' = guard \/ guard = None \/ guard = w
<1>1. End(w) => guard' = guard \/ guard = w BY DEF End
<1>2. RecognizeBegin(w) => guard = None BY DEF RecognizeBegin, TakeGuard
<1>. USE DEF Continue, Acknowledged, Declined
<1>3. Fetch(w) \/ Lines(w) \/ Raise(w) \/ Link(w) \/ Settle(w) => guard' = guard \/ End(w)
  BY DEF Fetch, Lines, Raise, Link, Settle
<1>4. MarkPaid(w) \/ PublishPaid(w) \/ Relief(w) \/ Issue(w) \/ LinkNote(w)
        => guard' = guard \/ End(w)
  BY DEF MarkPaid, PublishPaid, Relief, Issue, LinkNote
<1>5. ReturnBegin(w) \/ Return(w) => guard' = guard \/ End(w)
  BY DEF ReturnBegin, Return, Refund, CreditNote, MarkReturned, PublishReturned
<1>. QED BY <1>1, <1>2, <1>3, <1>4, <1>5, NothingDies DEF Busy, Recognize

LEMMA OthersServe ==
  ASSUME NothingLost, SaleInv, NEW w \in Workers, Busy(w), NEW v \in Workers \ {w},
         pc'[v] = pc[v]
  PROVE  Serves(v)'
<1>. Serves(v) /\ v # None /\ ticket \in Tickets
  BY RecognitionAssumption DEF SaleInv, BooksInv, TypeOK
<1>1. CASE pc[v] \notin Recognizing BY <1>1 DEF Serves, Recognizing
<1>2. CASE pc[v] \in Recognizing
  <2>1. guard = v /\ guard' = v BY <1>2, GuardMoves DEF Serves
  <2>2. pc[w] \notin Recognizing BY <1>2, Alone
  <2>3. CASE UNCHANGED ticket BY <2>1, <2>3 DEF Serves
  <2>4. CASE ticket.status = "paid" /\ ticket' = [ticket EXCEPT !.status = "returned"]
    BY <2>1, <2>4 DEF Serves, Tickets
  <2>. QED BY <2>2, <2>3, <2>4, TicketWrites
<1>. QED BY <1>1, <1>2

LEMMA OwnServes ==
  ASSUME NothingLost, SaleInv, NEW w \in Workers, Busy(w)
  PROVE  Serves(w)'
<1>. /\ Serves(w) /\ Carried(w) /\ w # None /\ ticket \in Tickets /\ pc \in [Workers -> PC]
  BY RecognitionAssumption DEF SaleInv, BooksInv, TypeOK
<1>. USE DEF Recognizing
<1>1. pc'[w] \in {"idle", "refund", "credit", "return", "publish_returned"} => Serves(w)'
  BY DEF Serves
<1>2. End(w) => Serves(w)' BY <1>1 DEF End
<1>3. ReturnBegin(w) \/ Return(w) => Serves(w)'
  <2>1. ReturnBegin(w) => Serves(w)' BY <1>1 DEF ReturnBegin, Continue, Goto
  <2>2. Refund(w) => Serves(w)' BY <1>1, <1>2, NothingDies DEF Refund, Declined
  <2>3. CreditNote(w) => Serves(w)' BY <1>1, <1>2, NothingDies DEF CreditNote, Declined
  <2>4. MarkReturned(w) => Serves(w)' BY <1>1, <1>2 DEF MarkReturned, Continue, Goto
  <2>5. PublishReturned(w) => Serves(w)' BY <1>2 DEF PublishReturned
  <2>. QED BY <2>1, <2>2, <2>3, <2>4, <2>5 DEF Return
<1>. USE DEF Continue, Goto
<1>4. RecognizeBegin(w) => Serves(w)' BY DEF RecognizeBegin, TakeGuard, Serves
<1>5. Fetch(w) => Serves(w)'
  <2>1. Fetch(w) /\ ~End(w) =>
          /\ pc[w] = "fetch" /\ ticket.status = "draft" /\ UNCHANGED <<ticket, guard>>
          /\ pc'[w] = IF ticket.billing = None THEN "lines" ELSE "settle"
    BY DEF Fetch
  <2>. QED BY <1>2, <2>1 DEF Serves
<1>6. Lines(w) => Serves(w)' BY DEF Lines, Serves
<1>7. Raise(w) => Serves(w)'
  <2>1. Raise(w) /\ ~End(w) => pc[w] = "raise" /\ pc'[w] = "link" /\ UNCHANGED <<ticket, guard>>
    BY DEF Raise, Declined, Acknowledged
  <2>. QED BY <1>2, <2>1 DEF Serves
<1>8. Link(w) => Serves(w)' BY <1>2 DEF Link, Serves, Tickets
<1>9. Settle(w) => Serves(w)'
  <2>1. Settle(w) /\ ~End(w) => pc[w] = "settle" /\ pc'[w] = "flip" /\ UNCHANGED <<ticket, guard>>
    BY DEF Settle, Declined, Acknowledged
  <2>. QED BY <1>2, <2>1 DEF Serves
<1>10. MarkPaid(w) => Serves(w)' BY DEF MarkPaid, Serves
<1>11. PublishPaid(w) => Serves(w)' BY DEF PublishPaid, Serves
<1>12. Relief(w) => Serves(w)' BY <1>2 DEF Relief, Serves
<1>13. Issue(w) => Serves(w)' BY <1>2 DEF Issue, Declined, Acknowledged, Serves
<1>14. LinkNote(w) => Serves(w)' BY <1>2 DEF LinkNote
<1>. QED
  BY <1>3, <1>4, <1>5, <1>6, <1>7, <1>8, <1>9, <1>10, <1>11, <1>12, <1>13, <1>14, NothingDies
  DEF Busy, Recognize

\* What a request at work may have booked and not yet named.
OwnAccount(w) ==
  /\ \A i \in Raised : i = ticket.billing \/ (pc[w] = "link" /\ call[w].invoice = i)
  /\ \A p \in Settled : p = ticket.payment \/ (pc[w] = "flip" /\ call[w].payment = p)
  /\ \A n \in notes : n = ticket.note \/ (pc[w] = "note" /\ call[w].note = n)

LEMMA AccountIsOwn ==
  ASSUME SaleInv, NEW w \in Workers, pc[w] \in Recognizing
  PROVE  OwnAccount(w)
<1>1. \A v \in Workers : pc[v] \in {"link", "flip", "note"} => v = w
  BY Alone DEF Recognizing
<1>. QED BY <1>1 DEF SaleInv, Accounted, OwnAccount

LEMMA OwnAccountIsAll ==
  ASSUME NEW w \in Workers, OwnAccount(w)'
  PROVE  Accounted'
BY DEF OwnAccount, Accounted

LEMMA WorkerAccounts ==
  ASSUME NothingLost, SaleInv, NEW w \in Workers, Busy(w), pc[w] \in Recognizing
  PROVE  OwnAccount(w)'
<1>. /\ OwnAccount(w) /\ Serves(w) /\ Carried(w) /\ ReversedInOrder /\ ticket \in Tickets
     /\ pc \in [Workers -> PC] /\ call \in [Workers -> Calls] /\ call[w] \in Calls
     /\ invoice \in [Invoices -> [state : {"none", "open", "credited"}, amount : Nat]]
     /\ settlement \in [Payments -> [state : {"none", "open", "refunded"}, amount : Nat,
                                     invoice : Invoices \cup {None}]]
     /\ notes \subseteq Notes
     /\ None \notin Invoices /\ None \notin Payments /\ None \notin Notes
  BY AccountIsOwn, RecognitionAssumption DEF SaleInv, BooksInv, TypeOK
<1>1. CASE /\ UNCHANGED <<ticket, invoice, settlement, notes>>
           /\ pc[w] \notin {"link", "flip", "note"}
  BY <1>1 DEF OwnAccount, Raised, Settled
<1>2. Fetch(w) \/ Lines(w) \/ PublishPaid(w) \/ Relief(w)
        => /\ UNCHANGED <<ticket, invoice, settlement, notes>>
           /\ pc[w] \notin {"link", "flip", "note"}
  BY DEF Fetch, Lines, PublishPaid, Relief, Continue, Goto, books
<1>3. (Raise(w) \/ Settle(w) \/ Issue(w)) /\ Declined(w)
        => /\ UNCHANGED <<ticket, invoice, settlement, notes>>
           /\ pc[w] \notin {"link", "flip", "note"}
  BY DEF Raise, Settle, Issue, Declined, books
<1>4. ASSUME Raise(w), ~Declined(w) PROVE OwnAccount(w)'
  <2>1. PICK i \in Invoices :
          /\ invoice' = [invoice EXCEPT ![i] = [state |-> "open", amount |-> call[w].amount]]
          /\ Acknowledged(w, "raise", "link", [call[w] EXCEPT !.invoice = i])
          /\ UNCHANGED <<settlement, notes>>
    BY <1>4 DEF Raise
  <2>2. pc[w] = "raise" /\ UNCHANGED ticket BY <1>4 DEF Raise
  <2>3. pc'[w] = "link" /\ call'[w].invoice = i
    BY <2>1 DEF NothingLost, Acknowledged, Goto, Calls
  <2>4. Raised = {} BY <2>2 DEF OwnAccount, Serves, Raised
  <2>5. Raised' = {i} BY <2>1, <2>4 DEF Raised
  <2>6. Settled' = Settled BY <2>1 DEF Settled
  <2>. QED BY <2>1, <2>2, <2>3, <2>5, <2>6 DEF OwnAccount
<1>5. ASSUME Settle(w), ~Declined(w) PROVE OwnAccount(w)'
  <2>1. PICK p \in Payments :
          /\ settlement' = [settlement EXCEPT ![p] =
                              [state |-> "open", amount |-> call[w].total,
                               invoice |-> call[w].invoice]]
          /\ Acknowledged(w, "settle", "flip", [call[w] EXCEPT !.payment = p])
          /\ UNCHANGED <<invoice, notes>>
    BY <1>5 DEF Settle
  <2>2. pc[w] = "settle" /\ UNCHANGED ticket BY <1>5 DEF Settle
  <2>3. pc'[w] = "flip" /\ call'[w].payment = p
    BY <2>1 DEF NothingLost, Acknowledged, Goto, Calls
  <2>4. Settled = {} BY <2>2 DEF OwnAccount, Serves, ReversedInOrder, Settled
  <2>5. Settled' = {p} BY <2>1, <2>4 DEF Settled
  <2>6. Raised' = Raised BY <2>1 DEF Raised
  <2>. QED BY <2>1, <2>2, <2>3, <2>5, <2>6 DEF OwnAccount
<1>6. ASSUME Issue(w), ~Declined(w) PROVE OwnAccount(w)'
  <2>1. PICK n \in Notes :
          /\ notes' = notes \cup {n}
          /\ Acknowledged(w, "issue", "note", [call[w] EXCEPT !.note = n])
          /\ UNCHANGED <<invoice, settlement>>
    BY <1>6 DEF Issue
  <2>2. pc[w] = "issue" /\ UNCHANGED ticket BY <1>6 DEF Issue
  <2>3. pc'[w] = "note" /\ call'[w].note = n
    BY <2>1 DEF NothingLost, Acknowledged, Goto, Calls
  <2>4. notes = {} BY <2>2 DEF OwnAccount, Serves
  <2>5. Raised' = Raised /\ Settled' = Settled BY <2>1 DEF Raised, Settled
  <2>. QED BY <2>1, <2>2, <2>3, <2>4, <2>5 DEF OwnAccount
<1>7. CASE Link(w)
  <2>1. /\ pc[w] = "link" /\ pc'[w] = "settle"
        /\ ticket' = [ticket EXCEPT !.billing = call[w].invoice]
        /\ UNCHANGED <<invoice, settlement, notes>>
    BY <1>7 DEF Link, Serves, Continue, Goto, books
  <2>2. Raised' = Raised /\ Settled' = Settled BY <2>1 DEF Raised, Settled
  <2>3. ticket'.billing = call[w].invoice /\ ticket'.payment = ticket.payment
          /\ ticket'.note = ticket.note
    BY <2>1 DEF Tickets
  <2>4. \A i \in Raised : i = call[w].invoice BY <2>1 DEF OwnAccount, Serves, Raised
  <2>. QED BY <2>1, <2>2, <2>3, <2>4 DEF OwnAccount
<1>8. CASE MarkPaid(w)
  <2>1. /\ pc[w] = "flip" /\ pc'[w] = "publish_paid"
        /\ ticket' = [ticket EXCEPT !.status = "paid", !.billing = call[w].invoice,
                                    !.payment = call[w].payment]
        /\ UNCHANGED <<invoice, settlement, notes>>
    BY <1>8 DEF MarkPaid, Serves, Continue, Goto, books
  <2>2. Raised' = Raised /\ Settled' = Settled BY <2>1 DEF Raised, Settled
  <2>3. ticket'.billing = call[w].invoice /\ ticket'.payment = call[w].payment
          /\ ticket'.note = ticket.note
    BY <2>1 DEF Tickets
  <2>. QED BY <2>1, <2>2, <2>3 DEF OwnAccount, Serves, Carried, ReversedInOrder, Settled
<1>9. CASE LinkNote(w)
  <2>1. /\ pc[w] = "note" /\ pc'[w] = "idle"
        /\ ticket' = [ticket EXCEPT !.note = call[w].note]
        /\ UNCHANGED <<invoice, settlement, notes>>
    BY <1>9 DEF LinkNote, Serves, End, books
  <2>2. Raised' = Raised /\ Settled' = Settled BY <2>1 DEF Raised, Settled
  <2>3. ticket'.billing = ticket.billing /\ ticket'.payment = ticket.payment
          /\ ticket'.note = call[w].note
    BY <2>1 DEF Tickets
  <2>. QED BY <2>1, <2>2, <2>3 DEF OwnAccount, Serves
<1>10. ~(RecognizeBegin(w) \/ ReturnBegin(w) \/ Return(w))
  BY DEF RecognizeBegin, ReturnBegin, Return, Refund, CreditNote, MarkReturned, PublishReturned,
         Continue, Goto, Recognizing
<1>. QED
  BY <1>1, <1>2, <1>3, <1>4, <1>5, <1>6, <1>7, <1>8, <1>9, <1>10, NothingDies DEF Busy, Recognize

\* A request that begins, or returns the sale, books nothing.
LEMMA ReturnerAccounts ==
  ASSUME NothingLost, SaleInv, NEW w \in Workers, Busy(w), pc[w] \notin Recognizing
  PROVE  Accounted'
<1>. /\ Accounted /\ ticket \in Tickets /\ BooksInv /\ TypeOK
     /\ invoice \in [Invoices -> [state : {"none", "open", "credited"}, amount : Nat]]
     /\ settlement \in [Payments -> [state : {"none", "open", "refunded"}, amount : Nat,
                                     invoice : Invoices \cup {None}]]
  BY DEF SaleInv, BooksInv, TypeOK
<1>1. \A v \in Workers \ {w} : pc'[v] = pc[v] /\ call'[v] = call[v] BY OwnStep
<1>2. /\ ticket'.billing = ticket.billing /\ ticket'.payment = ticket.payment
      /\ ticket'.note = ticket.note
  BY TicketWrites DEF Tickets
<1>3. RecognizeBegin(w) \/ ReturnBegin(w) \/ Return(w)
  BY NothingDies DEF Busy, Recognize, Fetch, Lines, Raise, Link, Settle, MarkPaid, PublishPaid,
     Relief, Issue, LinkNote, Continue, Goto, Recognizing
<1>4. /\ notes' = notes
      /\ \A i \in Invoices : invoice'[i].state # "none" => invoice[i].state # "none"
      /\ \A p \in Payments : settlement'[p].state # "none" => settlement[p].state # "none"
  <2>1. CASE RecognizeBegin(w) \/ ReturnBegin(w) \/ MarkReturned(w) \/ PublishReturned(w)
    BY <2>1 DEF RecognizeBegin, ReturnBegin, MarkReturned, PublishReturned, books
  <2>2. CASE Refund(w)
    <3>1. pc[w] = "refund" BY <2>2 DEF Refund
    <3>2. call[w].payment = ticket.payment /\ ticket.payment # None
            /\ settlement[ticket.payment].state # "none"
      BY <3>1 DEF SaleInv, BooksInv, Carried, TicketNamesItsBooks
    <3>. QED BY <2>2, <3>2 DEF Refund, Declined, books
  <2>3. CASE CreditNote(w)
    <3>1. pc[w] = "credit" BY <2>3 DEF CreditNote
    <3>2. call[w].invoice = ticket.billing /\ ticket.billing # None
            /\ invoice[ticket.billing].state # "none"
      BY <3>1 DEF SaleInv, BooksInv, Carried, TicketNamesItsBooks
    <3>. QED BY <2>3, <3>2 DEF CreditNote, Declined, books
  <2>. QED BY <1>3, <2>1, <2>2, <2>3 DEF Return
<1>5. Raised' \subseteq Raised /\ Settled' \subseteq Settled BY <1>4 DEF Raised, Settled
<1>6. pc[w] \notin {"link", "flip", "note"} BY DEF Recognizing
<1>. QED BY <1>1, <1>2, <1>4, <1>5, <1>6 DEF Accounted

LEMMA OrderStep ==
  ASSUME NothingLost, SaleInv, NEW w \in Workers, Busy(w)
  PROVE  ReversedInOrder'
<1>. /\ Serves(w) /\ Carried(w) /\ ReversedInOrder /\ ticket \in Tickets /\ call[w] \in Calls
     /\ invoice \in [Invoices -> [state : {"none", "open", "credited"}, amount : Nat]]
     /\ settlement \in [Payments -> [state : {"none", "open", "refunded"}, amount : Nat,
                                     invoice : Invoices \cup {None}]]
     /\ TicketNamesItsBooks
     /\ None \notin Payments
  BY RecognitionAssumption DEF SaleInv, BooksInv, TypeOK
<1>1. CASE /\ UNCHANGED <<invoice, settlement>>
           /\ ticket'.status = "draft" => ticket.status = "draft" /\ ticket'.payment = ticket.payment
  BY <1>1 DEF ReversedInOrder, Settled
<1>2. RecognizeBegin(w) \/ Fetch(w) \/ Lines(w) \/ Link(w) \/ PublishPaid(w) \/ Relief(w)
        \/ Issue(w) \/ LinkNote(w) \/ ReturnBegin(w) \/ PublishReturned(w) \/ MarkReturned(w)
        => /\ UNCHANGED <<invoice, settlement>>
           /\ ticket'.status = "draft" =>
                ticket.status = "draft" /\ ticket'.payment = ticket.payment
  <2>1. RecognizeBegin(w) \/ Fetch(w) \/ Lines(w) \/ PublishPaid(w) \/ Relief(w)
          \/ Issue(w) \/ ReturnBegin(w) \/ PublishReturned(w)
          => UNCHANGED <<ticket, invoice, settlement>>
    BY DEF RecognizeBegin, Fetch, Lines, PublishPaid, Relief, Issue, Declined, ReturnBegin,
           PublishReturned, books
  <2>2. Link(w) \/ LinkNote(w) \/ MarkReturned(w)
        => /\ UNCHANGED <<invoice, settlement>>
           /\ ticket'.status = "draft" =>
                ticket.status = "draft" /\ ticket'.payment = ticket.payment
    BY DEF Link, LinkNote, MarkReturned, books, Tickets
  <2>. QED BY <2>1, <2>2
<1>3. CASE MarkPaid(w)
  BY <1>1, <1>3 DEF MarkPaid, books, Tickets
<1>4. CASE Raise(w)
  <2>1. UNCHANGED <<ticket, settlement>> BY <1>4 DEF Raise, Declined, books
  <2>2. \A i \in Invoices : invoice'[i].state = "credited" => invoice[i].state = "credited"
    <3>1. CASE UNCHANGED invoice BY <3>1
    <3>2. ASSUME NEW j \in Invoices, NEW a \in Nat,
                 invoice' = [invoice EXCEPT ![j] = [state |-> "open", amount |-> a]]
          PROVE  \A i \in Invoices : invoice'[i].state = "credited" => invoice[i].state = "credited"
      BY <3>2
    <3>3. call[w].amount \in Nat BY DEF Calls
    <3>. QED BY <1>4, <3>1, <3>2, <3>3 DEF Raise, Declined, books
  <2>. QED BY <2>1, <2>2 DEF ReversedInOrder, Settled
<1>5. CASE Settle(w)
  <2>1. ticket.status = "draft" /\ UNCHANGED <<ticket, invoice>>
    BY <1>5 DEF Settle, Declined, Serves, books
  <2>2. \A p \in Payments : settlement'[p].state = "refunded" => settlement[p].state = "refunded"
    <3>1. CASE UNCHANGED settlement BY <3>1
    <3>2. ASSUME NEW q \in Payments, NEW a \in Nat, NEW i \in Invoices \cup {None},
                 settlement' = [settlement EXCEPT ![q] =
                                  [state |-> "open", amount |-> a, invoice |-> i]]
          PROVE  \A p \in Payments :
                   settlement'[p].state = "refunded" => settlement[p].state = "refunded"
      BY <3>2
    <3>3. call[w].total \in Nat /\ call[w].invoice \in Invoices \cup {None} BY DEF Calls
    <3>. QED BY <1>5, <3>1, <3>2, <3>3 DEF Settle, Declined, books
  <2>. QED BY <2>1, <2>2 DEF ReversedInOrder
<1>6. CASE Refund(w)
  <2>1. ticket.status # "draft" /\ UNCHANGED <<ticket, invoice>>
    BY <1>6 DEF Refund, Declined, Carried, books
  <2>2. call[w].payment = ticket.payment /\ settlement[ticket.payment].state # "none"
          /\ ticket.payment # None
    BY <1>6, <2>1 DEF Refund, Carried, TicketNamesItsBooks
  <2>. QED BY <1>6, <2>1, <2>2 DEF Refund, Declined, books, ReversedInOrder, Settled
<1>7. CASE CreditNote(w)
  <2>1. /\ ticket.status # "draft" /\ UNCHANGED <<ticket, settlement>>
        /\ settlement[ticket.payment].state = "refunded"
    BY <1>7 DEF CreditNote, Declined, Carried, books
  <2>2. Settled \subseteq {ticket.payment}
    <3>1. \A v \in Workers : pc[v] # "flip" BY <2>1 DEF SaleInv, Serves
    <3>. QED BY <3>1 DEF SaleInv, Accounted
  <2>. QED BY <2>1, <2>2 DEF ReversedInOrder, Settled
<1>. QED
  BY <1>1, <1>2, <1>3, <1>4, <1>5, <1>6, <1>7, NothingDies DEF Busy, Recognize, Return

LEMMA SaleInvariant == ASSUME NothingLost PROVE Spec => []SaleInv
<1>1. Init => SaleInv
  <2>1. Init => BooksInv
    <3>1. Init => TypeOK
      BY RecognitionAssumption
      DEF Init, TypeOK, Tickets, Calls, NoInvoice, NoSettlement, NoCall, PC
    <3>. QED BY <3>1 DEF Init, Linked, TicketNamesItsBooks, Carried, BooksInv
  <2>2. Init => (\A w \in Workers : Serves(w)) /\ Accounted /\ ReversedInOrder
    BY DEF Init, Serves, Recognizing, Accounted, ReversedInOrder, Raised, Settled, NoInvoice,
           NoSettlement
  <2>. QED BY <2>1, <2>2 DEF SaleInv
<1>2. SaleInv /\ BooksInv' /\ [Next]_vars => SaleInv'
  <2>. SUFFICES ASSUME SaleInv, BooksInv', [Next]_vars PROVE SaleInv' OBVIOUS
  <2>1. CASE UNCHANGED vars
    BY <2>1 DEF vars, books, SaleInv, Serves, Accounted, ReversedInOrder, Raised, Settled
  <2>2. ASSUME NEW total \in Amounts, NEW paid \in Amounts, Replay(total, paid) PROVE SaleInv'
    <3>1. /\ ticket'.billing = ticket.billing /\ ticket'.payment = ticket.payment
          /\ ticket'.status = ticket.status /\ ticket'.note = ticket.note
          /\ UNCHANGED <<invoice, settlement, notes, guard, pc, call>>
      BY <2>2 DEF Replay, books, SaleInv, BooksInv, TypeOK, Tickets
    <3>. QED BY <3>1 DEF SaleInv, Serves, Accounted, ReversedInOrder, Raised, Settled
  <2>3. ASSUME NEW w \in Workers, Busy(w) PROVE SaleInv'
    <3>1. \A v \in Workers : Serves(v)'
      <4>1. \A v \in Workers \ {w} : pc'[v] = pc[v] BY <2>3, OwnStep DEF SaleInv, BooksInv
      <4>. QED BY <2>3, <4>1, OthersServe, OwnServes
    <3>2. Accounted'
      <4>1. CASE pc[w] \in Recognizing BY <2>3, <4>1, WorkerAccounts, OwnAccountIsAll
      <4>2. CASE pc[w] \notin Recognizing BY <2>3, <4>2, ReturnerAccounts
      <4>. QED BY <4>1, <4>2
    <3>3. ReversedInOrder' BY <2>3, OrderStep
    <3>. QED BY <3>1, <3>2, <3>3 DEF SaleInv
  <2>. QED BY <2>1, <2>2, <2>3, Steps
<1>. QED BY <1>1, <1>2, BooksInvariant, PTL DEF Spec

\* Accounted documents are one of each kind.
LEMMA OneOfEach ==
  ASSUME SaleInv
  PROVE  /\ \A i, j \in Raised : i = j
         /\ \A p, q \in Settled : p = q
         /\ \A m, n \in notes : m = n
<1>. /\ (\A w \in Workers : Serves(w)) /\ Accounted /\ ReversedInOrder
     /\ None \notin Invoices /\ None \notin Payments /\ None \notin Notes
     /\ notes \subseteq Notes
  BY RecognitionAssumption DEF SaleInv, BooksInv, TypeOK
<1>1. ASSUME NEW i \in Raised, NEW j \in Raised PROVE i = j
  <2>1. i # None /\ j # None BY DEF Raised
  <2>2. \A v, w \in Workers : pc[v] = "link" /\ pc[w] = "link" => v = w
    BY DEF Serves, Recognizing
  <2>3. \A v \in Workers : pc[v] = "link" => ticket.billing = None BY DEF Serves
  <2>. QED BY <2>1, <2>2, <2>3 DEF Accounted
<1>2. ASSUME NEW p \in Settled, NEW q \in Settled PROVE p = q
  <2>1. p # None /\ q # None BY DEF Settled
  <2>2. \A v, w \in Workers : pc[v] = "flip" /\ pc[w] = "flip" => v = w
    BY DEF Serves, Recognizing
  <2>3. \A v \in Workers : pc[v] = "flip" => ticket.payment = None BY DEF Serves, ReversedInOrder
  <2>. QED BY <2>1, <2>2, <2>3 DEF Accounted
<1>3. ASSUME NEW m \in notes, NEW n \in notes PROVE m = n
  <2>1. m # None /\ n # None OBVIOUS
  <2>2. \A v, w \in Workers : pc[v] = "note" /\ pc[w] = "note" => v = w
    BY DEF Serves, Recognizing
  <2>3. \A v \in Workers : pc[v] = "note" => ticket.note = None BY DEF Serves
  <2>. QED BY <2>1, <2>2, <2>3 DEF Accounted
<1>. QED BY <1>1, <1>2, <1>3

\* While no answer is lost, no request dies and the advisory lock is kept, stock leaves
\* once for a ticket, however its deliveries and its returns race.
THEOREM StockRelievedOnce == ASSUME NothingLost PROVE Spec => []StockLeavesOnce
<1>1. SaleInv => StockLeavesOnce BY OneOfEach DEF StockLeavesOnce
<1>. QED BY <1>1, SaleInvariant, PTL

----------------------------------------------------------------------------
(* The retail seam's promise: PosRecognition is a RetailSale *)

Credited == \E i \in Invoices : invoice[i].state = "credited"
Refunded == \E p \in Payments : settlement[p].state = "refunded"

Standing ==
  BooksOf = IF Raised = {} THEN "unbooked"
            ELSE IF Credited THEN "reversed"
            ELSE IF Refunded THEN "refunded"
            ELSE IF Settled # {} THEN "settled" ELSE "invoiced"

\* With one document of each kind the books stand where the documents do.
LEMMA BooksAre == SaleInv => Standing
<1>. SUFFICES ASSUME SaleInv PROVE Standing OBVIOUS
<1>1. (\E i \in Raised : invoice[i].state = "credited") <=> Credited BY DEF Raised, Credited
<1>2. (\E p \in Settled : settlement[p].state = "refunded") <=> Refunded BY DEF Settled, Refunded
<1>3. ~(\E i, j \in Raised : i # j) /\ ~(\E p, q \in Settled : p # q) BY OneOfEach
<1>. QED BY <1>1, <1>2, <1>3 DEF BooksOf, Standing

LEMMA BooksWillBe == SaleInv' => Standing'
BY BooksAre, PTL

\* What is settled was invoiced; what the ticket shows was booked.
LEMMA ShownIsBooked ==
  ASSUME SaleInv
  PROVE  /\ Settled # {} => Raised # {}
         /\ ticket.billing # None => Raised # {}
         /\ ticket.status # "draft" => Raised # {} /\ Settled # {}
         /\ ticket.status = "draft" => ~Credited /\ ~Refunded
         /\ ticket.status = "returned" => Credited /\ Refunded
         /\ Credited => Settled = {} \/ Refunded
<1>. /\ ticket \in Tickets /\ TicketNamesItsBooks /\ Linked /\ ReversedInOrder /\ Accounted
     /\ \A w \in Workers : Carried(w)
  BY DEF SaleInv, BooksInv, TypeOK
<1>1. ticket.billing # None => Raised # {} BY DEF Linked, Raised, Tickets
<1>2. ticket.status # "draft" =>
        /\ ticket.billing \in Raised /\ ticket.payment \in Settled
        /\ ticket.billing \in Invoices /\ ticket.payment \in Payments
  BY DEF TicketNamesItsBooks, Raised, Settled, Tickets
<1>3. ASSUME Settled # {} PROVE Raised # {}
  <2>1. PICK p \in Settled : TRUE BY <1>3
  <2>2. p # None BY RecognitionAssumption DEF Settled
  <2>3. ticket.payment # None => ticket.status # "draft" BY DEF ReversedInOrder
  <2>4. CASE \E w \in Workers : pc[w] = "flip" BY <1>1, <2>4 DEF Carried
  <2>. QED BY <1>2, <2>1, <2>2, <2>3, <2>4 DEF Accounted
<1>4. ticket.status = "draft" => ~Credited /\ ~Refunded
  BY DEF ReversedInOrder, Credited, Refunded
<1>5. ticket.status = "returned" => Credited /\ Refunded
  BY <1>2 DEF TicketNamesItsBooks, Credited, Refunded
<1>6. Credited => Settled = {} \/ Refunded
  BY DEF ReversedInOrder, Credited, Refunded, Settled
<1>. QED BY <1>1, <1>2, <1>3, <1>4, <1>5, <1>6

\* A step moves the books, or the status shown, and not both.
Moves(from, to, shown) ==
  BooksOf = from /\ BooksOf' = to /\ ticket.status = shown /\ ticket'.status = shown
Shows(held, from, to) ==
  BooksOf = held /\ BooksOf' = held /\ ticket.status = from /\ ticket'.status = to

LEMMA MovesAreSteps ==
  /\ Moves("unbooked", "invoiced", "draft") => Sale!Next
  /\ Moves("invoiced", "settled", "draft") => Sale!Next
  /\ Shows("settled", "draft", "paid") => Sale!Next
  /\ Moves("settled", "refunded", "paid") => Sale!Next
  /\ Moves("refunded", "reversed", "paid") => Sale!Next
  /\ Shows("reversed", "paid", "returned") => Sale!Next
BY DEF Moves, Shows, Sale!Next, Sale!Invoice, Sale!Settle, Sale!Pay, Sale!Refund, Sale!Credit,
       Sale!Return, Sale!Book, Sale!Show

SaleStutters == UNCHANGED <<BooksOf, ticket.status>>

LEMMA UnbookedStutters ==
  ASSUME ticket'.status = ticket.status, UNCHANGED <<invoice, settlement>>
  PROVE  SaleStutters
BY DEF SaleStutters, BooksOf, Raised, Settled

LEMMA RaiseInvoices ==
  ASSUME NothingLost, SaleInv, SaleInv', NEW w \in Workers, Raise(w), ~Declined(w)
  PROVE  Moves("unbooked", "invoiced", "draft")
<1>. /\ Serves(w) /\ OwnAccount(w)
     /\ invoice \in [Invoices -> [state : {"none", "open", "credited"}, amount : Nat]]
  BY AccountIsOwn DEF Raise, Recognizing, SaleInv, BooksInv, TypeOK
<1>1. pc[w] = "raise" /\ UNCHANGED <<ticket, settlement>> BY DEF Raise
<1>2. ticket.status = "draft" /\ ticket.billing = None BY <1>1 DEF Serves
<1>3. Raised = {} BY <1>1, <1>2, RecognitionAssumption DEF OwnAccount, Raised
<1>4. Raised' # {}
  <2>1. \E i \in Invoices : invoice' = [invoice EXCEPT ![i] =
                                         [state |-> "open", amount |-> call[w].amount]]
    BY DEF Raise
  <2>. QED BY <2>1 DEF Raised
<1>5. Settled' = {} BY <1>1, <1>3, ShownIsBooked DEF Settled
<1>6. ~Credited' /\ ~Refunded'
  <2>1. ticket'.status = "draft" BY <1>1, <1>2
  <2>. QED BY <2>1 DEF SaleInv, ReversedInOrder, Credited, Refunded
<1>7. Standing /\ Standing' BY BooksAre, BooksWillBe
<1>. QED BY <1>1, <1>2, <1>3, <1>4, <1>5, <1>6, <1>7 DEF Moves, Standing

LEMMA SettleSettles ==
  ASSUME NothingLost, SaleInv, SaleInv', NEW w \in Workers, Settle(w), ~Declined(w)
  PROVE  Moves("invoiced", "settled", "draft")
<1>. /\ Serves(w) /\ OwnAccount(w) /\ Carried(w) /\ ReversedInOrder
     /\ settlement \in [Payments -> [state : {"none", "open", "refunded"}, amount : Nat,
                                     invoice : Invoices \cup {None}]]
  BY AccountIsOwn DEF Settle, Recognizing, SaleInv, BooksInv, TypeOK
<1>1. pc[w] = "settle" /\ UNCHANGED <<ticket, invoice>> BY DEF Settle
<1>2. ticket.status = "draft" /\ ticket.billing # None /\ ticket.payment = None
  BY <1>1 DEF Serves, Carried, ReversedInOrder
<1>3. Raised # {} /\ Raised' = Raised BY <1>1, <1>2, ShownIsBooked DEF Raised
<1>4. Settled = {} BY <1>1, <1>2, RecognitionAssumption DEF OwnAccount, Settled
<1>5. Settled' # {}
  <2>1. \E p \in Payments : settlement' = [settlement EXCEPT ![p] =
          [state |-> "open", amount |-> call[w].total, invoice |-> call[w].invoice]]
    BY DEF Settle
  <2>. QED BY <2>1 DEF Settled
<1>6. ~Credited /\ ~Refunded BY <1>2, ShownIsBooked
<1>7. ~Credited' /\ ~Refunded'
  <2>1. ticket'.status = "draft" BY <1>1, <1>2
  <2>. QED BY <2>1 DEF SaleInv, ReversedInOrder, Credited, Refunded
<1>8. Standing /\ Standing' BY BooksAre, BooksWillBe
<1>. QED BY <1>1, <1>2, <1>3, <1>4, <1>5, <1>6, <1>7, <1>8 DEF Moves, Standing

LEMMA MarkPaidShows ==
  ASSUME NothingLost, SaleInv, NEW w \in Workers, MarkPaid(w)
  PROVE  Shows("settled", "draft", "paid")
<1>. Serves(w) /\ Carried(w) /\ ticket \in Tickets /\ call[w] \in Calls
  BY DEF SaleInv, BooksInv, TypeOK
<1>1. pc[w] = "flip" BY DEF MarkPaid, Continue, Goto
<1>2. ticket.status = "draft" BY <1>1 DEF Serves
<1>3. ticket'.status = "paid" /\ UNCHANGED <<invoice, settlement>>
  BY <1>2 DEF MarkPaid, books, Tickets
<1>4. Settled # {} BY <1>1 DEF Carried, Settled, Calls
<1>5. Raised # {} /\ ~Credited /\ ~Refunded BY <1>2, <1>4, ShownIsBooked
<1>6. BooksOf = "settled" BY <1>4, <1>5, BooksAre DEF Standing
<1>7. BooksOf' = BooksOf BY <1>3 DEF BooksOf, Raised, Settled
<1>. QED BY <1>2, <1>3, <1>6, <1>7 DEF Shows

\* A refund of what is refunded changes nothing.
LEMMA RefundRefunds ==
  ASSUME SaleInv, SaleInv', NEW w \in Workers, Refund(w), ~Declined(w)
  PROVE  SaleStutters \/ Moves("settled", "refunded", "paid")
<1>. /\ Carried(w) /\ ticket \in Tickets /\ TicketNamesItsBooks
     /\ settlement \in [Payments -> [state : {"none", "open", "refunded"}, amount : Nat,
                                     invoice : Invoices \cup {None}]]
  BY DEF SaleInv, BooksInv, TypeOK
<1>1. /\ pc[w] = "refund" /\ UNCHANGED <<ticket, invoice>>
      /\ settlement' = [settlement EXCEPT ![call[w].payment].state = "refunded"]
  BY DEF Refund
<1>2. ticket.status # "draft" /\ call[w].payment = ticket.payment
        /\ ticket.payment \in Payments /\ settlement[ticket.payment].state # "none"
  BY <1>1 DEF Carried, TicketNamesItsBooks, Tickets
<1>3. Raised # {} /\ Settled # {} /\ Settled' # {} BY <1>1, <1>2, ShownIsBooked DEF Settled
<1>4. Refunded' BY <1>1, <1>2 DEF Refunded
<1>5. Raised' = Raised /\ (Credited' <=> Credited) BY <1>1 DEF Raised, Credited
<1>6. Standing /\ Standing' BY BooksAre, BooksWillBe
<1>7. CASE Refunded BY <1>1, <1>3, <1>4, <1>5, <1>6, <1>7 DEF Standing, SaleStutters
<1>8. CASE ~Refunded
  <2>1. ~Credited /\ ticket.status = "paid" BY <1>2, <1>3, <1>8, ShownIsBooked DEF Tickets
  <2>. QED BY <1>1, <1>3, <1>4, <1>5, <1>6, <1>8, <2>1 DEF Standing, Moves
<1>. QED BY <1>7, <1>8

\* A credit note against what is credited changes nothing.
LEMMA CreditNoteReverses ==
  ASSUME SaleInv, SaleInv', NEW w \in Workers, CreditNote(w), ~Declined(w)
  PROVE  SaleStutters \/ Moves("refunded", "reversed", "paid")
<1>. /\ Carried(w) /\ ticket \in Tickets /\ TicketNamesItsBooks
     /\ invoice \in [Invoices -> [state : {"none", "open", "credited"}, amount : Nat]]
  BY DEF SaleInv, BooksInv, TypeOK
<1>1. /\ pc[w] = "credit" /\ UNCHANGED <<ticket, settlement>>
      /\ invoice' = [invoice EXCEPT ![call[w].invoice].state = "credited"]
  BY DEF CreditNote
<1>2. /\ ticket.status # "draft" /\ call[w].invoice = ticket.billing
      /\ ticket.billing \in Invoices /\ ticket.payment \in Payments
      /\ settlement[ticket.payment].state = "refunded"
  BY <1>1 DEF Carried, TicketNamesItsBooks, Tickets
<1>3. Raised # {} /\ Raised' # {} BY <1>1, <1>2, ShownIsBooked DEF Raised
<1>4. Credited' BY <1>1, <1>2 DEF Credited
<1>5. Refunded BY <1>2 DEF Refunded
<1>6. Standing /\ Standing' BY BooksAre, BooksWillBe
<1>7. CASE Credited BY <1>1, <1>3, <1>4, <1>6, <1>7 DEF Standing, SaleStutters
<1>8. CASE ~Credited
  <2>1. ticket.status = "paid" BY <1>2, <1>8, ShownIsBooked DEF Tickets
  <2>. QED BY <1>1, <1>3, <1>4, <1>5, <1>6, <1>8, <2>1 DEF Standing, Moves
<1>. QED BY <1>7, <1>8

LEMMA MarkReturnedShows ==
  ASSUME SaleInv, NEW w \in Workers, MarkReturned(w)
  PROVE  SaleStutters \/ Shows("reversed", "paid", "returned")
<1>. Carried(w) /\ ticket \in Tickets /\ call[w] \in Calls /\ TicketNamesItsBooks
  BY DEF SaleInv, BooksInv, TypeOK
<1>1. pc[w] = "return" /\ UNCHANGED <<invoice, settlement>>
  BY DEF MarkReturned, Continue, Goto, books
<1>2. CASE ticket.status = "paid"
  <2>1. ticket'.status = "returned" BY <1>2 DEF MarkReturned, Tickets
  <2>2. Credited BY <1>1, <1>2 DEF Carried, TicketNamesItsBooks, Credited, Tickets
  <2>3. BooksOf = "reversed" BY <1>2, <2>2, ShownIsBooked, BooksAre DEF Standing
  <2>4. BooksOf' = BooksOf BY <1>1 DEF BooksOf, Raised, Settled
  <2>. QED BY <1>2, <2>1, <2>3, <2>4 DEF Shows
<1>3. CASE ticket.status # "paid"
  BY <1>1, <1>3, UnbookedStutters DEF MarkReturned
<1>. QED BY <1>2, <1>3

LEMMA StepsAreSteps ==
  ASSUME NothingLost, SaleInv, SaleInv', [Next]_vars
  PROVE  Sale!Next \/ SaleStutters
<1>. ticket \in Tickets BY DEF SaleInv, BooksInv, TypeOK
<1>. DEFINE Same == ticket'.status = ticket.status /\ UNCHANGED <<invoice, settlement>>
<1>0. Same => SaleStutters BY UnbookedStutters
<1>1. UNCHANGED vars => Same BY DEF vars, books
<1>2. ASSUME NEW total \in Amounts, NEW paid \in Amounts, Replay(total, paid) PROVE Same
  BY <1>2 DEF Replay, books, Tickets
<1>3. ASSUME NEW w \in Workers, Busy(w) PROVE Sale!Next \/ SaleStutters
  <2>1. RecognizeBegin(w) \/ Fetch(w) \/ Lines(w) \/ PublishPaid(w) \/ Relief(w)
          \/ ReturnBegin(w) \/ PublishReturned(w) => Same
    BY DEF RecognizeBegin, Fetch, Lines, PublishPaid, Relief, ReturnBegin, PublishReturned, books
  <2>2. Link(w) \/ LinkNote(w) => Same BY DEF Link, LinkNote, books, Tickets
  <2>3. Issue(w) => Same BY DEF Issue, Declined, books
  <2>4. (Raise(w) \/ Settle(w) \/ Refund(w) \/ CreditNote(w)) /\ Declined(w) => Same
    BY DEF Raise, Settle, Refund, CreditNote, Declined, books
  <2>. HIDE DEF Same
  <2>5. Raise(w) => Sale!Next \/ SaleStutters BY <1>0, <2>4, RaiseInvoices, MovesAreSteps
  <2>6. Settle(w) => Sale!Next \/ SaleStutters BY <1>0, <2>4, SettleSettles, MovesAreSteps
  <2>7. MarkPaid(w) => Sale!Next BY MarkPaidShows, MovesAreSteps
  <2>8. Refund(w) => Sale!Next \/ SaleStutters BY <1>0, <2>4, RefundRefunds, MovesAreSteps
  <2>9. CreditNote(w) => Sale!Next \/ SaleStutters
    BY <1>0, <2>4, CreditNoteReverses, MovesAreSteps
  <2>10. MarkReturned(w) => Sale!Next \/ SaleStutters BY MarkReturnedShows, MovesAreSteps
  <2>. QED
    BY <1>0, <1>3, <2>1, <2>2, <2>3, <2>5, <2>6, <2>7, <2>8, <2>9, <2>10, NothingDies
    DEF Busy, Recognize, Return
<1>. HIDE DEF Same
<1>. QED BY <1>0, <1>1, <1>2, <1>3, Steps

\* While no answer is lost, no request dies and the advisory lock is kept, deliveries that
\* race one another and their returns, refusals, retries and replays book each leg of the
\* sale once and in its order, and the ticket shows no more than the books hold.
THEOREM ImplementsSale == ASSUME NothingLost PROVE Spec => SaleImplemented
<1>1. Init => Sale!Init
  BY DEF Init, Sale!Init, BooksOf, Raised, Settled, NoInvoice, NoSettlement
<1>2. SaleInv /\ SaleInv' /\ [Next]_vars => [Sale!Next]_(Sale!vars)
  BY StepsAreSteps DEF SaleStutters, Sale!vars
<1>. QED BY <1>1, <1>2, SaleInvariant, PTL DEF Spec, SaleImplemented, Sale!Spec
=============================================================================
