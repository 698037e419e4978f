------------------------------- MODULE PosSync -------------------------------
(***************************************************************************)
(* Offline tickets, replayed until they stick.  A register that sold with- *)
(* out a connection sends each ticket again and again; every replay names  *)
(* the ticket by its client uuid and carries the whole basket and every    *)
(* tender.  A refund is replayed the same way, naming the uuid of the sale *)
(* it undoes.  Replays of one ticket overlap, arrive in any order and die. *)
(*                                                                         *)
(* Each half of the verb writes in one transaction under the row lock of   *)
(* the ticket, so it is one action here (PosCounter has its statements,    *)
(* its sessions and its tables); what is split is what no transaction      *)
(* spans: the identity read, the manager check, the reads of the parent,   *)
(* the calls to the owners of the books, and the publishing of the event.  *)
(***************************************************************************)
EXTENDS PosMoney, FiniteSets

CONSTANTS
  Workers,        \* requests being served at once
  Tickets,        \* ids an invoice may be given
  Replays,        \* what the client sends
  Tenders,        \* tenders a cashier may add online
  Rate, Unit,     \* the register's tax rate and cash rounding unit
  MaxTenders,     \* bound on the tender rows of a ticket
  ReceiptOf(_),   \* the receipt number minted from a client uuid
  UuidUnique,     \* the composing service declares the unique on client_uuid
  Outbox,         \* an outbox schema is configured
  None

ASSUME SyncAssumption ==
  /\ None \notin Workers \cup Tickets
  /\ MaxTenders \in Nat /\ Rate \in Nat
  /\ UuidUnique \in BOOLEAN /\ Outbox \in BOOLEAN

BasketLines == [quantity : Int, price : Int, discount : Int]
TenderRows  == [method : STRING, amount : Int]

\* The rounding unit is a column of whole cents that is not negative; what a client
\* sends is numbers of any size and sign.
ASSUME MoneyAssumption ==
  /\ Unit \in Nat /\ Unit % Cent = 0
  /\ Tenders \subseteq TenderRows
  /\ \A r \in Replays :
       r.basket \in Seq(BasketLines) /\ r.pct \in Int /\ r.tenders \in Seq(TenderRows)

VARIABLES
  invoice,    \* headers
  nets,       \* nets of a ticket's live lines
  tenders,    \* live tender rows of a ticket
  reversed,   \* sales whose books the owners have reversed
  outbox,     \* tickets with a PosTenderCompleted staged and not relayed
  published,  \* tickets with one published in process and not consumed
  pc, req, answer

rows == <<invoice, nets, tenders, outbox>>
vars == <<invoice, nets, tenders, reversed, outbox, published, pc, req, answer>>

NoHeader == [net |-> 0, tax |-> 0, grand |-> 0, adjustment |-> 0, rounded |-> 0]

NoInvoice == [status |-> "none", uuid |-> None, receipt |-> None, customer |-> None,
              header |-> NoHeader, paid |-> 0, change |-> 0, against |-> None]

NoReq    == [replay |-> None, ticket |-> None, customer |-> None, seen |-> "none"]
NoAnswer == [action |-> "none", ticket |-> None, replay |-> None]

PC == {"idle", "create", "update", "verify", "parent", "source", "reverse", "flip",
       "publish"}

----------------------------------------------------------------------------
(* Tender rows.  A row keeps its method and the amount rounded to the cent. *)

Raw(ts) == SumFunction([i \in DOMAIN ts |-> ts[i].amount])

Row(tender) == [tender EXCEPT !.amount = Money(tender.amount)]

RowsOf(ts) == [i \in DOMAIN ts |-> Row(ts[i])]

NonCash(ts) ==
  SumFunction([i \in DOMAIN ts |-> IF ts[i].method = "cash" THEN 0 ELSE Money(ts[i].amount)])

ChangeIsCash(ts, rounded) == NonCash(ts) <= AtLeastZero(rounded)

TendersPass(ts, rounded) ==
  (\A i \in DOMAIN ts : ts[i].amount > 0) /\ ChangeIsCash(ts, rounded)

Full(header, paid) == header.rounded > 0 /\ paid >= header.rounded

PaidUp(t) == Full(invoice[t].header, invoice[t].paid)

----------------------------------------------------------------------------
(* What a replay finds. *)

Live == {t \in Tickets : invoice[t].status # "none"}

Named(uuid) == {t \in Live : invoice[t].uuid = uuid}

ReturnsOf(t) == {r \in Live : invoice[r].against = t}

ReceiptIsFree(receipt) == \A t \in Live : invoice[t].receipt # receipt

\* The unique indexes an insert must pass: on the receipt number always, on
\* the client uuid where the composing service has declared one.
\* Mutant: the receipt number does not name the ticket.
PassesUuidOnly(uuid) == UuidUnique => Named(uuid) = {}

PassesUniques(uuid) == ReceiptIsFree(ReceiptOf(uuid)) /\ (UuidUnique => Named(uuid) = {})

Fresh(t) == t \notin Live

----------------------------------------------------------------------------
(* Steps of a request. *)

Goto(w, from, to) == pc[w] = from /\ pc' = [pc EXCEPT ![w] = to]

Finish(w, action, t) ==
  /\ pc' = [pc EXCEPT ![w] = "idle"]
  /\ req' = [req EXCEPT ![w] = NoReq]
  /\ answer' = [answer EXCEPT ![w] = [action |-> action, ticket |-> t, replay |-> req[w].replay]]

Replaying(w) == req[w].replay

\* A replay that is answered at once, or told to go on and create or update.
Lookup(w, r) ==
  /\ pc[w] = "idle"
  /\ \/ \E t \in Named(r.uuid) :
          \/ /\ invoice[t].status # "draft"
             /\ answer' = [answer EXCEPT ![w] = [action |-> "finalized", ticket |-> t, replay |-> r]]
             /\ UNCHANGED <<pc, req>>
          \/ /\ invoice[t].status = "draft"
             /\ pc' = [pc EXCEPT ![w] = "update"]
             /\ req' = [req EXCEPT ![w] = [replay |-> r, ticket |-> t, seen |-> "draft",
                                           customer |-> invoice[t].customer]]
             /\ answer' = [answer EXCEPT ![w] = NoAnswer]
     \/ /\ Named(r.uuid) = {}
        /\ pc' = [pc EXCEPT ![w] = IF r.of = None THEN "create" ELSE "verify"]
        /\ req' = [req EXCEPT ![w] = [NoReq EXCEPT !.replay = r]]
        /\ answer' = [answer EXCEPT ![w] = NoAnswer]
  /\ UNCHANGED <<rows, reversed, published>>

\* Any refusal: nothing the transaction wrote survives.
Refuse(w) ==
  /\ pc[w] \in PC \ {"idle", "publish"}
  /\ Finish(w, "refused", None)
  /\ UNCHANGED <<rows, reversed, published>>

----------------------------------------------------------------------------
(* A write that completes the payment stages the event with the ticket. *)

\* Mutant: the event is published and never staged.
StageNothing(t, crossed) == outbox

Stage(t, crossed) == IF crossed /\ Outbox THEN outbox \cup {t} ELSE outbox

\* After the commit: publish, or answer when there is nothing to publish.
Committed(w, t, action, crossed) ==
  IF crossed
  THEN /\ pc' = [pc EXCEPT ![w] = "publish"]
       /\ req' = [req EXCEPT ![w] = [req[w] EXCEPT !.ticket = t, !.seen = action]]
       /\ UNCHANGED answer
  ELSE Finish(w, action, t)

Publish(w) ==
  /\ pc[w] = "publish"
  /\ published' = published \cup {req[w].ticket}
  /\ Finish(w, req[w].seen, req[w].ticket)
  /\ UNCHANGED <<rows, reversed>>

\* What a create writes: the header is summed again from the rows it wrote.
Created(r, c) ==
  LET paid == Raw(RowsOf(r.tenders))
  IN  [NoInvoice EXCEPT !.status = "draft", !.uuid = r.uuid, !.receipt = ReceiptOf(r.uuid),
                        !.customer = r.customer, !.header = c.header, !.paid = paid,
                        !.change = AtLeastZero(paid - c.header.rounded)]

Create(w, t) ==
  LET r == Replaying(w)
  IN  /\ pc[w] = "create" /\ Fresh(t)
      /\ Accepts(r.basket, r.pct) /\ PassesUniques(r.uuid)
      /\ \E c \in Computed(r.basket, r.pct, Rate, Unit) :
           LET now     == Created(r, c)
               crossed == Full(now.header, now.paid)
           IN  /\ TendersPass(r.tenders, c.header.rounded)
               /\ invoice' = [invoice EXCEPT ![t] = now]
               /\ nets' = [nets EXCEPT ![t] = c.nets]
               /\ tenders' = [tenders EXCEPT ![t] = RowsOf(r.tenders)]
               /\ outbox' = Stage(t, crossed)
               /\ Committed(w, t, "created", crossed)
      /\ UNCHANGED <<reversed, published>>

----------------------------------------------------------------------------
(* A replay of a ticket that was a draft when it was looked up. *)

\* The header's paid total is the rounded sum of the tenders, not of their rows.
Rewritten(t, r, c) ==
  LET paid == Money(Raw(r.tenders))
  IN  [invoice[t] EXCEPT !.header = c.header, !.paid = paid,
                         !.change = AtLeastZero(paid - c.header.rounded)]

\* Partner and lineage are checked against the row read before the lock.
MayRewrite(w) ==
  LET r == Replaying(w)
  IN  r.of = None /\ r.customer = req[w].customer /\ Accepts(r.basket, r.pct)

\* Mutant: the prior tenders are not retired before the replay's are written.
RewriteKeepingTenders(w, t, r) ==
  \E c \in Computed(r.basket, r.pct, Rate, Unit) :
    LET now     == Rewritten(t, r, c)
        crossed == ~PaidUp(t) /\ Full(now.header, now.paid)
    IN  /\ TendersPass(r.tenders, c.header.rounded)
        /\ Len(tenders[t]) <= MaxTenders
        /\ invoice' = [invoice EXCEPT ![t] = now]
        /\ nets' = [nets EXCEPT ![t] = c.nets]
        /\ tenders' = [tenders EXCEPT ![t] = tenders[t] \o RowsOf(r.tenders)]
        /\ outbox' = Stage(t, crossed)
        /\ Committed(w, t, "updated", crossed)

Rewrite(w, t, r) ==
  \E c \in Computed(r.basket, r.pct, Rate, Unit) :
    LET now     == Rewritten(t, r, c)
        crossed == ~PaidUp(t) /\ Full(now.header, now.paid)
    IN  /\ TendersPass(r.tenders, c.header.rounded)
        /\ invoice' = [invoice EXCEPT ![t] = now]
        /\ nets' = [nets EXCEPT ![t] = c.nets]
        /\ tenders' = [tenders EXCEPT ![t] = RowsOf(r.tenders)]
        /\ outbox' = Stage(t, crossed)
        /\ Committed(w, t, "updated", crossed)

\* Mutant: the status is not looked at again under the row lock.
UpdateUnlocked(w) ==
  LET t == req[w].ticket
  IN  /\ pc[w] = "update" /\ MayRewrite(w) /\ Rewrite(w, t, Replaying(w))
      /\ UNCHANGED <<reversed, published>>

\* Under the row lock: a ticket that left draft since the lookup is finalized.
Update(w) ==
  LET t == req[w].ticket
  IN  /\ pc[w] = "update"
      /\ \/ /\ invoice[t].status = "draft"
            /\ MayRewrite(w) /\ Rewrite(w, t, Replaying(w))
         \/ /\ invoice[t].status # "draft"
            /\ Finish(w, "finalized", t) /\ UNCHANGED rows
      /\ UNCHANGED <<reversed, published>>

----------------------------------------------------------------------------
(* A refund: the manager first, then the parent, then the return saga. *)

Verify(w) ==
  /\ Goto(w, "verify", "parent")
  /\ UNCHANGED <<rows, reversed, published, req, answer>>

FindParent(w) ==
  /\ Goto(w, "parent", "source")
  /\ \E t \in Named(Replaying(w).of) :
       req' = [req EXCEPT ![w] = [req[w] EXCEPT !.ticket = t, !.seen = invoice[t].status]]
  /\ UNCHANGED <<rows, reversed, published, answer>>

ReturnSource(w) ==
  /\ Goto(w, "source", "reverse")
  /\ invoice[req[w].ticket].status \in {"paid", "returned"}
  /\ UNCHANGED <<rows, reversed, published, req, answer>>

\* Mutant: a reversal that its owner declines is taken for done.
ReverseIgnoringRefusal(w) ==
  /\ Goto(w, "reverse", "flip")
  /\ reversed' \in {reversed, reversed \cup {req[w].ticket}}
  /\ UNCHANGED <<rows, published, req, answer>>

\* Payment refunds and billing credits; both do so once however often asked.
Reverse(w) ==
  /\ Goto(w, "reverse", "flip")
  /\ reversed' = reversed \cup {req[w].ticket}
  /\ UNCHANGED <<rows, published, req, answer>>

ReturnReceipt(t) == <<"RET", t>>

ReturnTicket(t) ==
  LET i == invoice[t]
  IN  [NoInvoice EXCEPT !.status = "returned", !.receipt = ReturnReceipt(t),
                        !.customer = i.customer, !.against = t,
                        !.header = [i.header EXCEPT !.adjustment = 0],
                        !.paid = i.header.rounded]

\* Whether this call recorded the return is told by the state read before it.
RefundAction(w) == IF req[w].seen = "paid" THEN "created" ELSE "finalized"

\* Mutant: a repeated refund answers with the ticket it undid.
FlipNamingSale(w, rt) ==
  LET t == req[w].ticket
  IN  /\ pc[w] = "flip"
      /\ \/ /\ invoice[t].status = "paid" /\ Fresh(rt) /\ ReceiptIsFree(ReturnReceipt(t))
            /\ invoice' = [invoice EXCEPT ![t].status = "returned", ![rt] = ReturnTicket(t)]
            /\ Finish(w, RefundAction(w), rt)
         \/ /\ invoice[t].status # "paid" /\ rt \in ReturnsOf(t)
            /\ Finish(w, RefundAction(w), t)
            /\ UNCHANGED invoice
      /\ UNCHANGED <<nets, tenders, outbox, reversed, published>>

\* The flip and the ticket that records it are one transaction.
Flip(w, rt) ==
  LET t == req[w].ticket
  IN  /\ pc[w] = "flip"
      /\ \/ /\ invoice[t].status = "paid" /\ Fresh(rt) /\ ReceiptIsFree(ReturnReceipt(t))
            /\ invoice' = [invoice EXCEPT ![t].status = "returned", ![rt] = ReturnTicket(t)]
            /\ Finish(w, RefundAction(w), rt)
         \/ /\ invoice[t].status # "paid" /\ rt \in ReturnsOf(t)
            /\ Finish(w, RefundAction(w), rt)
            /\ UNCHANGED invoice
      /\ UNCHANGED <<nets, tenders, outbox, reversed, published>>

----------------------------------------------------------------------------
(* What else happens to a synced ticket. *)

\* add_tender at the till.  Its request may die before it publishes.
AddTender(t, x) ==
  LET before == Raw(tenders[t])
      paid   == before + Money(x.amount)
      due    == invoice[t].header.rounded
  IN  /\ invoice[t].status = "draft" /\ Len(tenders[t]) < MaxTenders
      /\ x.method = "cash" \/ Money(x.amount) <= AtLeastZero(due - before)
      /\ tenders' = [tenders EXCEPT ![t] = Append(@, Row(x))]
      /\ invoice' = [invoice EXCEPT ![t].paid = paid, ![t].change = AtLeastZero(paid - due)]
      /\ LET crossed == paid >= due /\ before < due
         IN  /\ outbox' = Stage(t, crossed)
             /\ \/ UNCHANGED published
                \/ crossed /\ published' = published \cup {t}
      /\ UNCHANGED <<nets, reversed, pc, req, answer>>

\* Mutant: a delivery is taken for a ticket that is overpaid only.
RecogniseOverpaid(t) ==
  invoice' = IF invoice[t].status = "draft" /\ invoice[t].paid > invoice[t].header.rounded
             THEN [invoice EXCEPT ![t].status = "paid"] ELSE invoice

\* recognize_sale, driven by a delivered event: refused unless fully tendered.
Recognise(t) ==
  invoice' = IF invoice[t].status = "draft" /\ invoice[t].paid >= invoice[t].header.rounded
             THEN [invoice EXCEPT ![t].status = "paid"] ELSE invoice

\* The relay delivers a staged event at least once: it may die before it marks it.
Relay(t) ==
  /\ t \in outbox /\ Recognise(t)
  /\ outbox' \in {outbox, outbox \ {t}}
  /\ UNCHANGED <<nets, tenders, reversed, published, pc, req, answer>>

Consume(t) ==
  /\ t \in published /\ Recognise(t)
  /\ published' = published \ {t}
  /\ UNCHANGED <<nets, tenders, reversed, outbox, pc, req, answer>>

\* What is only in memory goes with the process.
Crash ==
  /\ pc' = [w \in Workers |-> "idle"] /\ req' = [w \in Workers |-> NoReq]
  /\ published' = {}
  /\ UNCHANGED <<rows, reversed, answer>>

----------------------------------------------------------------------------
Init ==
  /\ invoice = [t \in Tickets |-> NoInvoice]
  /\ nets = [t \in Tickets |-> <<>>] /\ tenders = [t \in Tickets |-> <<>>]
  /\ reversed = {} /\ outbox = {} /\ published = {}
  /\ pc = [w \in Workers |-> "idle"]
  /\ req = [w \in Workers |-> NoReq] /\ answer = [w \in Workers |-> NoAnswer]

Serve(w) ==
  \/ \E r \in Replays : Lookup(w, r)
  \/ \E t \in Tickets : Create(w, t) \/ Flip(w, t)
  \/ Update(w) \/ Publish(w) \/ Refuse(w)
  \/ Verify(w) \/ FindParent(w) \/ ReturnSource(w) \/ Reverse(w)

Next ==
  \/ \E w \in Workers : Serve(w)
  \/ \E t \in Tickets : Relay(t) \/ Consume(t) \/ \E x \in Tenders : AddTender(t, x)
  \/ Crash

Spec == Init /\ [][Next]_vars

\* The relay keeps draining the outbox; nothing else is owed a step.
FairSpec == Spec /\ \A t \in Tickets : WF_vars(Relay(t))

----------------------------------------------------------------------------
Uuids == {r.uuid : r \in Replays}

Headers == [net : Int, tax : Int, grand : Int, adjustment : Int, rounded : Int]

Invoices ==
  [status : {"none", "draft", "paid", "returned"}, uuid : Uuids \cup {None},
   receipt : {ReceiptOf(u) : u \in Uuids} \cup {ReturnReceipt(t) : t \in Tickets} \cup {None},
   customer : {r.customer : r \in Replays} \cup {None}, header : Headers,
   paid : Int, change : Nat, against : Tickets \cup {None}]

Reqs == [replay : Replays \cup {None}, ticket : Tickets \cup {None},
         customer : {r.customer : r \in Replays} \cup {None},
         seen : {"none", "draft", "paid", "returned", "created", "updated"}]

Answers == [action : {"none", "created", "updated", "finalized", "refused"},
            ticket : Tickets \cup {None}, replay : Replays \cup {None}]

\* Every variable holds what its table or its request can hold.
TypeOK ==
  /\ invoice \in [Tickets -> Invoices]
  /\ reversed \subseteq Tickets /\ outbox \subseteq Tickets /\ published \subseteq Tickets
  /\ pc \in [Workers -> PC]
  /\ req \in [Workers -> Reqs] /\ answer \in [Workers -> Answers]

Sales == {t \in Live : invoice[t].against = None}

\* However its replays overlap, an offline ticket is rung once: two first
\* replays that both find nothing meet at the receipt number they mint.
OneTicketPerUuid == \A t, u \in Sales : invoice[t].uuid = invoice[u].uuid => t = u

\* A header is never left over from one snapshot with the rows of another: the
\* nets of the live lines make its net, the rounding is within half a unit, and
\* the tenders' cents are lost at most half a cent to the row.
HeaderTellsItsRows ==
  \A t \in Sales :
    LET h == invoice[t].header
        lost == invoice[t].paid - Raw(tenders[t])
    IN  /\ h.net = Money(SumFunction(nets[t]))
        /\ h.rounded = h.grand + h.adjustment /\ h.grand = h.net + h.tax
        /\ 2 * Magnitude(h.adjustment) <= IF Unit > Cent THEN Unit ELSE Cent
        /\ 2 * Magnitude(lost) <= Cent * (Len(tenders[t]) + 1)

\* A ticket that left draft keeps its money, whatever is replayed after.
FinalizedIsFrozen ==
  [][\A t \in Live : invoice[t].status # "draft" =>
       /\ [invoice'[t] EXCEPT !.status = "paid"] = [invoice[t] EXCEPT !.status = "paid"]
       /\ nets'[t] = nets[t] /\ tenders'[t] = tenders[t]]_vars

\* A sale is returned exactly when one return ticket says so, and never before
\* the owners of the books have reversed it.
ReturnedOnce ==
  \A t \in Sales :
    /\ \A r, s \in ReturnsOf(t) : r = s
    /\ invoice[t].status = "returned" <=> ReturnsOf(t) # {}
    /\ invoice[t].status = "returned" => t \in reversed

\* What a replay was answered stays true: a finalized sale has left draft, and a
\* refund names the return ticket of the sale it asked to undo.
AnswersHold ==
  \A w \in Workers :
    LET a == answer[w] IN
    a.action \in {"created", "updated", "finalized"} =>
      IF a.replay.of = None
      THEN /\ invoice[a.ticket].uuid = a.replay.uuid
           /\ a.action = "finalized" => invoice[a.ticket].status # "draft"
      ELSE invoice[a.ticket].against \in Named(a.replay.of)

\* With an outbox, a draft that is paid up has its event waiting: no crash, and
\* no order of replays and tenders, leaves it with nothing to recognise it.
PaidUpIsTold ==
  \A t \in Live : Outbox /\ invoice[t].status = "draft" /\ PaidUp(t) => t \in outbox

\* ... so a ticket does not stay both draft and paid up.
PaidUpIsRecognised ==
  \A t \in Tickets : (invoice[t].status = "draft" /\ PaidUp(t))
                      ~> ~(invoice[t].status = "draft" /\ PaidUp(t))
=============================================================================
