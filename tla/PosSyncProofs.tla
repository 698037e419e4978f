---------------------------- MODULE PosSyncProofs ----------------------------
(***************************************************************************)
(* Proofs about the offline replays, for any number of requests, tickets,  *)
(* replays and tenders, whatever baskets they carry.                       *)
(*                                                                         *)
(* Every write is one of four on the rows: a sale is inserted, a draft is  *)
(* altered, a sale is undone with its return inserted, or nothing (Moves). *)
(* The receipt number, minted from the uuid of a sale and from the id a    *)
(* return undoes, and unique, ties them together (Receipts); what a        *)
(* request knows of the rows stays true, because a row keeps its ids and   *)
(* never becomes a draft again (Persists).                                 *)
(*                                                                         *)
(* The money is a layer on top: every row is one that one compute and its  *)
(* tenders explain (RowsAreGood), and a draft's header owes its rows no    *)
(* more than the roundings on the way (Covers), so that whoever pays it up *)
(* sees it (Told).                                                         *)
(***************************************************************************)
EXTENDS PosSync, PosMoneyProofs

----------------------------------------------------------------------------
(* Shapes.  What the money of a row is made of comes later. *)

Fields == {"status", "uuid", "receipt", "customer", "header", "paid", "change", "against"}
IsRow(i) == DOMAIN i = Fields

IsReq(q) == DOMAIN q = {"replay", "ticket", "customer", "seen"}

RowsShaped ==
  /\ invoice = [t \in Tickets |-> invoice[t]]
  /\ \A t \in Tickets : IsRow(invoice[t])
  /\ \A t \in Tickets : invoice[t].status \in {"none", "draft", "paid", "returned"}
  /\ nets = [t \in Tickets |-> nets[t]]
  /\ tenders = [t \in Tickets |-> tenders[t]]

RequestsShaped ==
  /\ pc \in [Workers -> PC]
  /\ req = [w \in Workers |-> req[w]]
  /\ \A w \in Workers : IsReq(req[w])
  /\ answer = [w \in Workers |-> answer[w]]

----------------------------------------------------------------------------
(* What a step does to the rows *)

Others(t) ==
  \A u \in Tickets \ {t} : /\ invoice'[u] = invoice[u]
                           /\ nets'[u] = nets[u] /\ tenders'[u] = tenders[u]

SameIds(t) ==
  /\ invoice'[t].uuid = invoice[t].uuid /\ invoice'[t].receipt = invoice[t].receipt
  /\ invoice'[t].against = invoice[t].against

\* A sale is rung under a receipt number nobody has.
Inserted(t, uuid) ==
  /\ Fresh(t) /\ ReceiptIsFree(ReceiptOf(uuid)) /\ Others(t) /\ UNCHANGED reversed
  /\ IsRow(invoice'[t]) /\ invoice'[t].status = "draft" /\ invoice'[t].uuid = uuid
  /\ invoice'[t].receipt = ReceiptOf(uuid) /\ invoice'[t].against = None

\* A draft is rewritten, tendered, or recognised.
Altered(t) ==
  /\ invoice[t].status = "draft" /\ Others(t) /\ UNCHANGED reversed
  /\ IsRow(invoice'[t]) /\ invoice'[t].status \in {"draft", "paid"} /\ SameIds(t)

\* A paid sale is returned, and the ticket that says so is inserted.
Undone(t, rt) ==
  /\ invoice[t].status = "paid" /\ Fresh(rt) /\ ReceiptIsFree(ReturnReceipt(t))
  /\ t \in reversed /\ invoice[t].uuid # None
  /\ rt # t /\ UNCHANGED <<nets, tenders, reversed>>
  /\ \A u \in Tickets \ {t, rt} : invoice'[u] = invoice[u]
  /\ invoice'[t] = [invoice[t] EXCEPT !.status = "returned"]
  /\ IsRow(invoice'[rt]) /\ invoice'[rt].status = "returned" /\ invoice'[rt].uuid = None
  /\ invoice'[rt].receipt = ReturnReceipt(t) /\ invoice'[rt].against = t

Untouched == UNCHANGED <<invoice, nets, tenders>> /\ reversed \subseteq reversed'

Moves ==
  \/ Untouched
  \/ \E t \in Tickets, r \in Replays : r.of = None /\ Inserted(t, r.uuid)
  \/ \E t \in Tickets : Altered(t)
  \/ \E t, rt \in Tickets : Undone(t, rt)

ShapeHolds == RowsShaped' /\ RequestsShaped'

LEMMA CreatedIs ==
  ASSUME NEW r, NEW c, NEW now, now = Created(r, c)
  PROVE  /\ IsRow(now) /\ now.status = "draft" /\ now.uuid = r.uuid
         /\ now.receipt = ReceiptOf(r.uuid) /\ now.against = None
BY DEF Created, NoInvoice, IsRow, Fields

LEMMA RewrittenIs ==
  ASSUME NEW t, IsRow(invoice[t]), NEW r, NEW c, NEW now, now = Rewritten(t, r, c)
  PROVE  /\ IsRow(now) /\ now.status = invoice[t].status /\ now.uuid = invoice[t].uuid
         /\ now.receipt = invoice[t].receipt /\ now.against = invoice[t].against
BY DEF Rewritten, IsRow, Fields

LEMMA ReturnTicketIs ==
  ASSUME NEW t, NEW now, now = ReturnTicket(t)
  PROVE  /\ IsRow(now) /\ now.status = "returned" /\ now.uuid = None
         /\ now.receipt = ReturnReceipt(t) /\ now.against = t
BY DEF ReturnTicket, NoInvoice, IsRow, Fields

LEMMA CreateInserts ==
  ASSUME RowsShaped, NEW w \in Workers, NEW t \in Tickets, Create(w, t)
  PROVE  RowsShaped' /\ Inserted(t, req[w].replay.uuid)
<1>. DEFINE r == req[w].replay
<1>1. PICK c \in Computed(r.basket, r.pct, Rate, Unit) :
        /\ invoice' = [invoice EXCEPT ![t] = Created(r, c)]
        /\ nets' = [nets EXCEPT ![t] = c.nets]
        /\ tenders' = [tenders EXCEPT ![t] = RowsOf(r.tenders)]
  BY DEF Create, Replaying
<1>2. Fresh(t) /\ ReceiptIsFree(ReceiptOf(r.uuid)) /\ UNCHANGED reversed
  BY DEF Create, PassesUniques, Replaying
<1>3. PICK now : now = Created(r, c) OBVIOUS
<1>4. /\ IsRow(now) /\ now.status = "draft" /\ now.uuid = r.uuid
      /\ now.receipt = ReceiptOf(r.uuid) /\ now.against = None
  BY <1>3, CreatedIs
<1>5. invoice' = [invoice EXCEPT ![t] = now] BY <1>1, <1>3
<1>6. invoice'[t] = now /\ Others(t) BY <1>1, <1>5 DEF RowsShaped, Others
<1>7. RowsShaped' BY <1>1, <1>4, <1>5 DEF RowsShaped
<1>. QED BY <1>2, <1>4, <1>6, <1>7 DEF Inserted

LEMMA RewriteAlters ==
  ASSUME RowsShaped, NEW w \in Workers, NEW t \in Tickets, NEW r, Rewrite(w, t, r),
         invoice[t].status = "draft", UNCHANGED reversed
  PROVE  RowsShaped' /\ Altered(t)
<1>1. PICK c \in Computed(r.basket, r.pct, Rate, Unit) :
        /\ invoice' = [invoice EXCEPT ![t] = Rewritten(t, r, c)]
        /\ nets' = [nets EXCEPT ![t] = c.nets]
        /\ tenders' = [tenders EXCEPT ![t] = RowsOf(r.tenders)]
  BY DEF Rewrite
<1>2. PICK now : now = Rewritten(t, r, c) OBVIOUS
<1>3. /\ IsRow(now) /\ now.status = "draft" /\ now.uuid = invoice[t].uuid
      /\ now.receipt = invoice[t].receipt /\ now.against = invoice[t].against
  <2>1. IsRow(invoice[t]) BY DEF RowsShaped
  <2>. QED BY <1>2, <2>1, RewrittenIs
<1>4. invoice' = [invoice EXCEPT ![t] = now] BY <1>1, <1>2
<1>5. invoice'[t] = now /\ Others(t) BY <1>1, <1>4 DEF RowsShaped, Others
<1>6. RowsShaped' BY <1>1, <1>3, <1>4 DEF RowsShaped
<1>. QED BY <1>3, <1>5, <1>6 DEF Altered, SameIds

LEMMA TenderAlters ==
  ASSUME RowsShaped, NEW t \in Tickets, NEW x, AddTender(t, x)
  PROVE  RowsShaped' /\ Altered(t)
<1>. DEFINE paid   == Raw(tenders[t]) + Money(x.amount)
            change == AtLeastZero(paid - invoice[t].header.rounded)
<1>1. /\ invoice' = [invoice EXCEPT ![t].paid = paid, ![t].change = change]
      /\ tenders' = [tenders EXCEPT ![t] = Append(@, Row(x))]
  BY Zenon DEF AddTender
<1>. HIDE DEF paid, change
<1>2. invoice[t].status = "draft" /\ UNCHANGED <<nets, reversed>> BY DEF AddTender
<1>3. invoice'[t] = [invoice[t] EXCEPT !.paid = paid, !.change = change]
  BY <1>1 DEF RowsShaped
<1>4. /\ IsRow(invoice'[t]) /\ invoice'[t].status = "draft" /\ SameIds(t)
  BY <1>2, <1>3 DEF RowsShaped, IsRow, Fields, SameIds
<1>5. Others(t) BY <1>1, <1>2 DEF RowsShaped, Others
<1>6. RowsShaped' BY <1>1, <1>2, <1>4, <1>5 DEF RowsShaped, Others
<1>. QED BY <1>2, <1>4, <1>5, <1>6 DEF Altered

LEMMA RecogniseAlters ==
  ASSUME RowsShaped, NEW t \in Tickets, Recognise(t), UNCHANGED <<nets, tenders, reversed>>
  PROVE  RowsShaped' /\ (Altered(t) \/ Untouched)
<1>1. CASE UNCHANGED invoice BY <1>1 DEF RowsShaped, Untouched
<1>2. CASE invoice' # invoice
  <2>1. invoice[t].status = "draft" /\ invoice' = [invoice EXCEPT ![t].status = "paid"]
    BY <1>2 DEF Recognise
  <2>2. invoice'[t] = [invoice[t] EXCEPT !.status = "paid"] BY <2>1 DEF RowsShaped
  <2>3. IsRow(invoice'[t]) /\ invoice'[t].status = "paid" /\ SameIds(t)
    BY <2>2 DEF RowsShaped, IsRow, Fields, SameIds
  <2>4. Others(t) BY <2>1 DEF RowsShaped, Others
  <2>5. RowsShaped' BY <2>1, <2>3, <2>4 DEF RowsShaped, Others
  <2>. QED BY <2>1, <2>3, <2>4, <2>5 DEF Altered
<1>. QED BY <1>1, <1>2

LEMMA FlipUndoes ==
  ASSUME RowsShaped, NEW w \in Workers, NEW rt \in Tickets, Flip(w, rt),
         NEW t \in Tickets, t = req[w].ticket, t \in reversed, invoice[t].uuid # None
  PROVE  /\ RowsShaped'
         /\ \/ Undone(t, rt) /\ Finish(w, RefundAction(w), rt)
            \/ Untouched /\ invoice[t].status # "paid" /\ rt \in ReturnsOf(t)
                 /\ Finish(w, RefundAction(w), rt)
<1>1. UNCHANGED <<nets, tenders, reversed>> BY DEF Flip
<1>2. CASE UNCHANGED invoice /\ invoice[t].status # "paid"
  BY <1>1, <1>2 DEF Flip, RowsShaped, Untouched
<1>3. CASE /\ invoice[t].status = "paid" /\ Fresh(rt) /\ ReceiptIsFree(ReturnReceipt(t))
           /\ invoice' = [invoice EXCEPT ![t].status = "returned", ![rt] = ReturnTicket(t)]
           /\ Finish(w, RefundAction(w), rt)
  <2>1. PICK now : now = ReturnTicket(t) OBVIOUS
  <2>2. /\ IsRow(now) /\ now.status = "returned" /\ now.uuid = None
        /\ now.receipt = ReturnReceipt(t) /\ now.against = t
    BY <2>1, ReturnTicketIs
  <2>3. rt # t BY <1>3 DEF Fresh, Live
  <2>4. invoice' = [invoice EXCEPT ![t].status = "returned", ![rt] = now] BY <1>3, <2>1
  <2>5. /\ invoice'[t] = [invoice[t] EXCEPT !.status = "returned"] /\ invoice'[rt] = now
        /\ \A u \in Tickets \ {t, rt} : invoice'[u] = invoice[u]
        /\ invoice' = [u \in Tickets |-> invoice'[u]]
    BY <2>3, <2>4 DEF RowsShaped
  <2>6. IsRow(invoice'[t]) /\ invoice'[t].status = "returned"
    BY <2>5 DEF RowsShaped, IsRow, Fields
  <2>7. RowsShaped' BY <1>1, <2>2, <2>5, <2>6 DEF RowsShaped
  <2>. QED BY <1>1, <1>3, <2>2, <2>3, <2>5, <2>7 DEF Undone
<1>. QED BY <1>2, <1>3 DEF Flip

----------------------------------------------------------------------------
(* What a step does to its request *)

OwnRequest(w) ==
  \A v \in Workers \ {w} :
    pc'[v] = pc[v] /\ req'[v] = req[v] /\ answer'[v] = answer[v]

\* A request knows its replay, and the rows it found.
Knows(w) ==
  LET t == req[w].ticket
      r == req[w].replay
  IN  /\ pc[w] # "idle" => r \in Replays
      /\ pc[w] \in {"create", "publish"} => r.of = None
      /\ pc[w] \in {"update", "publish"} => t \in Named(r.uuid)
      /\ pc[w] = "publish" => req[w].seen \in {"created", "updated"}
      /\ pc[w] \in {"verify", "parent", "source", "reverse", "flip"} => r.of # None
      /\ pc[w] \in {"source", "reverse", "flip"} => t \in Named(r.of)
      /\ pc[w] = "flip" => t \in reversed

\* A row keeps its ids, and never becomes a draft again.
Persists ==
  /\ \A t \in Live : /\ t \in Live' /\ SameIds(t)
                     /\ invoice[t].status # "draft" => invoice'[t].status # "draft"
  /\ reversed \subseteq reversed'

LEMMA MovesPersist ==
  ASSUME RowsShaped, Moves
  PROVE  Persists
<1>1. CASE Untouched BY <1>1 DEF Untouched, Persists, Live, SameIds
<1>2. CASE \E t \in Tickets, r \in Replays : r.of = None /\ Inserted(t, r.uuid)
  BY <1>2 DEF Inserted, Others, Fresh, Persists, Live, SameIds
<1>3. CASE \E t \in Tickets : Altered(t)
  <2>1. PICK t \in Tickets : Altered(t) BY <1>3
  <2>. QED BY <2>1 DEF Altered, Others, Persists, Live, SameIds
<1>4. CASE \E t, rt \in Tickets : Undone(t, rt)
  <2>1. PICK t \in Tickets, rt \in Tickets : Undone(t, rt) BY <1>4
  <2>2. SameIds(t) /\ invoice'[t].status = "returned"
    BY <2>1 DEF Undone, RowsShaped, IsRow, Fields, SameIds
  <2>3. \A u \in Live : u # rt /\ (u = t \/ invoice'[u] = invoice[u])
    BY <2>1 DEF Undone, Fresh, Live
  <2>4. reversed' = reversed BY <2>1 DEF Undone
  <2>. QED BY <2>2, <2>3, <2>4 DEF Persists, Live, SameIds
<1>. QED BY <1>1, <1>2, <1>3, <1>4 DEF Moves

LEMMA NamedStays ==
  ASSUME Persists, NEW uuid, NEW t, t \in Named(uuid)
  PROVE  t \in Named(uuid)'
BY DEF Persists, Named, Live, SameIds

\* Another request knows what it knew.
LEMMA OthersKnow ==
  ASSUME Persists, NEW v \in Workers, Knows(v),
         pc'[v] = pc[v], req'[v] = req[v]
  PROVE  Knows(v)'
<1>. DEFINE t == req[v].ticket
            r == req[v].replay
<1>1. t \in Named(r.uuid) => t \in Named(r.uuid)'
  BY DEF Persists, Named, Live, SameIds
<1>2. t \in Named(r.of) => t \in Named(r.of)'
  BY DEF Persists, Named, Live, SameIds
<1>. QED BY <1>1, <1>2 DEF Knows, Persists, Named, Live

LEMMA Finishes ==
  ASSUME RequestsShaped, NEW w \in Workers, NEW action, NEW t, Finish(w, action, t)
  PROVE  /\ RequestsShaped' /\ OwnRequest(w) /\ Knows(w)'
         /\ answer'[w] = [action |-> action, ticket |-> t, replay |-> req[w].replay]
<1>1. "idle" \in PC /\ IsReq(NoReq) BY DEF PC, NoReq, IsReq
<1>2. RequestsShaped' /\ OwnRequest(w) BY <1>1 DEF Finish, RequestsShaped, OwnRequest
<1>3. pc'[w] = "idle" BY DEF Finish, RequestsShaped
<1>. QED BY <1>2, <1>3 DEF Finish, RequestsShaped, Knows

\* A request that goes on.
LEMMA GoesOn ==
  ASSUME RequestsShaped, NEW w \in Workers, NEW to \in PC, NEW q, IsReq(q), NEW a,
         pc' = [pc EXCEPT ![w] = to], req' = [req EXCEPT ![w] = q],
         answer' = [answer EXCEPT ![w] = a]
  PROVE  /\ RequestsShaped' /\ OwnRequest(w)
         /\ pc'[w] = to /\ req'[w] = q /\ answer'[w] = a
BY DEF RequestsShaped, OwnRequest

LEMMA GoesOnWith ==
  ASSUME RequestsShaped, NEW w \in Workers, NEW to \in PC, NEW q, IsReq(q),
         pc' = [pc EXCEPT ![w] = to], req' = [req EXCEPT ![w] = q], UNCHANGED answer
  PROVE  /\ RequestsShaped' /\ OwnRequest(w)
         /\ pc'[w] = to /\ req'[w] = q /\ answer'[w] = answer[w]
BY DEF RequestsShaped, OwnRequest

LEMMA StaysOn ==
  ASSUME RequestsShaped, NEW w \in Workers, NEW to \in PC, NEW from, Goto(w, from, to),
         UNCHANGED <<req, answer>>
  PROVE  /\ RequestsShaped' /\ OwnRequest(w)
         /\ pc[w] = from /\ pc'[w] = to /\ req'[w] = req[w] /\ answer'[w] = answer[w]
BY DEF Goto, RequestsShaped, OwnRequest

----------------------------------------------------------------------------
(* What an answer tells *)

Answered == {"created", "updated", "finalized"}

\* An answer names the ticket of its uuid, or the return of the sale it undid.
Tells(a) ==
  a.action \in Answered =>
    /\ a.replay \in Replays
    /\ \/ /\ a.ticket \in Named(a.replay.uuid)
          /\ a.action = "finalized" => invoice[a.ticket].status # "draft"
       \/ /\ a.ticket \in Live /\ a.replay.of # None
          /\ invoice[a.ticket].against \in Named(a.replay.of)

LEMMA TellsStays ==
  ASSUME Persists, NEW a, Tells(a)
  PROVE  Tells(a)'
<1>1. a.ticket \in Named(a.replay.uuid) => a.ticket \in Named(a.replay.uuid)'
  BY DEF Persists, Named, Live, SameIds
<1>2. \A t : t \in Named(a.replay.of) => t \in Named(a.replay.of)'
  BY DEF Persists, Named, Live, SameIds
<1>3. a.ticket \in Live =>
        /\ a.ticket \in Live' /\ invoice'[a.ticket].against = invoice[a.ticket].against
        /\ invoice[a.ticket].status # "draft" => invoice'[a.ticket].status # "draft"
  BY DEF Persists, SameIds
<1>4. a.ticket \in Named(a.replay.uuid) => a.ticket \in Live BY DEF Named
<1>. QED BY <1>1, <1>2, <1>3, <1>4 DEF Tells

\* What a step of its own leaves a request with.
Kept(w) ==
  RowsShaped' /\ Moves /\ RequestsShaped' /\ OwnRequest(w) /\ Knows(w)' /\ Tells(answer[w])'

SyncShaped == RowsShaped /\ RequestsShaped

LEMMA UntouchedKeeps ==
  ASSUME RowsShaped, Untouched
  PROVE  RowsShaped' /\ Moves /\ Persists
BY MovesPersist DEF Untouched, RowsShaped, Moves

\* An answer given without a move of the rows.
LEMMA AnswersAtOnce ==
  ASSUME SyncShaped, NEW w \in Workers, NEW action, NEW t, Finish(w, action, t), Untouched,
         Tells([action |-> action, ticket |-> t, replay |-> req[w].replay])
  PROVE  Kept(w)
<1>1. PICK a : a = [action |-> action, ticket |-> t, replay |-> req[w].replay] OBVIOUS
<1>2. Tells(a)' BY <1>1, UntouchedKeeps, TellsStays DEF SyncShaped
<1>3. answer'[w] = a BY <1>1, Finishes DEF SyncShaped
<1>. QED BY <1>2, <1>3, Finishes, UntouchedKeeps DEF SyncShaped, Kept, Tells

LEMMA LookupKeeps ==
  ASSUME SyncShaped, NEW w \in Workers, NEW r \in Replays, Lookup(w, r)
  PROVE  Kept(w)
<1>0. Untouched BY DEF Lookup, rows, Untouched
<1>1. RowsShaped' /\ Moves /\ Persists BY <1>0, UntouchedKeeps DEF SyncShaped
<1>2. ASSUME NEW t \in Named(r.uuid), invoice[t].status # "draft",
             answer' = [answer EXCEPT ![w] =
                          [action |-> "finalized", ticket |-> t, replay |-> r]],
             UNCHANGED <<pc, req>>
      PROVE  Kept(w)
  <2>1. PICK a : a = [action |-> "finalized", ticket |-> t, replay |-> r] OBVIOUS
  <2>2. Tells(a) BY <1>2, <2>1 DEF Tells
  <2>3. Tells(a)' BY <1>1, <2>2, TellsStays
  <2>4. answer'[w] = a /\ RequestsShaped' /\ OwnRequest(w)
    BY <1>2, <2>1 DEF SyncShaped, RequestsShaped, OwnRequest
  <2>5. pc'[w] = "idle" BY <1>2 DEF Lookup
  <2>6. Knows(w)' BY <2>5 DEF Knows
  <2>. QED BY <1>1, <2>3, <2>4, <2>6 DEF Kept, Tells
<1>3. ASSUME NEW t \in Named(r.uuid), pc' = [pc EXCEPT ![w] = "update"],
             req' = [req EXCEPT ![w] = [replay |-> r, ticket |-> t, seen |-> "draft",
                                        customer |-> invoice[t].customer]],
             answer' = [answer EXCEPT ![w] = NoAnswer]
      PROVE  Kept(w)
  <2>1. PICK q : q = [replay |-> r, ticket |-> t, seen |-> "draft",
                      customer |-> invoice[t].customer]
    OBVIOUS
  <2>2. IsReq(q) /\ q.replay = r /\ q.ticket = t /\ "update" \in PC BY <2>1 DEF IsReq, PC
  <2>3. /\ RequestsShaped' /\ OwnRequest(w)
        /\ pc'[w] = "update" /\ req'[w] = q /\ answer'[w] = NoAnswer
    <3>1. req' = [req EXCEPT ![w] = q] BY <1>3, <2>1
    <3>2. pc' = [pc EXCEPT ![w] = "update"] /\ answer' = [answer EXCEPT ![w] = NoAnswer]
      BY <1>3
    <3>. QED BY <2>2, <3>1, <3>2, GoesOn DEF SyncShaped
  <2>4. t \in Named(r.uuid)' BY <1>1, NamedStays
  <2>6. Knows(w)' BY <2>2, <2>3, <2>4 DEF Knows, Named
  <2>5. Tells(answer[w])' BY <2>3 DEF Tells, NoAnswer, Answered
  <2>. QED BY <1>1, <2>3, <2>6, <2>5 DEF Kept
<1>4. ASSUME pc' = [pc EXCEPT ![w] = IF r.of = None THEN "create" ELSE "verify"],
             req' = [req EXCEPT ![w] = [NoReq EXCEPT !.replay = r]],
             answer' = [answer EXCEPT ![w] = NoAnswer]
      PROVE  Kept(w)
  <2>1. PICK q : q = [NoReq EXCEPT !.replay = r] OBVIOUS
  <2>2. PICK to : to = IF r.of = None THEN "create" ELSE "verify" OBVIOUS
  <2>3. IsReq(q) /\ q.replay = r /\ to \in PC BY <2>1, <2>2 DEF IsReq, NoReq, PC
  <2>4. /\ RequestsShaped' /\ OwnRequest(w)
        /\ pc'[w] = to /\ req'[w] = q /\ answer'[w] = NoAnswer
    BY <1>4, <2>1, <2>2, <2>3, GoesOn DEF SyncShaped
  <2>5. Knows(w)'
    <3>1. to \in {"create", "verify"} /\ (to = "create" <=> r.of = None) BY <2>2
    <3>. QED BY <2>3, <2>4, <3>1 DEF Knows
  <2>6. Tells(answer[w])' BY <2>4 DEF Tells, NoAnswer, Answered
  <2>. QED BY <1>1, <2>4, <2>5, <2>6 DEF Kept
<1>. QED BY <1>2, <1>3, <1>4 DEF Lookup

LEMMA StepsKeep ==
  ASSUME SyncShaped, NEW w \in Workers, Knows(w), Tells(answer[w]),
         Verify(w) \/ FindParent(w) \/ ReturnSource(w) \/ Reverse(w) \/ Refuse(w) \/ Publish(w)
  PROVE  Kept(w)
<1>. Untouched
  BY DEF Verify, FindParent, ReturnSource, Reverse, Refuse, Publish, rows, Untouched
<1>0. RowsShaped' /\ Moves /\ Persists BY UntouchedKeeps DEF SyncShaped
<1>1. PICK a : a = answer[w] OBVIOUS
<1>2. Tells(a)' BY <1>0, <1>1, TellsStays
<1>3. PICK q : q = req[w] OBVIOUS
<1>4. IsReq(q) /\ (q.replay \in Replays \/ pc[w] = "idle")
  BY <1>3 DEF Knows, SyncShaped, RequestsShaped
<1>5. \A t : t \in Named(q.replay.of) => t \in Named(q.replay.of)'
  BY <1>0 DEF Persists, Named, Live, SameIds
<1>6. {"parent", "source", "reverse", "flip"} \subseteq PC BY DEF PC
<1>7. CASE Verify(w)
  <2>1. /\ RequestsShaped' /\ OwnRequest(w) /\ pc[w] = "verify" /\ pc'[w] = "parent"
        /\ req'[w] = q /\ answer'[w] = a
    BY <1>1, <1>3, <1>6, <1>7, StaysOn DEF Verify, SyncShaped
  <2>2. Knows(w)' BY <1>3, <2>1 DEF Knows
  <2>. QED BY <1>0, <1>2, <2>1, <2>2 DEF Kept, Tells
<1>8. CASE ReturnSource(w)
  <2>1. /\ RequestsShaped' /\ OwnRequest(w) /\ pc[w] = "source" /\ pc'[w] = "reverse"
        /\ req'[w] = q /\ answer'[w] = a
    BY <1>1, <1>3, <1>6, <1>8, StaysOn DEF ReturnSource, SyncShaped
  <2>2. Knows(w)' BY <1>3, <1>5, <2>1 DEF Knows
  <2>. QED BY <1>0, <1>2, <2>1, <2>2 DEF Kept, Tells
<1>9. CASE Reverse(w)
  <2>1. /\ RequestsShaped' /\ OwnRequest(w) /\ pc[w] = "reverse" /\ pc'[w] = "flip"
        /\ req'[w] = q /\ answer'[w] = a
    BY <1>1, <1>3, <1>6, <1>9, StaysOn DEF Reverse, SyncShaped
  <2>2. q.ticket \in reversed' BY <1>3, <1>9 DEF Reverse
  <2>3. Knows(w)' BY <1>3, <1>5, <2>1, <2>2 DEF Knows
  <2>. QED BY <1>0, <1>2, <2>1, <2>3 DEF Kept, Tells
<1>10. CASE FindParent(w)
  <2>1. PICK t \in Named(q.replay.of) :
          req' = [req EXCEPT ![w] = [q EXCEPT !.ticket = t, !.seen = invoice[t].status]]
    BY <1>3, <1>10 DEF FindParent, Replaying
  <2>2. pc[w] = "parent" /\ pc' = [pc EXCEPT ![w] = "source"] /\ UNCHANGED answer
    BY <1>10 DEF FindParent, Goto
  <2>3. IsReq(q) /\ q.replay \in Replays /\ q.replay.of # None BY <1>3, <1>4, <2>2 DEF Knows
  <2>4. PICK found : found = [q EXCEPT !.ticket = t, !.seen = invoice[t].status] OBVIOUS
  <2>5. IsReq(found) /\ found.replay = q.replay /\ found.ticket = t
    BY <2>3, <2>4 DEF IsReq
  <2>6. /\ RequestsShaped' /\ OwnRequest(w) /\ pc'[w] = "source"
        /\ req'[w] = found /\ answer'[w] = a
    <3>1. req' = [req EXCEPT ![w] = found] /\ "source" \in PC BY <1>6, <2>1, <2>4
    <3>. QED BY <1>1, <2>2, <2>5, <3>1, GoesOnWith DEF SyncShaped
  <2>7. Knows(w)' BY <1>5, <2>3, <2>5, <2>6 DEF Knows
  <2>. QED BY <1>0, <1>2, <2>6, <2>7 DEF Kept, Tells
<1>11. CASE Refuse(w)
  <2>1. Finish(w, "refused", None) BY <1>11 DEF Refuse
  <2>2. Tells([action |-> "refused", ticket |-> None, replay |-> req[w].replay])
    BY DEF Tells, Answered
  <2>. QED BY <2>1, <2>2, AnswersAtOnce
<1>12. CASE Publish(w)
  <2>1. pc[w] = "publish" /\ Finish(w, q.seen, q.ticket) BY <1>3, <1>12 DEF Publish
  <2>2. /\ q.replay \in Replays /\ q.ticket \in Named(q.replay.uuid)
        /\ q.seen \in {"created", "updated"}
    BY <1>3, <2>1 DEF Knows
  <2>3. Tells([action |-> q.seen, ticket |-> q.ticket, replay |-> req[w].replay])
    BY <1>3, <2>2 DEF Tells, Answered
  <2>. QED BY <2>1, <2>3, AnswersAtOnce
<1>. QED BY <1>7, <1>8, <1>9, <1>10, <1>11, <1>12

\* A write that is committed answers, or goes on to publish.
LEMMA CommittedKeeps ==
  ASSUME SyncShaped, RowsShaped', Moves, NEW w \in Workers, NEW t \in Tickets,
         NEW action \in {"created", "updated"}, NEW crossed, Committed(w, t, action, crossed),
         NEW r \in Replays, r = req[w].replay, r.of = None, Tells(answer[w]),
         invoice'[t].status # "none", invoice'[t].uuid = r.uuid
  PROVE  Kept(w)
<1>. Persists BY MovesPersist DEF SyncShaped
<1>1. t \in Named(r.uuid)' BY DEF Named, Live
<1>2. CASE Finish(w, action, t)
  <2>1. PICK a : a = [action |-> action, ticket |-> t, replay |-> r] OBVIOUS
  <2>2. Tells(a)' BY <1>1, <2>1 DEF Tells
  <2>3. answer'[w] = a BY <1>2, <2>1, Finishes DEF SyncShaped
  <2>. QED BY <1>2, <2>2, <2>3, Finishes DEF SyncShaped, Kept, Tells
<1>3. CASE /\ pc' = [pc EXCEPT ![w] = "publish"] /\ UNCHANGED answer
           /\ req' = [req EXCEPT ![w] = [req[w] EXCEPT !.ticket = t, !.seen = action]]
  <2>1. PICK q : q = [req[w] EXCEPT !.ticket = t, !.seen = action] OBVIOUS
  <2>2. IsReq(req[w]) BY DEF SyncShaped, RequestsShaped
  <2>3. IsReq(q) /\ q.replay = r /\ q.ticket = t /\ q.seen = action /\ "publish" \in PC
    BY <2>1, <2>2 DEF IsReq, PC
  <2>4. req' = [req EXCEPT ![w] = q] BY <1>3, <2>1
  <2>5. /\ RequestsShaped' /\ OwnRequest(w)
        /\ pc'[w] = "publish" /\ req'[w] = q /\ answer'[w] = answer[w]
    BY <1>3, <2>3, <2>4, GoesOnWith DEF SyncShaped
  <2>6. Knows(w)' BY <1>1, <2>3, <2>5 DEF Knows, Named
  <2>7. PICK a : a = answer[w] OBVIOUS
  <2>8. Tells(a)' BY <2>7, TellsStays
  <2>. QED BY <2>5, <2>6, <2>7, <2>8 DEF Kept, Tells
<1>. QED BY <1>2, <1>3 DEF Committed

LEMMA CreateKeeps ==
  ASSUME SyncShaped, NEW w \in Workers, NEW t \in Tickets, Create(w, t), Knows(w),
         Tells(answer[w])
  PROVE  Kept(w)
<1>1. PICK r \in Replays : r = req[w].replay /\ r.of = None
  BY DEF Create, Knows
<1>2. RowsShaped' /\ Inserted(t, r.uuid) BY <1>1, CreateInserts DEF SyncShaped
<1>3. Moves BY <1>1, <1>2 DEF Moves
<1>4. PICK crossed : Committed(w, t, "created", crossed)
  BY DEF Create
<1>. QED BY <1>1, <1>2, <1>3, <1>4, CommittedKeeps DEF Inserted

LEMMA UpdateKeeps ==
  ASSUME SyncShaped, NEW w \in Workers, Update(w), Knows(w), Tells(answer[w])
  PROVE  Kept(w)
<1>1. PICK r \in Replays, t \in Tickets : r = req[w].replay /\ t = req[w].ticket
                                            /\ t \in Named(r.uuid)
  BY DEF Update, Knows, Named, Live
<1>2. CASE invoice[t].status = "draft"
  <2>1. r.of = None /\ Rewrite(w, t, r) /\ UNCHANGED reversed
    BY <1>1, <1>2 DEF Update, MayRewrite, Replaying, Finish
  <2>2. RowsShaped' /\ Altered(t) BY <1>2, <2>1, RewriteAlters DEF SyncShaped
  <2>3. Moves BY <2>2 DEF Moves
  <2>4. invoice'[t].status # "none" /\ invoice'[t].uuid = r.uuid
    BY <1>1, <2>2 DEF Altered, SameIds, Named
  <2>5. PICK crossed : Committed(w, t, "updated", crossed) BY <2>1 DEF Rewrite
  <2>. QED BY <1>1, <2>1, <2>2, <2>3, <2>4, <2>5, CommittedKeeps
<1>3. CASE invoice[t].status # "draft"
  <2>1. Finish(w, "finalized", t) /\ Untouched
    BY <1>1, <1>3 DEF Update, rows, Untouched
  <2>2. Tells([action |-> "finalized", ticket |-> t, replay |-> req[w].replay])
    BY <1>1, <1>3 DEF Tells
  <2>. QED BY <2>1, <2>2, AnswersAtOnce
<1>. QED BY <1>2, <1>3

LEMMA FlipKeeps ==
  ASSUME SyncShaped, NEW w \in Workers, NEW rt \in Tickets, Flip(w, rt), Knows(w)
  PROVE  Kept(w)
<1>1. PICK r \in Replays, t \in Tickets : /\ r = req[w].replay /\ t = req[w].ticket
                                          /\ t \in Named(r.of) /\ r.of # None
                                          /\ t \in reversed /\ invoice[t].uuid # None
  BY DEF Flip, Knows, Named, Live
<1>2. PICK action : action = RefundAction(w) OBVIOUS
<1>3. PICK a : a = [action |-> action, ticket |-> rt, replay |-> r] OBVIOUS
<1>4. RowsShaped' BY <1>1, FlipUndoes DEF SyncShaped
<1>5. CASE Undone(t, rt) /\ Finish(w, action, rt)
  <2>1. Moves BY <1>5 DEF Moves
  <2>2. Persists BY <2>1, MovesPersist DEF SyncShaped
  <2>3. t \in Named(r.of)' BY <1>1, <2>2, NamedStays
  <2>4. rt \in Live' /\ invoice'[rt].against = t BY <1>5 DEF Undone, Live
  <2>5. Tells(a)' BY <1>1, <1>3, <2>3, <2>4 DEF Tells
  <2>6. answer'[w] = a BY <1>1, <1>3, <1>5, Finishes DEF SyncShaped
  <2>. QED BY <1>4, <1>5, <2>1, <2>5, <2>6, Finishes DEF SyncShaped, Kept, Tells
<1>6. CASE Untouched /\ rt \in ReturnsOf(t) /\ Finish(w, action, rt)
  <2>1. Tells([action |-> action, ticket |-> rt, replay |-> req[w].replay])
    BY <1>1, <1>6 DEF Tells, ReturnsOf
  <2>. QED BY <1>6, <2>1, AnswersAtOnce
<1>. QED BY <1>1, <1>2, <1>5, <1>6, FlipUndoes DEF SyncShaped

----------------------------------------------------------------------------
(* The receipts tie the rows together *)

SalesAndReturns ==
  /\ \A t \in Sales :
       /\ invoice[t].receipt = ReceiptOf(invoice[t].uuid)
       /\ \E r \in Replays : r.uuid = invoice[t].uuid /\ r.of = None
       /\ invoice[t].status = "returned" => t \in reversed /\ ReturnsOf(t) # {}
  /\ \A r \in Live \ Sales :
       LET t == invoice[r].against IN
       /\ invoice[r].receipt = ReturnReceipt(t) /\ invoice[r].uuid = None
       /\ invoice[r].status = "returned"
       /\ t \in Sales /\ invoice[t].status = "returned"

ReceiptsUnique == \A t, u \in Live : invoice[t].receipt = invoice[u].receipt => t = u

Receipts == SalesAndReturns /\ ReceiptsUnique

LEMMA InsertedKeepsReceipts ==
  ASSUME RowsShaped, Receipts, NEW t \in Tickets, NEW r \in Replays, r.of = None,
         Inserted(t, r.uuid)
  PROVE  Receipts'
<1>1. Live' = Live \cup {t} /\ Sales' = Sales \cup {t} /\ t \notin Live
  BY DEF Inserted, Others, Fresh, Live, Sales
<1>2. \A u \in Live : invoice'[u] = invoice[u] /\ u # t
  BY <1>1 DEF Inserted, Others, Live
<1>3. ReceiptsUnique'
  BY <1>1, <1>2 DEF Inserted, ReceiptIsFree, Receipts, ReceiptsUnique
<1>4. \A u \in Live : ReturnsOf(u) \subseteq ReturnsOf(u)' BY <1>1, <1>2 DEF ReturnsOf
<1>5. Sales \subseteq Live BY DEF Sales
<1>6. SalesAndReturns'
  <2>1. ASSUME NEW u \in Sales'
        PROVE  /\ invoice'[u].receipt = ReceiptOf(invoice'[u].uuid)
               /\ \E s \in Replays : s.uuid = invoice'[u].uuid /\ s.of = None
               /\ invoice'[u].status = "returned" => u \in reversed' /\ ReturnsOf(u)' # {}
    <3>1. CASE u = t BY <3>1 DEF Inserted
    <3>2. CASE u \in Sales
      BY <1>2, <1>4, <1>5, <3>2 DEF Inserted, Receipts, SalesAndReturns
    <3>. QED BY <1>1, <3>1, <3>2
  <2>2. ASSUME NEW u \in Live' \ Sales', NEW v, v = invoice'[u].against
        PROVE  /\ invoice'[u].receipt = ReturnReceipt(v) /\ invoice'[u].uuid = None
               /\ invoice'[u].status = "returned"
               /\ v \in Sales' /\ invoice'[v].status = "returned"
    <3>1. u \in Live \ Sales /\ invoice'[u] = invoice[u] BY <1>1, <1>2
    <3>. QED BY <1>1, <1>2, <1>5, <2>2, <3>1 DEF Receipts, SalesAndReturns
  <2>. QED BY <2>1, <2>2 DEF SalesAndReturns
<1>. QED BY <1>3, <1>6 DEF Receipts

LEMMA AlteredKeepsReceipts ==
  ASSUME RowsShaped, Receipts, NEW t \in Tickets, Altered(t)
  PROVE  Receipts'
<1>1. /\ t \in Live /\ Live' = Live /\ Sales' = Sales /\ reversed' = reversed
      /\ \A u \in Tickets : SameIds(u)
      /\ \A u \in Tickets \ {t} : invoice'[u] = invoice[u]
  BY DEF Altered, Others, SameIds, Live, Sales
<1>2. Live \subseteq Tickets /\ Sales \subseteq Tickets BY DEF Live, Sales
<1>3. \A u \in Tickets : ReturnsOf(u)' = ReturnsOf(u) BY <1>1, <1>2 DEF ReturnsOf, SameIds
<1>4. ReceiptsUnique' BY <1>1, <1>2 DEF Receipts, ReceiptsUnique, SameIds
<1>5. invoice[t].status = "draft" /\ invoice'[t].status # "returned" BY DEF Altered
<1>6. SalesAndReturns'
  BY <1>1, <1>2, <1>3, <1>5 DEF Receipts, SalesAndReturns, SameIds
<1>. QED BY <1>4, <1>6 DEF Receipts

LEMMA UndoneKeepsReceipts ==
  ASSUME RowsShaped, Receipts, NEW t \in Tickets, NEW rt \in Tickets, Undone(t, rt)
  PROVE  Receipts'
<1>1. t \in Sales /\ t \in Live
  BY DEF Undone, Receipts, SalesAndReturns, Live
<1>2. /\ SameIds(t) /\ invoice'[t].status = "returned"
  BY DEF Undone, RowsShaped, IsRow, Fields, SameIds
<1>3. /\ Live' = Live \cup {rt} /\ Sales' = Sales /\ rt \notin Live /\ Sales \subseteq Live
      /\ Live \subseteq Tickets /\ reversed' = reversed
  <2>1. /\ \A u \in Tickets \ {t, rt} : invoice'[u] = invoice[u]
        /\ invoice'[rt].status = "returned" /\ invoice'[rt].against = t /\ t # None
        /\ rt # t /\ invoice[t].status # "none" /\ invoice[rt].status = "none"
        /\ reversed' = reversed
    BY SyncAssumption DEF Undone, Fresh, Live
  <2>2. Live' = Live \cup {rt} BY <1>2, <2>1 DEF Live
  <2>3. Sales' = Sales BY <1>2, <2>1, <2>2 DEF Live, Sales, SameIds
  <2>. QED BY <2>1, <2>2, <2>3 DEF Live, Sales
<1>4. \A u \in Live : /\ u # rt /\ SameIds(u) /\ (u = t \/ invoice'[u] = invoice[u])
  BY <1>2, <1>3 DEF Undone, SameIds
<1>5. ReceiptsUnique'
  BY <1>3, <1>4 DEF Undone, ReceiptIsFree, Receipts, ReceiptsUnique, SameIds
<1>6. /\ \A u \in Live : ReturnsOf(u) \subseteq ReturnsOf(u)'
      /\ rt \in ReturnsOf(t)'
  BY <1>3, <1>4 DEF Undone, ReturnsOf, SameIds
<1>7. SalesAndReturns'
  <2>1. ASSUME NEW u \in Sales'
        PROVE  /\ invoice'[u].receipt = ReceiptOf(invoice'[u].uuid)
               /\ \E s \in Replays : s.uuid = invoice'[u].uuid /\ s.of = None
               /\ invoice'[u].status = "returned" => u \in reversed' /\ ReturnsOf(u)' # {}
    <3>1. u \in Sales /\ u \in Live /\ SameIds(u) BY <1>3, <1>4
    <3>2. CASE u = t BY <1>3, <1>6, <3>1, <3>2 DEF Undone, Receipts, SalesAndReturns, SameIds
    <3>3. CASE u # t BY <1>3, <1>4, <1>6, <3>1, <3>3 DEF Receipts, SalesAndReturns
    <3>. QED BY <3>2, <3>3
  <2>2. ASSUME NEW u \in Live' \ Sales', NEW v, v = invoice'[u].against
        PROVE  /\ invoice'[u].receipt = ReturnReceipt(v) /\ invoice'[u].uuid = None
               /\ invoice'[u].status = "returned"
               /\ v \in Sales' /\ invoice'[v].status = "returned"
    <3>1. CASE u = rt BY <1>1, <1>2, <1>3, <2>2, <3>1 DEF Undone
    <3>2. CASE u # rt
      <4>1. u \in Live \ Sales /\ u # t /\ invoice'[u] = invoice[u]
        BY <1>1, <1>3, <1>4, <3>2
      <4>2. v \in Sales /\ invoice[v].status = "returned"
        BY <2>2, <4>1 DEF Receipts, SalesAndReturns
      <4>3. invoice'[v].status = "returned" BY <1>2, <1>3, <1>4, <4>2
      <4>. QED BY <1>3, <2>2, <4>1, <4>2, <4>3 DEF Receipts, SalesAndReturns
    <3>. QED BY <3>1, <3>2
  <2>. QED BY <2>1, <2>2 DEF SalesAndReturns
<1>. QED BY <1>5, <1>7 DEF Receipts

LEMMA MovesKeepReceipts ==
  ASSUME RowsShaped, Receipts, Moves
  PROVE  Receipts'
<1>1. CASE Untouched
  BY <1>1 DEF Untouched, Receipts, SalesAndReturns, ReceiptsUnique, Live, Sales, ReturnsOf
<1>. QED BY <1>1, InsertedKeepsReceipts, AlteredKeepsReceipts, UndoneKeepsReceipts DEF Moves

----------------------------------------------------------------------------
(* What holds in every behaviour *)

SyncInv ==
  /\ SyncShaped /\ Receipts
  /\ \A w \in Workers : Knows(w) /\ Tells(answer[w])

LEMMA InitIsSync == Init => SyncInv
<1>. SUFFICES ASSUME Init PROVE SyncInv OBVIOUS
<1>1. /\ \A t \in Tickets : invoice[t] = NoInvoice
      /\ \A w \in Workers : pc[w] = "idle" /\ req[w] = NoReq /\ answer[w] = NoAnswer
  BY DEF Init
<1>2. IsRow(NoInvoice) /\ NoInvoice.status = "none" /\ IsReq(NoReq) /\ "idle" \in PC
        /\ NoAnswer.action = "none"
  BY DEF NoInvoice, IsRow, Fields, NoReq, IsReq, NoAnswer, PC
<1>3. RowsShaped BY <1>1, <1>2 DEF Init, RowsShaped
<1>4. RequestsShaped BY <1>1, <1>2 DEF Init, RequestsShaped
<1>5. Live = {} BY <1>1, <1>2 DEF Live
<1>6. Receipts BY <1>5 DEF Receipts, SalesAndReturns, ReceiptsUnique, Sales
<1>7. \A w \in Workers : Knows(w) /\ Tells(answer[w])
  BY <1>1, <1>2 DEF Knows, Tells, Answered
<1>. QED BY <1>3, <1>4, <1>6, <1>7 DEF SyncInv, SyncShaped

LEMMA ServeKeeps ==
  ASSUME SyncInv, NEW w \in Workers, Serve(w)
  PROVE  Kept(w)
<1>. SyncShaped /\ Knows(w) /\ Tells(answer[w]) BY DEF SyncInv
<1>. QED BY LookupKeeps, CreateKeeps, UpdateKeeps, FlipKeeps, StepsKeep DEF Serve

\* The till, the relay and the consumer move a row under no request.
LEMMA TicketMoves ==
  ASSUME SyncInv, NEW t \in Tickets,
         Relay(t) \/ Consume(t) \/ \E x \in Tenders : AddTender(t, x)
  PROVE  RowsShaped' /\ Moves /\ UNCHANGED <<pc, req, answer>>
<1>. RowsShaped BY DEF SyncInv, SyncShaped
<1>1. CASE Relay(t) BY <1>1, RecogniseAlters DEF Relay, Moves
<1>2. CASE Consume(t) BY <1>2, RecogniseAlters DEF Consume, Moves
<1>3. CASE \E x \in Tenders : AddTender(t, x)
  <2>1. PICK x \in Tenders : AddTender(t, x) BY <1>3
  <2>. QED BY <2>1, TenderAlters DEF AddTender, Moves
<1>. QED BY <1>1, <1>2, <1>3

LEMMA StillMoves ==
  ASSUME SyncInv, Crash \/ UNCHANGED vars
  PROVE  Untouched
BY DEF Crash, vars, rows, Untouched

LEMMA NextMoves ==
  ASSUME SyncInv, [Next]_vars
  PROVE  Moves
<1>1. ASSUME NEW w \in Workers, Serve(w) PROVE Moves BY <1>1, ServeKeeps DEF Kept
<1>2. Crash \/ UNCHANGED vars => Moves BY StillMoves DEF Moves
<1>. QED BY <1>1, <1>2, TicketMoves DEF Next

LEMMA SyncStep == SyncInv /\ [Next]_vars => SyncInv'
<1>. SUFFICES ASSUME SyncInv, [Next]_vars PROVE SyncInv' OBVIOUS
<1>. SyncShaped /\ RowsShaped /\ RequestsShaped /\ Receipts BY DEF SyncInv, SyncShaped
<1>0. Moves /\ Persists BY NextMoves, MovesPersist
<1>1. Receipts' BY <1>0, MovesKeepReceipts
<1>2. ASSUME NEW v \in Workers, pc'[v] = pc[v], req'[v] = req[v], answer'[v] = answer[v]
      PROVE  Knows(v)' /\ Tells(answer[v])'
  <2>1. Knows(v)' BY <1>0, <1>2, OthersKnow DEF SyncInv
  <2>2. PICK a : a = answer[v] OBVIOUS
  <2>3. Tells(a)' BY <1>0, <2>2, TellsStays DEF SyncInv
  <2>. QED BY <1>2, <2>1, <2>2, <2>3 DEF Tells
<1>3. ASSUME NEW w \in Workers, Serve(w) PROVE SyncInv'
  <2>1. Kept(w) BY <1>3, ServeKeeps
  <2>2. ASSUME NEW v \in Workers PROVE Knows(v)' /\ Tells(answer[v])'
    <3>1. CASE v = w BY <2>1, <3>1 DEF Kept
    <3>2. CASE v # w BY <1>2, <2>1, <3>2 DEF Kept, OwnRequest
    <3>. QED BY <3>1, <3>2
  <2>. QED BY <1>1, <2>1, <2>2 DEF Kept, SyncInv, SyncShaped
<1>4. ASSUME RowsShaped', UNCHANGED <<pc, req, answer>> PROVE SyncInv'
  <2>1. RequestsShaped' BY <1>4 DEF RequestsShaped
  <2>2. \A v \in Workers : Knows(v)' /\ Tells(answer[v])' BY <1>2, <1>4
  <2>. QED BY <1>1, <1>4, <2>1, <2>2 DEF SyncInv, SyncShaped
<1>5. CASE UNCHANGED vars
  <2>1. RowsShaped' /\ UNCHANGED <<pc, req, answer>> BY <1>5 DEF vars, rows, RowsShaped
  <2>. QED BY <1>4, <2>1
<1>6. CASE Crash
  <2>1. RowsShaped' BY <1>6 DEF Crash, rows, RowsShaped
  <2>2. RequestsShaped' /\ \A w \in Workers : pc'[w] = "idle" /\ answer'[w] = answer[w]
    BY <1>6 DEF Crash, RequestsShaped, PC, IsReq, NoReq
  <2>3. ASSUME NEW v \in Workers PROVE Knows(v)' /\ Tells(answer[v])'
    <3>1. Knows(v)' BY <2>2 DEF Knows
    <3>2. PICK a : a = answer[v] OBVIOUS
    <3>3. Tells(a)' BY <1>0, <3>2, TellsStays DEF SyncInv
    <3>. QED BY <2>2, <3>1, <3>2, <3>3 DEF Tells
  <2>. QED BY <1>1, <2>1, <2>2, <2>3 DEF SyncInv, SyncShaped
<1>. QED BY <1>3, <1>4, <1>5, <1>6, TicketMoves DEF Next

LEMMA SyncInvariant == Spec => []SyncInv
BY InitIsSync, SyncStep, PTL DEF Spec

\* However its replays overlap, die and arrive, an offline ticket is rung once.
THEOREM RungOnce == Spec => []OneTicketPerUuid
<1>1. SyncInv => OneTicketPerUuid
  BY DEF SyncInv, Receipts, SalesAndReturns, ReceiptsUnique, Sales, OneTicketPerUuid
<1>. QED BY <1>1, SyncInvariant, PTL

\* A sale is returned exactly when one return ticket says so, and never before the owners
\* of the books have reversed it.
THEOREM UndoneOnce == Spec => []ReturnedOnce
<1>1. SyncInv => ReturnedOnce
  <2>. SUFFICES ASSUME SyncInv, NEW t \in Sales
       PROVE  /\ \A r, s \in ReturnsOf(t) : r = s
              /\ invoice[t].status = "returned" <=> ReturnsOf(t) # {}
              /\ invoice[t].status = "returned" => t \in reversed
    BY DEF ReturnedOnce
  <2>1. t \in Tickets /\ t # None BY SyncAssumption DEF Sales, Live
  <2>2. \A r \in ReturnsOf(t) : r \in Live \ Sales /\ invoice[r].against = t
    BY <2>1 DEF ReturnsOf, Sales
  <2>3. \A r \in ReturnsOf(t) : invoice[r].receipt = ReturnReceipt(t)
                                 /\ invoice[t].status = "returned"
    BY <2>2 DEF SyncInv, Receipts, SalesAndReturns
  <2>4. \A r, s \in ReturnsOf(t) : r = s
    BY <2>2, <2>3 DEF SyncInv, Receipts, ReceiptsUnique
  <2>5. invoice[t].status = "returned" => t \in reversed /\ ReturnsOf(t) # {}
    BY DEF SyncInv, Receipts, SalesAndReturns
  <2>. QED BY <2>3, <2>4, <2>5
<1>. QED BY <1>1, SyncInvariant, PTL

\* A uuid names one ticket of the client: no sale and refund share one.
UuidsNameTickets ==
  /\ \A r \in Replays : r.uuid # None
  /\ \A r, s \in Replays : r.uuid = s.uuid /\ r.of = None => s.of = None

\* What a replay was answered stays true, for a client that gives each ticket a uuid of
\* its own.
THEOREM AnswersStayTrue == ASSUME UuidsNameTickets PROVE Spec => []AnswersHold
<1>1. SyncInv => AnswersHold
  <2>. SUFFICES ASSUME SyncInv, NEW w \in Workers, answer[w].action \in Answered
       PROVE  IF answer[w].replay.of = None
              THEN /\ invoice[answer[w].ticket].uuid = answer[w].replay.uuid
                   /\ answer[w].action = "finalized" => invoice[answer[w].ticket].status # "draft"
              ELSE invoice[answer[w].ticket].against \in Named(answer[w].replay.of)
    BY DEF AnswersHold, Answered
  <2>1. PICK a : a = answer[w] OBVIOUS
  <2>2. Tells(a) /\ a.action \in Answered /\ a.replay \in Replays
    BY <2>1 DEF SyncInv, Tells
  <2>3. CASE a.ticket \in Named(a.replay.uuid)
               /\ (a.action = "finalized" => invoice[a.ticket].status # "draft")
    <3>1. a.ticket \in Sales
      BY <2>2, <2>3 DEF UuidsNameTickets, Named, SyncInv, Receipts, SalesAndReturns
    <3>2. a.replay.of = None
      BY <2>2, <2>3, <3>1 DEF UuidsNameTickets, Named, SyncInv, Receipts, SalesAndReturns
    <3>. QED BY <2>1, <2>3, <3>2 DEF Named
  <2>4. CASE a.replay.of # None /\ invoice[a.ticket].against \in Named(a.replay.of)
    BY <2>1, <2>4
  <2>. QED BY <2>2, <2>3, <2>4 DEF Tells
<1>. QED BY <1>1, SyncInvariant, PTL

\* A ticket that left draft keeps its money, whatever is replayed after.
THEOREM FinalizedStays == Spec => FinalizedIsFrozen
<1>1. SyncInv /\ [Next]_vars =>
        \A t \in Live : invoice[t].status # "draft" =>
          /\ [invoice'[t] EXCEPT !.status = "paid"] = [invoice[t] EXCEPT !.status = "paid"]
          /\ nets'[t] = nets[t] /\ tenders'[t] = tenders[t]
  <2>. SUFFICES ASSUME SyncInv, Moves, NEW t \in Live, invoice[t].status # "draft"
       PROVE  /\ [invoice'[t] EXCEPT !.status = "paid"] = [invoice[t] EXCEPT !.status = "paid"]
              /\ nets'[t] = nets[t] /\ tenders'[t] = tenders[t]
    BY NextMoves
  <2>. t \in Tickets /\ IsRow(invoice[t])
    BY DEF Live, SyncInv, SyncShaped, RowsShaped
  <2>1. CASE Untouched BY <2>1 DEF Untouched
  <2>2. ASSUME NEW u \in Tickets, Others(u), u # t
        PROVE  invoice'[t] = invoice[t] /\ nets'[t] = nets[t] /\ tenders'[t] = tenders[t]
    BY <2>2 DEF Others
  <2>3. \A u \in Tickets, r \in Replays : Inserted(u, r.uuid) => Others(u) /\ u # t
    BY DEF Inserted, Fresh
  <2>4. \A u \in Tickets : Altered(u) => Others(u) /\ u # t BY DEF Altered
  <2>5. ASSUME NEW u \in Tickets, NEW ru \in Tickets, Undone(u, ru)
        PROVE  /\ [invoice'[t] EXCEPT !.status = "paid"] = [invoice[t] EXCEPT !.status = "paid"]
               /\ nets'[t] = nets[t] /\ tenders'[t] = tenders[t]
    <3>1. t # ru /\ UNCHANGED <<nets, tenders>> BY <2>5 DEF Undone, Fresh
    <3>2. CASE t = u
      <4>1. invoice'[t] = [invoice[t] EXCEPT !.status = "returned"] BY <2>5, <3>2 DEF Undone
      <4>. QED BY <3>1, <4>1 DEF IsRow, Fields
    <3>3. CASE t # u BY <2>5, <3>1, <3>3 DEF Undone
    <3>. QED BY <3>2, <3>3
  <2>. QED BY <2>1, <2>2, <2>3, <2>4, <2>5 DEF Moves
<1>. QED BY <1>1, SyncInvariant, PTL DEF Spec, FinalizedIsFrozen

----------------------------------------------------------------------------
(* What tenders add up to *)

Amounts(ts) == [i \in DOMAIN ts |-> ts[i].amount]

LEMMA AmountsAre ==
  ASSUME NEW ts \in Seq(TenderRows)
  PROVE  /\ Numbers(Amounts(ts), Len(ts)) /\ Raw(ts) = SumFunction(Amounts(ts))
         /\ Raw(ts) \in Int
<1>0. ASSUME NEW i \in 1..Len(ts) PROVE ts[i].amount \in Int
  <2>1. ts[i] \in TenderRows OBVIOUS
  <2>. QED BY <2>1 DEF TenderRows
<1>1. Numbers(Amounts(ts), Len(ts)) BY <1>0 DEF Numbers, Amounts
<1>2. Raw(ts) = SumFunction(Amounts(ts)) BY DEF Raw, Amounts
<1>. QED BY <1>1, <1>2, SumIs

LEMMA RawOfNone == Raw(<<>>) = 0
<1>1. <<>> \in Seq(TenderRows) /\ Len(<<>>) = 0 OBVIOUS
<1>2. Numbers(Amounts(<<>>), 0) /\ Raw(<<>>) = SumFunction(Amounts(<<>>))
  BY <1>1, AmountsAre
<1>. QED BY <1>2, SumOfNone

LEMMA RawOfMore ==
  ASSUME NEW ts \in Seq(TenderRows), NEW x \in TenderRows
  PROVE  Raw(Append(ts, x)) = Raw(ts) + x.amount
<1>1. PICK n \in Nat : n = Len(ts) OBVIOUS
<1>2. PICK more : more = Append(ts, x) OBVIOUS
<1>3. more \in Seq(TenderRows) /\ Len(more) = n + 1 BY <1>1, <1>2
<1>4. \A i \in 1..n : Amounts(more)[i] = Amounts(ts)[i] BY <1>1, <1>2, <1>3 DEF Amounts
<1>5. Amounts(more)[n + 1] = x.amount BY <1>1, <1>2, <1>3 DEF Amounts
<1>6. Numbers(Amounts(ts), n) /\ Numbers(Amounts(more), n + 1)
  BY <1>1, <1>3, AmountsAre
<1>7. SumFunction(Amounts(more)) = SumFunction(Amounts(ts)) + Amounts(more)[n + 1]
  BY <1>4, <1>6, SumOfMore
<1>8. Raw(ts) = SumFunction(Amounts(ts)) /\ Raw(more) = SumFunction(Amounts(more))
  BY <1>3, AmountsAre
<1>. QED BY <1>2, <1>5, <1>7, <1>8

LEMMA RowIs ==
  ASSUME NEW x \in TenderRows
  PROVE  /\ Row(x) \in TenderRows /\ Row(x).amount = Money(x.amount)
         /\ Money(x.amount) \in Int
<1>1. x.amount \in Int BY DEF TenderRows
<1>. QED BY <1>1, MoneyIs DEF Row, TenderRows

LEMMA RowsOfAre ==
  ASSUME NEW ts \in Seq(TenderRows)
  PROVE  /\ RowsOf(ts) \in Seq(TenderRows) /\ Len(RowsOf(ts)) = Len(ts)
         /\ \A i \in 1..Len(ts) : RowsOf(ts)[i].amount = Money(ts[i].amount)
<1>1. \A i \in 1..Len(ts) : ts[i] \in TenderRows OBVIOUS
<1>2. \A i \in 1..Len(ts) :
        Row(ts[i]) \in TenderRows /\ Row(ts[i]).amount = Money(ts[i].amount)
  BY <1>1, RowIs
<1>. QED BY <1>2 DEF RowsOf

\* Rounding the rows one by one loses at most half a cent to the row.
LEMMA RowsDrift ==
  ASSUME NEW ts \in Seq(TenderRows)
  PROVE  2 * Magnitude(Raw(ts) - Raw(RowsOf(ts))) <= Cent * Len(ts)
<1>1. PICK n \in Nat : n = Len(ts) OBVIOUS
<1>2. PICK rs \in Seq(TenderRows) : rs = RowsOf(ts) /\ Len(rs) = n BY <1>1, RowsOfAre
<1>3. /\ Numbers(Amounts(ts), n) /\ Raw(ts) = SumFunction(Amounts(ts))
      /\ Numbers(Amounts(rs), n) /\ Raw(rs) = SumFunction(Amounts(rs))
  BY <1>1, <1>2, AmountsAre
<1>4. ASSUME NEW i \in 1..n
      PROVE  2 * Magnitude(Amounts(ts)[i] - Amounts(rs)[i]) <= Cent
  <2>0. ts[i] \in TenderRows BY <1>1
  <2>1. PICK v \in Int : v = ts[i].amount BY <2>0 DEF TenderRows
  <2>2. Amounts(ts)[i] = v /\ Amounts(rs)[i] = Money(v)
    BY <1>1, <1>2, <2>1, RowsOfAre DEF Amounts
  <2>3. 2 * Magnitude(Money(v) - v) <= Cent /\ Money(v) \in Int BY MoneyIs
  <2>. QED BY <2>2, <2>3 DEF Magnitude
<1>5. 2 * Magnitude(SumFunction(Amounts(ts)) - SumFunction(Amounts(rs))) <= Cent * n
  BY <1>3, <1>4, SumsClose
<1>. QED BY <1>1, <1>2, <1>3, <1>5

----------------------------------------------------------------------------
(* What a row's money is *)

\* What the header of a sale says of its rows.
TellsItsRows(i, ns, ts) ==
  /\ HeaderFitsNets(i.header, ns, Unit)
  /\ 2 * Magnitude(i.paid - Raw(ts)) <= Cent * (Len(ts) + 1)

GoodRow(i, ns, ts) ==
  /\ i \in Invoices /\ ts \in Seq(TenderRows)
  /\ i.status # "none" /\ i.against = None => TellsItsRows(i, ns, ts)

RowsAreGood == \A t \in Tickets : GoodRow(invoice[t], nets[t], tenders[t])

LEMMA ClampIs == ASSUME NEW v \in Int PROVE AtLeastZero(v) \in Nat
BY DEF AtLeastZero

\* Money a write derives from tenders is within half a cent to the row and one more.
LEMMA PaidDrift ==
  ASSUME NEW ts \in Seq(TenderRows), NEW rs, rs = RowsOf(ts)
  PROVE  /\ rs \in Seq(TenderRows) /\ Raw(rs) \in Int /\ Money(Raw(ts)) \in Int
         /\ 2 * Magnitude(Raw(rs) - Raw(rs)) <= Cent * (Len(rs) + 1)
         /\ 2 * Magnitude(Money(Raw(ts)) - Raw(rs)) <= Cent * (Len(rs) + 1)
<1>1. rs \in Seq(TenderRows) /\ Len(rs) = Len(ts) BY RowsOfAre
<1>2. PICK n \in Nat : n = Len(ts) OBVIOUS
<1>3. PICK a \in Int : a = Raw(ts) BY AmountsAre
<1>4. PICK b \in Int : b = Raw(rs) BY <1>1, AmountsAre
<1>5. PICK m \in Int : m = Money(a) BY <1>3, MoneyIs
<1>6. 2 * Magnitude(m - a) <= Cent BY <1>3, <1>5, MoneyIs
<1>7. 2 * Magnitude(a - b) <= Cent * n BY <1>2, <1>3, <1>4, RowsDrift
<1>8. 2 * Magnitude(m - b) <= Cent * (n + 1) BY <1>6, <1>7 DEF Magnitude, Cent
<1>9. 2 * Magnitude(b - b) <= Cent * (n + 1) BY DEF Magnitude, Cent
<1>. QED BY <1>1, <1>2, <1>3, <1>4, <1>5, <1>8, <1>9

LEMMA ComputedIs ==
  ASSUME NEW r \in Replays, NEW c \in Computed(r.basket, r.pct, Rate, Unit)
  PROVE  HeaderFitsNets(c.header, c.nets, Unit) /\ c.header \in Headers
<1>1. PICK b : b = r.basket OBVIOUS
<1>2. b \in Seq(BasketLines) /\ r.pct \in Int BY <1>1, MoneyAssumption
<1>3. PICK n \in Nat : n = Len(b) BY <1>2
<1>4. DOMAIN b = 1..n /\ \A i \in 1..n : b[i] \in BasketLines BY <1>2, <1>3
<1>5. Lines(b, n) BY <1>4 DEF Lines, BasketLines
<1>6. HeaderFitsNets(c.header, c.nets, Unit)
  BY <1>1, <1>2, <1>5, ComputedFits, MoneyAssumption, SyncAssumption
<1>. QED BY <1>6 DEF HeaderFitsNets, Headers

LEMMA CreatedGood ==
  ASSUME NEW r \in Replays, NEW c \in Computed(r.basket, r.pct, Rate, Unit),
         NEW now, now = Created(r, c), NEW rs, rs = RowsOf(r.tenders)
  PROVE  GoodRow(now, c.nets, rs) /\ now.paid = Raw(rs)
<1>1. HeaderFitsNets(c.header, c.nets, Unit) /\ c.header \in Headers BY ComputedIs
<1>2. r.tenders \in Seq(TenderRows) BY MoneyAssumption
<1>3. /\ rs \in Seq(TenderRows) /\ Raw(rs) \in Int
      /\ 2 * Magnitude(Raw(rs) - Raw(rs)) <= Cent * (Len(rs) + 1)
  BY <1>2, PaidDrift
<1>4. PICK paid \in Int : paid = Raw(rs) BY <1>3
<1>5. PICK change \in Nat : change = AtLeastZero(paid - c.header.rounded)
  BY <1>1, ClampIs DEF Headers
<1>6. now = [status |-> "draft", uuid |-> r.uuid, receipt |-> ReceiptOf(r.uuid),
             customer |-> r.customer, header |-> c.header, paid |-> paid,
             change |-> change, against |-> None]
  BY <1>4, <1>5 DEF Created, NoInvoice
<1>7. now \in Invoices BY <1>1, <1>6 DEF Invoices, Uuids
<1>8. TellsItsRows(now, c.nets, rs) BY <1>1, <1>3, <1>4, <1>6 DEF TellsItsRows
<1>. QED BY <1>3, <1>4, <1>6, <1>7, <1>8 DEF GoodRow

LEMMA RewrittenGood ==
  ASSUME NEW t \in Tickets, invoice[t] \in Invoices, NEW r \in Replays,
         NEW c \in Computed(r.basket, r.pct, Rate, Unit),
         NEW now, now = Rewritten(t, r, c), NEW rs, rs = RowsOf(r.tenders)
  PROVE  GoodRow(now, c.nets, rs) /\ now.paid = Money(Raw(r.tenders))
<1>1. HeaderFitsNets(c.header, c.nets, Unit) /\ c.header \in Headers BY ComputedIs
<1>2. r.tenders \in Seq(TenderRows) BY MoneyAssumption
<1>3. PICK paid \in Int : paid = Money(Raw(r.tenders)) BY <1>2, PaidDrift
<1>4. /\ rs \in Seq(TenderRows)
      /\ 2 * Magnitude(paid - Raw(rs)) <= Cent * (Len(rs) + 1)
  BY <1>2, <1>3, PaidDrift
<1>5. PICK change \in Nat : change = AtLeastZero(paid - c.header.rounded)
  BY <1>1, ClampIs DEF Headers
<1>6. now = [invoice[t] EXCEPT !.header = c.header, !.paid = paid, !.change = change]
  BY <1>3, <1>5 DEF Rewritten
<1>7. now \in Invoices /\ now.header = c.header /\ now.paid = paid
  BY <1>1, <1>6 DEF Invoices
<1>8. TellsItsRows(now, c.nets, rs) BY <1>1, <1>4, <1>7 DEF TellsItsRows
<1>. QED BY <1>3, <1>4, <1>7, <1>8 DEF GoodRow

LEMMA TenderedGood ==
  ASSUME NEW i, NEW ns, NEW ts, GoodRow(i, ns, ts), NEW more \in Seq(TenderRows),
         Raw(more) \in Int, NEW now \in Invoices, now.paid = Raw(more),
         now.header = i.header, now.status = i.status, now.against = i.against
  PROVE  GoodRow(now, ns, more)
<1>1. PICK paid \in Int : paid = Raw(more) OBVIOUS
<1>2. PICK n \in Nat : n = Len(more) OBVIOUS
<1>3. 2 * Magnitude(paid - paid) <= Cent * (n + 1) BY DEF Magnitude, Cent
<1>. QED BY <1>1, <1>2, <1>3 DEF GoodRow, TellsItsRows

LEMMA StatusGood ==
  ASSUME NEW i, NEW ns, NEW ts, GoodRow(i, ns, ts), i.status # "none",
         NEW s \in {"draft", "paid", "returned"}
  PROVE  GoodRow([i EXCEPT !.status = s], ns, ts)
<1>1. PICK now : now = [i EXCEPT !.status = s] OBVIOUS
<1>2. i \in Invoices BY DEF GoodRow
<1>3. /\ now \in Invoices /\ now.header = i.header /\ now.paid = i.paid
      /\ now.against = i.against
  BY <1>1, <1>2 DEF Invoices
<1>. QED BY <1>1, <1>3 DEF GoodRow, TellsItsRows

LEMMA ReturnGood ==
  ASSUME NEW t \in Tickets, invoice[t] \in Invoices, NEW ns, NEW ts \in Seq(TenderRows)
  PROVE  GoodRow(ReturnTicket(t), ns, ts)
<1>1. PICK h : h = [invoice[t].header EXCEPT !.adjustment = 0] OBVIOUS
<1>2. invoice[t].header \in Headers /\ invoice[t].header.rounded \in Int
  BY DEF Invoices, Headers
<1>3. h \in Headers BY <1>1, <1>2 DEF Headers
<1>4. PICK now : now = ReturnTicket(t) OBVIOUS
<1>5. now = [status |-> "returned", uuid |-> None, receipt |-> ReturnReceipt(t),
             customer |-> invoice[t].customer, header |-> h,
             paid |-> invoice[t].header.rounded, change |-> 0, against |-> t]
  BY <1>1, <1>4 DEF ReturnTicket, NoInvoice
<1>6. now \in Invoices BY <1>2, <1>3, <1>5 DEF Invoices
<1>7. now.against # None BY <1>5, SyncAssumption
<1>. QED BY <1>4, <1>6, <1>7 DEF GoodRow

----------------------------------------------------------------------------
(* What a step does to the money *)

\* Rounding the tenders of a replay one by one makes no more of them than rounding
\* their sum.
RowsGainNothing == \A r \in Replays : Raw(RowsOf(r.tenders)) <= Money(Raw(r.tenders))

\* A draft's header has what its rows have, and a draft that is paid up is told of.
Covers(t) == invoice[t].status = "draft" => Raw(tenders[t]) <= invoice[t].paid
Told(t)  == Outbox /\ invoice[t].status = "draft" /\ PaidUp(t) => t \in outbox

Writes(t) ==
  /\ Others(t) /\ GoodRow(invoice'[t], nets'[t], tenders'[t])
  /\ outbox \ {t} \subseteq outbox' /\ outbox' \subseteq outbox \cup {t}
  /\ RowsGainNothing /\ Covers(t) /\ Told(t) => Covers(t)' /\ Told(t)'

Returns(t, rt) ==
  /\ invoice'[t].status = "returned" /\ GoodRow(invoice'[t], nets'[t], tenders'[t])
  /\ invoice'[rt].status = "returned" /\ GoodRow(invoice'[rt], nets'[rt], tenders'[rt])
  /\ \A u \in Tickets \ {t, rt} : invoice'[u] = invoice[u]
  /\ UNCHANGED <<nets, tenders, outbox>>

MoneyMoves ==
  \/ UNCHANGED rows
  \/ \E t \in Tickets : Writes(t)
  \/ \E t, rt \in Tickets : Returns(t, rt)

LEMMA StageIs ==
  ASSUME NEW t, NEW crossed \in BOOLEAN, outbox' = Stage(t, crossed)
  PROVE  /\ outbox \ {t} \subseteq outbox' /\ outbox' \subseteq outbox \cup {t}
         /\ t \in outbox => t \in outbox'
         /\ crossed /\ Outbox => t \in outbox'
BY DEF Stage

LEMMA CreateWrites ==
  ASSUME SyncInv, NEW w \in Workers, NEW t \in Tickets, Create(w, t)
  PROVE  Writes(t)
<1>. RowsShaped BY DEF SyncInv, SyncShaped
<1>1. PICK r \in Replays : r = req[w].replay BY DEF SyncInv, Knows, Create
<1>2. PICK c \in Computed(r.basket, r.pct, Rate, Unit) :
        LET now == Created(r, c)
        IN  /\ invoice' = [invoice EXCEPT ![t] = now]
            /\ nets' = [nets EXCEPT ![t] = c.nets]
            /\ tenders' = [tenders EXCEPT ![t] = RowsOf(r.tenders)]
            /\ outbox' = Stage(t, Full(now.header, now.paid))
  BY <1>1 DEF Create, Replaying
<1>3. PICK now : now = Created(r, c) OBVIOUS
<1>4. PICK rs : rs = RowsOf(r.tenders) OBVIOUS
<1>5. PICK crossed : crossed = Full(now.header, now.paid) OBVIOUS
<1>6. crossed \in BOOLEAN BY <1>5 DEF Full
<1>7. GoodRow(now, c.nets, rs) /\ now.paid = Raw(rs) BY <1>3, <1>4, CreatedGood
<1>8. invoice'[t] = now /\ nets'[t] = c.nets /\ tenders'[t] = rs /\ outbox' = Stage(t, crossed)
  BY <1>2, <1>3, <1>4, <1>5 DEF RowsShaped
<1>9. Others(t) BY CreateInserts DEF Inserted
<1>10. Covers(t)' BY <1>7, <1>8 DEF Covers, GoodRow, Invoices
<1>11. Told(t)' BY <1>5, <1>6, <1>8, StageIs DEF Told, PaidUp
<1>. QED BY <1>6, <1>7, <1>8, <1>9, <1>10, <1>11, StageIs DEF Writes

LEMMA RewriteWrites ==
  ASSUME SyncInv, RowsAreGood, NEW w \in Workers, NEW t \in Tickets, NEW r \in Replays,
         Rewrite(w, t, r), invoice[t].status = "draft", UNCHANGED reversed
  PROVE  Writes(t)
<1>. RowsShaped BY DEF SyncInv, SyncShaped
<1>2. PICK c \in Computed(r.basket, r.pct, Rate, Unit) :
        LET now == Rewritten(t, r, c)
        IN  /\ invoice' = [invoice EXCEPT ![t] = now]
            /\ nets' = [nets EXCEPT ![t] = c.nets]
            /\ tenders' = [tenders EXCEPT ![t] = RowsOf(r.tenders)]
            /\ outbox' = Stage(t, ~PaidUp(t) /\ Full(now.header, now.paid))
  BY DEF Rewrite
<1>3. PICK now : now = Rewritten(t, r, c) OBVIOUS
<1>4. PICK rs : rs = RowsOf(r.tenders) OBVIOUS
<1>5. PICK crossed : crossed = (~PaidUp(t) /\ Full(now.header, now.paid)) OBVIOUS
<1>6. crossed \in BOOLEAN BY <1>5
<1>7. GoodRow(now, c.nets, rs) /\ now.paid = Money(Raw(r.tenders))
  <2>1. invoice[t] \in Invoices BY DEF RowsAreGood, GoodRow
  <2>. QED BY <1>3, <1>4, <2>1, RewrittenGood
<1>8. invoice'[t] = now /\ nets'[t] = c.nets /\ tenders'[t] = rs /\ outbox' = Stage(t, crossed)
  BY <1>2, <1>3, <1>4, <1>5 DEF RowsShaped
<1>9. Others(t) BY RewriteAlters DEF Altered
<1>10. RowsGainNothing => Covers(t)' BY <1>4, <1>7, <1>8 DEF Covers, RowsGainNothing
<1>11. Told(t) => Told(t)' BY <1>5, <1>6, <1>8, StageIs DEF Told, PaidUp
<1>. QED BY <1>6, <1>7, <1>8, <1>9, <1>10, <1>11, StageIs DEF Writes

LEMMA TenderWrites ==
  ASSUME SyncInv, RowsAreGood, NEW t \in Tickets, NEW x \in Tenders, AddTender(t, x)
  PROVE  Writes(t)
<1>. RowsShaped BY DEF SyncInv, SyncShaped
<1>1. PICK i, ts : i = invoice[t] /\ ts = tenders[t] OBVIOUS
<1>2. GoodRow(i, nets[t], ts) /\ x \in TenderRows BY <1>1, MoneyAssumption DEF RowsAreGood
<1>3. PICK before \in Int : before = Raw(ts) BY <1>2, AmountsAre DEF GoodRow
<1>4. Money(x.amount) \in Int BY <1>2, RowIs
<1>5. PICK paid \in Int : paid = before + Money(x.amount) BY <1>4
<1>6. PICK due \in Int : due = i.header.rounded BY <1>2 DEF GoodRow, Invoices, Headers
<1>7. PICK crossed : crossed = (paid >= due /\ before < due) OBVIOUS
<1>8. PICK change \in Nat : change = AtLeastZero(paid - due) BY ClampIs
<1>9. PICK now : now = [i EXCEPT !.paid = paid, !.change = change] OBVIOUS
<1>10. PICK more : more = Append(ts, Row(x)) OBVIOUS
<1>11. /\ invoice' = [invoice EXCEPT ![t].paid = paid, ![t].change = change]
       /\ tenders' = [tenders EXCEPT ![t] = Append(@, Row(x))]
       /\ outbox' = Stage(t, crossed) /\ UNCHANGED nets /\ i.status = "draft"
  BY <1>1, <1>3, <1>5, <1>6, <1>7, <1>8 DEF AddTender
<1>12. /\ invoice'[t] = now /\ tenders'[t] = more /\ nets'[t] = nets[t]
  BY <1>1, <1>9, <1>10, <1>11 DEF RowsShaped
<1>13. /\ now \in Invoices /\ now.paid = paid /\ now.header = i.header
       /\ now.status = i.status /\ now.against = i.against
  BY <1>2, <1>9 DEF GoodRow, Invoices
<1>14. GoodRow(now, nets[t], more) /\ now.paid = Raw(more)
  <2>1. ts \in Seq(TenderRows) BY <1>2 DEF GoodRow
  <2>2. PICK y \in TenderRows : y = Row(x) /\ y.amount = Money(x.amount) BY <1>2, RowIs
  <2>3. more = Append(ts, y) BY <1>10, <2>2
  <2>4. more \in Seq(TenderRows) BY <2>1, <2>3
  <2>5. now.paid = Raw(more) /\ Raw(more) \in Int
    BY <1>3, <1>5, <1>13, <2>1, <2>2, <2>3, RawOfMore
  <2>. QED BY <1>2, <1>13, <2>4, <2>5, TenderedGood
<1>15. Others(t) BY TenderAlters DEF Altered
<1>16. Covers(t)' BY <1>12, <1>13, <1>14 DEF Covers
<1>17. crossed \in BOOLEAN BY <1>7
<1>18. Covers(t) /\ Told(t) => Told(t)'
  <2>. SUFFICES ASSUME Covers(t), Told(t), Outbox, PaidUp(t)' PROVE t \in outbox' BY DEF Told
  <2>1. due > 0 /\ paid >= due BY <1>6, <1>12, <1>13 DEF PaidUp, Full
  <2>2. before <= i.paid /\ i.paid \in Int
    BY <1>1, <1>2, <1>3, <1>11 DEF Covers, GoodRow, Invoices
  <2>3. CASE before < due BY <1>7, <1>11, <1>17, <2>1, <2>3, StageIs
  <2>4. CASE before >= due
    <3>1. PaidUp(t) BY <1>1, <1>6, <2>1, <2>2, <2>4 DEF PaidUp, Full
    <3>2. t \in outbox BY <1>1, <1>11, <3>1 DEF Told
    <3>. QED BY <1>11, <1>17, <3>2, StageIs
  <2>. QED BY <2>3, <2>4
<1>. QED BY <1>11, <1>12, <1>14, <1>15, <1>16, <1>17, <1>18, StageIs DEF Writes

\* A recognised ticket is no draft; one that is left a draft is not paid up.
LEMMA RecogniseWrites ==
  ASSUME SyncInv, RowsAreGood, NEW t \in Tickets, Recognise(t),
         UNCHANGED <<nets, tenders, reversed>>,
         outbox \ {t} \subseteq outbox', outbox' \subseteq outbox \cup {t}
  PROVE  Writes(t)
<1>. RowsShaped BY DEF SyncInv, SyncShaped
<1>1. PICK i, ts : i = invoice[t] /\ ts = tenders[t] OBVIOUS
<1>2. GoodRow(i, nets[t], ts) BY <1>1 DEF RowsAreGood
<1>3. CASE i.status = "draft" /\ i.paid >= i.header.rounded
  <2>1. PICK now : now = [i EXCEPT !.status = "paid"] OBVIOUS
  <2>2. invoice' = [invoice EXCEPT ![t].status = "paid"] BY <1>1, <1>3 DEF Recognise
  <2>3. invoice'[t] = now BY <1>1, <2>1, <2>2 DEF RowsShaped
  <2>4. GoodRow(now, nets[t], ts) BY <1>2, <1>3, <2>1, StatusGood
  <2>5. now.status = "paid" BY <1>2, <2>1 DEF GoodRow, Invoices
  <2>6. Others(t) BY <2>2 DEF Others, RowsShaped
  <2>. QED BY <1>1, <2>3, <2>4, <2>5, <2>6 DEF Writes, Covers, Told
<1>4. CASE ~(i.status = "draft" /\ i.paid >= i.header.rounded)
  <2>1. UNCHANGED invoice BY <1>1, <1>4 DEF Recognise
  <2>2. Told(t)' BY <1>1, <1>4, <2>1 DEF Told, PaidUp, Full
  <2>. QED BY <1>1, <1>2, <2>1, <2>2 DEF Writes, Others, Covers
<1>. QED BY <1>3, <1>4

LEMMA FlipReturns ==
  ASSUME SyncInv, RowsAreGood, NEW w \in Workers, NEW rt \in Tickets, Flip(w, rt)
  PROVE  MoneyMoves
<1>. RowsShaped BY DEF SyncInv, SyncShaped
<1>1. PICK t \in Tickets : t = req[w].ticket BY DEF Flip, SyncInv, Knows, Named, Live
<1>2. CASE UNCHANGED invoice BY <1>2 DEF Flip, MoneyMoves, rows
<1>3. CASE /\ invoice[t].status = "paid" /\ Fresh(rt)
           /\ invoice' = [invoice EXCEPT ![t].status = "returned", ![rt] = ReturnTicket(t)]
  <2>1. PICK back : back = ReturnTicket(t) OBVIOUS
  <2>2. PICK now : now = [invoice[t] EXCEPT !.status = "returned"] OBVIOUS
  <2>3. rt # t BY <1>3 DEF Fresh, Live
  <2>4. /\ invoice'[t] = now /\ invoice'[rt] = back
        /\ \A u \in Tickets \ {t, rt} : invoice'[u] = invoice[u]
    BY <1>3, <2>1, <2>2, <2>3 DEF RowsShaped
  <2>5. /\ GoodRow(invoice[t], nets[t], tenders[t])
        /\ invoice[t] \in Invoices /\ tenders[rt] \in Seq(TenderRows)
    BY DEF RowsAreGood, GoodRow
  <2>6. GoodRow(now, nets[t], tenders[t]) /\ now.status = "returned"
    <3>1. PICK i : i = invoice[t] OBVIOUS
    <3>2. GoodRow([i EXCEPT !.status = "returned"], nets[t], tenders[t])
      BY <1>3, <2>5, <3>1, StatusGood
    <3>. QED BY <2>2, <2>5, <3>1, <3>2 DEF Invoices
  <2>7. GoodRow(back, nets[rt], tenders[rt]) BY <2>1, <2>5, ReturnGood
  <2>8. back.status = "returned" BY <2>1, ReturnTicketIs
  <2>9. UNCHANGED <<nets, tenders, outbox>> BY DEF Flip
  <2>. QED BY <2>4, <2>6, <2>7, <2>8, <2>9 DEF Returns, MoneyMoves
<1>. QED BY <1>1, <1>2, <1>3 DEF Flip

LEMMA NextMovesMoney ==
  ASSUME SyncInv, RowsAreGood, [Next]_vars
  PROVE  MoneyMoves
<1>1. ASSUME NEW w \in Workers, Serve(w) PROVE MoneyMoves
  <2>1. ASSUME NEW r \in Replays, Lookup(w, r) PROVE MoneyMoves
    BY <2>1 DEF Lookup, MoneyMoves
  <2>2. ASSUME NEW t \in Tickets, Create(w, t) PROVE MoneyMoves
    BY <2>2, CreateWrites DEF MoneyMoves
  <2>3. ASSUME NEW t \in Tickets, Flip(w, t) PROVE MoneyMoves BY <2>3, FlipReturns
  <2>4. CASE Update(w)
    <3>1. PICK r \in Replays, t \in Tickets : r = req[w].replay /\ t = req[w].ticket
      BY <2>4 DEF Update, SyncInv, Knows, Named, Live
    <3>2. CASE invoice[t].status = "draft"
      <4>1. Rewrite(w, t, r) /\ UNCHANGED reversed
        BY <2>4, <3>1, <3>2 DEF Update, Replaying
      <4>. QED BY <3>2, <4>1, RewriteWrites DEF MoneyMoves
    <3>3. CASE invoice[t].status # "draft" BY <2>4, <3>1, <3>3 DEF Update, MoneyMoves
    <3>. QED BY <3>2, <3>3
  <2>5. CASE Publish(w) \/ Refuse(w) \/ Verify(w) \/ FindParent(w) \/ ReturnSource(w) \/ Reverse(w)
    BY <2>5 DEF Publish, Refuse, Verify, FindParent, ReturnSource, Reverse, MoneyMoves
  <2>. QED BY <1>1, <2>1, <2>2, <2>3, <2>4, <2>5 DEF Serve
<1>2. ASSUME NEW t \in Tickets, Relay(t) PROVE MoneyMoves
  BY <1>2, RecogniseWrites DEF Relay, MoneyMoves
<1>3. ASSUME NEW t \in Tickets, Consume(t) PROVE MoneyMoves
  BY <1>3, RecogniseWrites DEF Consume, MoneyMoves
<1>4. ASSUME NEW t \in Tickets, NEW x \in Tenders, AddTender(t, x) PROVE MoneyMoves
  BY <1>4, TenderWrites DEF MoneyMoves
<1>5. CASE Crash \/ UNCHANGED vars BY <1>5 DEF Crash, vars, rows, MoneyMoves
<1>. QED BY <1>1, <1>2, <1>3, <1>4, <1>5 DEF Next

LEMMA RowsStayGood ==
  ASSUME SyncInv, RowsAreGood, [Next]_vars
  PROVE  RowsAreGood'
<1>1. CASE UNCHANGED rows
  BY <1>1 DEF rows, RowsAreGood
<1>2. CASE \E t \in Tickets : Writes(t) BY <1>2 DEF Writes, Others, RowsAreGood
<1>3. CASE \E t, rt \in Tickets : Returns(t, rt) BY <1>3 DEF Returns, RowsAreGood
<1>. QED BY <1>1, <1>2, <1>3, NextMovesMoney DEF MoneyMoves

----------------------------------------------------------------------------
(* What holds of the money in every behaviour *)

MoneyInv == SyncInv /\ RowsAreGood

LEMMA InitIsGood == Init => MoneyInv
<1>. SUFFICES ASSUME Init PROVE RowsAreGood BY InitIsSync DEF MoneyInv
<1>1. NoHeader \in Headers BY DEF NoHeader, Headers
<1>2. NoInvoice \in Invoices /\ NoInvoice.status = "none"
  BY <1>1 DEF NoInvoice, Invoices
<1>3. \A t \in Tickets : invoice[t] = NoInvoice /\ tenders[t] = <<>> BY DEF Init
<1>4. <<>> \in Seq(TenderRows) OBVIOUS
<1>5. ASSUME NEW i, NEW ns, NEW ts, i = NoInvoice, ts = <<>> PROVE GoodRow(i, ns, ts)
  BY <1>2, <1>4, <1>5 DEF GoodRow
<1>. QED BY <1>3, <1>5 DEF RowsAreGood

LEMMA MoneyInvariant == Spec => []MoneyInv
<1>1. MoneyInv /\ [Next]_vars => MoneyInv' BY SyncStep, RowsStayGood DEF MoneyInv
<1>. QED BY <1>1, InitIsGood, PTL DEF Spec

\* A header is never left over from one snapshot with the rows of another, whatever is
\* replayed, tendered, recognised or undone, in whatever order.
THEOREM HeadersTellRows == Spec => []HeaderTellsItsRows
<1>1. MoneyInv => HeaderTellsItsRows
  <2>. SUFFICES ASSUME RowsAreGood, NEW t \in Sales
       PROVE  LET h == invoice[t].header
                  lost == invoice[t].paid - Raw(tenders[t])
              IN  /\ h.net = Money(SumFunction(nets[t]))
                  /\ h.rounded = h.grand + h.adjustment /\ h.grand = h.net + h.tax
                  /\ 2 * Magnitude(h.adjustment) <= IF Unit > Cent THEN Unit ELSE Cent
                  /\ 2 * Magnitude(lost) <= Cent * (Len(tenders[t]) + 1)
    BY DEF MoneyInv, HeaderTellsItsRows
  <2>1. PICK i, ns, ts : i = invoice[t] /\ ns = nets[t] /\ ts = tenders[t] OBVIOUS
  <2>2. TellsItsRows(i, ns, ts) BY <2>1 DEF RowsAreGood, GoodRow, Sales, Live
  <2>3. PICK h \in Headers : h = i.header BY <2>2 DEF TellsItsRows, HeaderFitsNets, Headers
  <2>4. 2 * Magnitude(h.adjustment) <= IF Unit > Cent THEN Unit ELSE Cent
    <3>1. h.adjustment \in Int /\ Unit \in Nat BY <2>3, MoneyAssumption DEF Headers
    <3>2. 2 * Magnitude(h.adjustment) <= Unit BY <2>2, <2>3 DEF TellsItsRows, HeaderFitsNets
    <3>. QED BY <3>1, <3>2 DEF Magnitude, Cent
  <2>. QED BY <2>1, <2>2, <2>3, <2>4 DEF TellsItsRows, HeaderFitsNets
<1>. QED BY <1>1, MoneyInvariant, PTL

\* Tenders of whole cents are rounded to themselves, and so is what they add up to.
LEMMA WholeCentsSumUp ==
  ASSUME \A r \in Replays : \A i \in 1..Len(r.tenders) : r.tenders[i].amount % Cent = 0
  PROVE  RowsGainNothing
<1>. SUFFICES ASSUME NEW r \in Replays PROVE Raw(RowsOf(r.tenders)) <= Money(Raw(r.tenders))
  BY DEF RowsGainNothing
<1>1. PICK ts \in Seq(TenderRows) : ts = r.tenders BY MoneyAssumption
<1>2. PICK n \in Nat : n = Len(ts) OBVIOUS
<1>3. PICK rs \in Seq(TenderRows) : rs = RowsOf(ts) /\ Len(rs) = n BY <1>2, RowsOfAre
<1>4. ASSUME NEW i \in 1..n
      PROVE  /\ ts[i] = rs[i] /\ Amounts(ts)[i] % Cent = 0
  <2>0. ts[i] \in TenderRows /\ ts[i].amount % Cent = 0 BY <1>1, <1>2
  <2>1. PICK v \in Int : v = ts[i].amount BY <2>0 DEF TenderRows
  <2>2. Money(v) = v BY <2>0, <2>1, MoneyIs
  <2>3. rs[i] = [ts[i] EXCEPT !.amount = v] BY <1>2, <1>3, <2>1, <2>2 DEF RowsOf, Row
  <2>4. rs[i] = ts[i] BY <2>0, <2>1, <2>3 DEF TenderRows
  <2>. QED BY <1>2, <2>0, <2>4 DEF Amounts
<1>5. ts = rs
  <2>1. DOMAIN ts = 1..n /\ DOMAIN rs = 1..n BY <1>2, <1>3
  <2>2. ts = [i \in 1..n |-> ts[i]] /\ rs = [i \in 1..n |-> rs[i]] BY <2>1
  <2>3. \A i \in 1..n : ts[i] = rs[i] BY <1>4
  <2>. QED BY <2>2, <2>3
<1>6. Numbers(Amounts(ts), n) /\ Raw(ts) = SumFunction(Amounts(ts)) /\ Raw(ts) \in Int
  BY <1>2, AmountsAre
<1>7. Raw(ts) % Cent = 0 BY <1>4, <1>6, SumOfCents
<1>8. Money(Raw(ts)) = Raw(ts) BY <1>6, <1>7, MoneyIs
<1>. QED BY <1>1, <1>3, <1>5, <1>6, <1>8

ToldInv == \A t \in Tickets : Covers(t) /\ Told(t)

LEMMA ToldStep ==
  ASSUME RowsGainNothing, MoneyInv, ToldInv, [Next]_vars
  PROVE  ToldInv'
<1>1. CASE UNCHANGED rows BY <1>1 DEF rows, ToldInv, Covers, Told, PaidUp
<1>2. ASSUME NEW t \in Tickets, Writes(t) PROVE ToldInv'
  <2>1. Covers(t)' /\ Told(t)' BY <1>2 DEF Writes, ToldInv
  <2>2. ASSUME NEW u \in Tickets, u # t PROVE Covers(u)' /\ Told(u)'
    <3>1. /\ invoice'[u] = invoice[u] /\ tenders'[u] = tenders[u]
          /\ u \in outbox => u \in outbox'
      BY <1>2, <2>2 DEF Writes, Others
    <3>. QED BY <3>1 DEF ToldInv, Covers, Told, PaidUp
  <2>. QED BY <2>1, <2>2 DEF ToldInv
<1>3. ASSUME NEW t \in Tickets, NEW rt \in Tickets, Returns(t, rt) PROVE ToldInv'
  <2>1. ASSUME NEW u \in Tickets, u \in {t, rt} PROVE Covers(u)' /\ Told(u)'
    BY <1>3, <2>1 DEF Returns, Covers, Told
  <2>2. ASSUME NEW u \in Tickets, u \notin {t, rt} PROVE Covers(u)' /\ Told(u)'
    BY <1>3, <2>2 DEF Returns, ToldInv, Covers, Told, PaidUp
  <2>. QED BY <2>1, <2>2 DEF ToldInv
<1>. QED BY <1>1, <1>2, <1>3, NextMovesMoney DEF MoneyMoves, MoneyInv

\* With an outbox, a draft that is paid up has its event waiting, whatever crashes and in
\* whatever order replays and tenders come, as long as rounding a replay's tenders one by
\* one gains nothing on rounding their sum (in whole cents it never does, WholeCentsSumUp).
THEOREM PaidUpTold == ASSUME RowsGainNothing PROVE Spec => []PaidUpIsTold
<1>1. Init => ToldInv
  <2>. SUFFICES ASSUME Init, NEW t \in Tickets PROVE Covers(t) /\ Told(t) BY DEF ToldInv
  <2>. QED BY DEF Init, NoInvoice, Covers, Told
<1>2. MoneyInv /\ ToldInv /\ [Next]_vars => ToldInv' BY ToldStep
<1>3. ToldInv => PaidUpIsTold BY DEF ToldInv, Told, PaidUpIsTold, Live
<1>. QED BY <1>1, <1>2, <1>3, MoneyInvariant, PTL DEF Spec

----------------------------------------------------------------------------
(* Types *)

Typed ==
  /\ reversed \subseteq Tickets /\ outbox \subseteq Tickets /\ published \subseteq Tickets
  /\ req \in [Workers -> Reqs] /\ answer \in [Workers -> Answers]

LEMMA FinishIsTyped ==
  ASSUME Typed, NEW w \in Workers, NEW action, NEW t, Finish(w, action, t),
         action \in {"created", "updated", "finalized", "refused"}, t \in Tickets \cup {None}
  PROVE  req' \in [Workers -> Reqs] /\ answer' \in [Workers -> Answers]
<1>1. NoReq \in Reqs BY DEF NoReq, Reqs
<1>2. req[w].replay \in Replays \cup {None} BY DEF Typed, Reqs
<1>3. [action |-> action, ticket |-> t, replay |-> req[w].replay] \in Answers
  BY <1>2 DEF Answers
<1>. QED BY <1>1, <1>3 DEF Finish, Typed

LEMMA CommitIsTyped ==
  ASSUME Typed, NEW w \in Workers, NEW t \in Tickets, NEW action \in {"created", "updated"},
         NEW crossed \in BOOLEAN, Committed(w, t, action, crossed), outbox' = Stage(t, crossed)
  PROVE  /\ req' \in [Workers -> Reqs] /\ answer' \in [Workers -> Answers]
         /\ outbox' \subseteq Tickets
<1>1. outbox' \subseteq Tickets BY StageIs DEF Typed
<1>2. CASE Finish(w, action, t) BY <1>1, <1>2, FinishIsTyped
<1>3. CASE /\ req' = [req EXCEPT ![w] = [req[w] EXCEPT !.ticket = t, !.seen = action]]
           /\ UNCHANGED answer
  <2>1. [req[w] EXCEPT !.ticket = t, !.seen = action] \in Reqs BY DEF Typed, Reqs
  <2>. QED BY <1>1, <1>3, <2>1 DEF Typed
<1>. QED BY <1>2, <1>3 DEF Committed

LEMMA LookupIsTyped ==
  ASSUME RowsAreGood, Typed, NEW w \in Workers, NEW r \in Replays, Lookup(w, r)
  PROVE  Typed'
<1>0. UNCHANGED <<reversed, outbox, published>> BY DEF Lookup, rows
<1>1. NoAnswer \in Answers BY DEF NoAnswer, Answers
<1>2. ASSUME NEW t \in Tickets,
             answer' = [answer EXCEPT ![w] = [action |-> "finalized", ticket |-> t, replay |-> r]],
             UNCHANGED req
      PROVE  Typed'
  <2>1. [action |-> "finalized", ticket |-> t, replay |-> r] \in Answers BY DEF Answers
  <2>. QED BY <1>0, <1>2, <2>1 DEF Typed
<1>3. ASSUME NEW q \in Reqs, req' = [req EXCEPT ![w] = q],
             answer' = [answer EXCEPT ![w] = NoAnswer]
      PROVE  Typed'
  BY <1>0, <1>1, <1>3 DEF Typed
<1>4. ASSUME NEW t \in Tickets
      PROVE  [replay |-> r, ticket |-> t, seen |-> "draft", customer |-> invoice[t].customer]
               \in Reqs
  <2>1. invoice[t] \in Invoices BY DEF RowsAreGood, GoodRow
  <2>. QED BY <2>1 DEF Invoices, Reqs
<1>5. [NoReq EXCEPT !.replay = r] \in Reqs BY DEF NoReq, Reqs
<1>. QED BY <1>2, <1>3, <1>4, <1>5 DEF Lookup, Named, Live

LEMMA ServeIsTyped ==
  ASSUME MoneyInv, Typed, NEW w \in Workers, Serve(w)
  PROVE  Typed'
<1>. Knows(w) /\ RowsAreGood BY DEF MoneyInv, SyncInv
<1>0. \A t : t \in Live => t \in Tickets BY DEF Live
<1>1. ASSUME NEW r \in Replays, Lookup(w, r) PROVE Typed' BY <1>1, LookupIsTyped
<1>2. ASSUME NEW t \in Tickets, Create(w, t) PROVE Typed'
  <2>1. PICK crossed \in BOOLEAN :
          outbox' = Stage(t, crossed) /\ Committed(w, t, "created", crossed)
    BY <1>2 DEF Create, Full
  <2>2. UNCHANGED <<reversed, published>> BY <1>2 DEF Create
  <2>. QED BY <2>1, <2>2, CommitIsTyped DEF Typed
<1>3. ASSUME NEW rt \in Tickets, Flip(w, rt) PROVE Typed'
  <2>1. Finish(w, RefundAction(w), rt) /\ UNCHANGED <<reversed, outbox, published>>
    BY <1>3 DEF Flip
  <2>2. PICK action \in {"created", "finalized"} : action = RefundAction(w)
    BY DEF RefundAction
  <2>. QED BY <2>1, <2>2, FinishIsTyped DEF Typed
<1>4. CASE Update(w)
  <2>0. UNCHANGED <<reversed, published>> BY <1>4 DEF Update
  <2>1. PICK t \in Tickets : t = req[w].ticket BY <1>0, <1>4 DEF Update, Knows, Named
  <2>2. CASE Finish(w, "finalized", t) /\ UNCHANGED rows
    BY <2>0, <2>2, FinishIsTyped DEF Typed, rows
  <2>3. ASSUME NEW r, Rewrite(w, t, r) PROVE Typed'
    <3>1. PICK crossed \in BOOLEAN :
            outbox' = Stage(t, crossed) /\ Committed(w, t, "updated", crossed)
      BY <2>3 DEF Rewrite
    <3>. QED BY <2>0, <3>1, CommitIsTyped DEF Typed
  <2>. QED BY <1>4, <2>1, <2>2, <2>3 DEF Update
<1>5. CASE Publish(w)
  <2>1. /\ Finish(w, req[w].seen, req[w].ticket) /\ published' = published \cup {req[w].ticket}
        /\ UNCHANGED <<reversed, outbox>>
    BY <1>5 DEF Publish, rows
  <2>2. PICK t \in Tickets, action \in {"created", "updated"} :
          t = req[w].ticket /\ action = req[w].seen
    BY <1>0, <1>5 DEF Publish, Knows, Named
  <2>. QED BY <2>1, <2>2, FinishIsTyped DEF Typed
<1>6. CASE Refuse(w)
  <2>1. Finish(w, "refused", None) /\ UNCHANGED <<reversed, outbox, published>>
    BY <1>6 DEF Refuse, rows
  <2>. QED BY <2>1, FinishIsTyped DEF Typed
<1>7. CASE Verify(w) \/ ReturnSource(w) BY <1>7 DEF Verify, ReturnSource, rows, Typed
<1>8. CASE Reverse(w)
  <2>1. req[w].ticket \in Tickets BY <1>0, <1>8 DEF Reverse, Goto, Knows, Named
  <2>. QED BY <1>8, <2>1 DEF Reverse, rows, Typed
<1>9. CASE FindParent(w)
  <2>1. PICK t \in Tickets :
          req' = [req EXCEPT ![w] = [req[w] EXCEPT !.ticket = t, !.seen = invoice[t].status]]
    BY <1>9 DEF FindParent, Named, Live
  <2>2. invoice[t].status \in {"none", "draft", "paid", "returned"}
    BY DEF RowsAreGood, GoodRow, Invoices
  <2>3. [req[w] EXCEPT !.ticket = t, !.seen = invoice[t].status] \in Reqs
    BY <2>2 DEF Typed, Reqs
  <2>. QED BY <1>9, <2>1, <2>3 DEF FindParent, rows, Typed
<1>. QED BY <1>1, <1>2, <1>3, <1>4, <1>5, <1>6, <1>7, <1>8, <1>9 DEF Serve

LEMMA TypedStep ==
  ASSUME MoneyInv, Typed, [Next]_vars
  PROVE  Typed'
<1>1. ASSUME NEW t \in Tickets, Relay(t) \/ Consume(t) PROVE Typed'
  BY <1>1 DEF Relay, Consume, Typed
<1>2. ASSUME NEW t \in Tickets, NEW x \in Tenders, AddTender(t, x) PROVE Typed'
  <2>1. /\ \E crossed \in BOOLEAN : outbox' = Stage(t, crossed)
        /\ published' = published \/ published' = published \cup {t}
        /\ UNCHANGED <<reversed, req, answer>>
    BY <1>2 DEF AddTender
  <2>. QED BY <2>1, StageIs DEF Typed
<1>3. CASE Crash
  <2>1. NoReq \in Reqs BY DEF NoReq, Reqs
  <2>. QED BY <1>3, <2>1 DEF Crash, rows, Typed
<1>4. CASE UNCHANGED vars BY <1>4 DEF vars, Typed
<1>. QED BY <1>1, <1>2, <1>3, <1>4, ServeIsTyped DEF Next

\* Every variable holds what its table or its request can hold.
THEOREM TypeCorrect == Spec => []TypeOK
<1>1. Init => Typed
  <2>. SUFFICES ASSUME Init PROVE Typed OBVIOUS
  <2>1. NoReq \in Reqs /\ NoAnswer \in Answers BY DEF NoReq, Reqs, NoAnswer, Answers
  <2>. QED BY <2>1 DEF Init, Typed
<1>2. MoneyInv /\ Typed /\ [Next]_vars => Typed' BY TypedStep
<1>3. MoneyInv /\ Typed => TypeOK
  <2>. SUFFICES ASSUME MoneyInv, Typed PROVE TypeOK OBVIOUS
  <2>1. invoice \in [Tickets -> Invoices]
    BY DEF MoneyInv, RowsAreGood, GoodRow, SyncInv, SyncShaped, RowsShaped
  <2>2. pc \in [Workers -> PC] BY DEF MoneyInv, SyncInv, SyncShaped, RequestsShaped
  <2>. QED BY <2>1, <2>2 DEF Typed, TypeOK
<1>. QED BY <1>1, <1>2, <1>3, MoneyInvariant, PTL DEF Spec

=============================================================================
