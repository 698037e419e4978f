-------------------------- MODULE PosCounterProofs --------------------------
(***************************************************************************)
(* Proofs about PosCounter, for any number of requests, sessions, tickets  *)
(* and tables.                                                             *)
(***************************************************************************)
EXTENDS PosCounterInv, TLAPS

Typed == TypeOK /\ RequestsNameRows

\* Releasing its locks keeps the lock tables well formed, and frees only what w held.
LEMMA ReleaseTyped ==
  ASSUME TypeOK, NEW w \in Workers, Release(w)
  PROVE  /\ ticketLock' \in [Tickets -> Workers \cup {None}]
         /\ sessShare'  \in [Sessions -> SUBSET Workers]
         /\ sessExcl'   \in [Sessions -> Workers \cup {None}]
         /\ advisory'   \in [Tickets -> Workers \cup {None}]
BY DEF TypeOK, Release

LEMMA NoReqTyped == NoReq \in Reqs
BY DEF NoReq, Reqs, NoTenders, TenderSums, NoDrawer, Drawers, NoRows, PerTicket, Methods

\* A request that ends leaves its worker idle and every lock table well formed.
LEMMA FinishTyped ==
  ASSUME Typed, NEW w \in Workers, Finish(w)
  PROVE  /\ ticketLock' \in [Tickets -> Workers \cup {None}]
         /\ sessShare'  \in [Sessions -> SUBSET Workers]
         /\ sessExcl'   \in [Sessions -> Workers \cup {None}]
         /\ advisory'   \in [Tickets -> Workers \cup {None}]
         /\ pc' \in [Workers -> PC] /\ req' \in [Workers -> Reqs]
         /\ RequestsNameRows'
<1>1. Release(w) BY DEF Finish
<1>2. "idle" \notin WithSession \cup WithTicket
  BY DEF WithSession, WithTicket, Sharing, Closing, Counting, Holding
<1>3. pc' \in [Workers -> PC] /\ req' \in [Workers -> Reqs]
  BY NoReqTyped DEF Typed, TypeOK, Finish, PC
<1>4. RequestsNameRows'
  BY <1>2 DEF Typed, TypeOK, Finish, RequestsNameRows
<1>. QED BY <1>1, <1>3, <1>4, ReleaseTyped DEF Typed

\* What a ticket is tendered, and its change, are natural numbers.
LEMMA SumTyped ==
  ASSUME NEW ts \in TenderSums
  PROVE  SumOf(ts) \in Nat
BY DEF TenderSums, SumOf, Methods

LEMMA ChangeTyped ==
  ASSUME NEW p \in Nat, NEW total \in Nat
  PROVE  ChangeOf(p, total) \in Nat
BY DEF ChangeOf

LEMMA TriggeredTyped ==
  ASSUME triggers \in [Tickets -> Nat], NEW t \in Tickets, NEW full, NEW total, NEW p
  PROVE  Triggered(t, full, total, p) \in [Tickets -> Nat]
BY DEF Triggered, Full

LEMMA DraftTyped ==
  ASSUME NEW s \in Sessions \cup {None}, NEW tb \in Tables \cup {None},
         NEW total \in Nat, NEW ts \in TenderSums
  PROVE  Draft(s, tb, total, ts) \in TicketRows
<1>1. SumOf(ts) \in Nat BY SumTyped
<1>2. ChangeOf(SumOf(ts), total) \in Nat BY <1>1, ChangeTyped
<1>. QED BY <1>1, <1>2 DEF Draft, TicketRows

LEMMA PaidRowsTyped ==
  ASSUME NEW V, NEW column \in [Tickets -> V], NEW s
  PROVE  PaidRows(s, column) \in PerTicket(V)
BY DEF PaidRows, PerTicket

LEMMA ReplayedTyped == Replayed \subseteq TenderSums
<1>1. Amounts \cup {0} \subseteq Nat BY AmountAssumption
<1>. QED BY <1>1 DEF Replayed, TenderSums

\* A step that goes on keeps its locks well formed and says what it holds.
LEMMA GotoTyped ==
  ASSUME Typed, NEW w \in Workers, NEW from, NEW to \in PC, Goto(w, from, to),
         req' \in [Workers -> Reqs],
         \A v \in Workers \ {w} : req'[v] = req[v],
         to \in WithSession => req'[w].session \in Sessions,
         to \in WithTicket => req'[w].ticket \in Tickets
  PROVE  pc' \in [Workers -> PC] /\ RequestsNameRows'
BY DEF Typed, TypeOK, Goto, RequestsNameRows

\* The rows and the lock tables, apart from the requests.
RowsTyped ==
  /\ session   \in [Sessions -> SessionRows]
  /\ ticket    \in [Tickets -> TicketRows]
  /\ tenders   \in [Tickets -> TenderSums]
  /\ movements \in [Sessions -> Int]
  /\ closing   \in [Sessions -> Drawers \cup {None}]
  /\ triggers  \in [Tickets -> Nat]

LEMMA RowsTypedLemma == Typed => RowsTyped
BY DEF Typed, TypeOK, RowsTyped

LEMMA FinishRows ==
  ASSUME Typed, NEW w \in Workers, Finish(w), RowsTyped'
  PROVE  Typed'
BY FinishTyped DEF Typed, TypeOK, RowsTyped

LEMMA RowsUnchanged == ASSUME RowsTyped, UNCHANGED rows PROVE RowsTyped'
BY DEF rows, RowsTyped

LocksTyped ==
  /\ ticketLock \in [Tickets -> Workers \cup {None}]
  /\ sessShare  \in [Sessions -> SUBSET Workers]
  /\ sessExcl   \in [Sessions -> Workers \cup {None}]
  /\ advisory   \in [Tickets -> Workers \cup {None}]

\* A statement that writes no row and goes on: what is left to say of it.
LEMMA StepTyped ==
  ASSUME Typed, NEW w \in Workers, NEW from, NEW to \in PC, Goto(w, from, to),
         RowsTyped', LocksTyped', NEW q \in Reqs, req' = [req EXCEPT ![w] = q],
         to \in WithSession => q.session \in Sessions,
         to \in WithTicket => q.ticket \in Tickets
  PROVE  Typed'
<1>1. req' \in [Workers -> Reqs] BY DEF Typed, TypeOK
<1>2. req'[w] = q /\ \A v \in Workers \ {w} : req'[v] = req[v] BY DEF Typed, TypeOK
<1>3. pc' \in [Workers -> PC] /\ RequestsNameRows' BY <1>1, <1>2, GotoTyped
<1>. QED BY <1>1, <1>3 DEF Typed, TypeOK, RowsTyped, LocksTyped

LEMMA LocksTypedLemma == Typed => LocksTyped
BY DEF Typed, TypeOK, LocksTyped

LEMMA ShareTyped ==
  ASSUME LocksTyped, NEW w \in Workers, NEW ss, TakeShare(w, ss),
         UNCHANGED <<ticketLock, sessExcl, advisory>>
  PROVE  LocksTyped'
BY DEF LocksTyped, TakeShare

LEMMA TicketLockTyped ==
  ASSUME LocksTyped, NEW w \in Workers, NEW t \in Tickets, TakeTicket(w, t),
         UNCHANGED <<sessShare, sessExcl, advisory>>
  PROVE  LocksTyped'
BY DEF LocksTyped, TakeTicket

\* What the statements note in a request keeps it well formed.
LEMMA NotesTyped ==
  ASSUME NEW q \in Reqs
  PROVE  /\ \A r \in Registers, s \in Sessions :
              [q EXCEPT !.register = r, !.session = s] \in Reqs
         /\ \A s \in Sessions, t \in Tickets, tb \in Tables \cup {None} :
              [q EXCEPT !.session = s, !.ticket = t, !.table = tb] \in Reqs
         /\ \A t \in Tickets, b \in BOOLEAN :
              [q EXCEPT !.ticket = t, !.full = b] \in Reqs
         /\ \A t \in Tickets, a \in Nat :
              [q EXCEPT !.ticket = t, !.amount = a] \in Reqs
         /\ \A s \in Sessions, tb \in Tables \cup {None} :
              [q EXCEPT !.session = s, !.table = tb] \in Reqs
         /\ \A s \in Sessions, ts \in TenderSums, a \in Nat :
              [q EXCEPT !.session = s, !.tender = ts, !.amount = a] \in Reqs
BY DEF Reqs

\* A first statement only takes locks and says what the request is about.
LEMMA BeginTyped ==
  ASSUME Typed, NEW w \in Workers, Begin(w)
  PROVE  Typed'
<1>. /\ RowsTyped /\ LocksTyped
     /\ UNCHANGED rows => RowsTyped'
     /\ req[w] \in Reqs
  BY RowsTypedLemma, LocksTypedLemma, RowsUnchanged DEF Typed, TypeOK
<1>1. ASSUME NEW r \in Registers, NEW s \in Sessions, OpenRead(w, r, s) PROVE Typed'
  <2>. DEFINE q == [req[w] EXCEPT !.register = r, !.session = s]
  <2>1. LocksTyped' BY <1>1 DEF OpenRead, locks, LocksTyped
  <2>2. q \in Reqs BY NotesTyped
  <2>3. req' = [req EXCEPT ![w] = q] BY <1>1 DEF OpenRead
  <2>4. q.session \in Sessions \/ "opening" \notin WithSession
    BY <2>2 DEF Reqs, WithSession, Sharing, Closing, Counting
  <2>5. q.ticket \in Tickets \/ "opening" \notin WithTicket
    BY <2>2 DEF Reqs, WithTicket, Holding
  <2>. QED BY <1>1, <2>1, <2>2, <2>3, <2>4, <2>5, StepTyped DEF OpenRead, PC
<1>2. ASSUME NEW s \in Sessions, NEW t \in Tickets, NEW tb \in Tables \cup {None}, RingBegin(w, s, t, tb) PROVE Typed'
  <2>. DEFINE q == [req[w] EXCEPT !.session = s, !.ticket = t, !.table = tb]
  <2>1. LocksTyped' BY <1>2, ShareTyped DEF RingBegin
  <2>2. q \in Reqs BY NotesTyped
  <2>3. req' = [req EXCEPT ![w] = q] BY <1>2 DEF RingBegin
  <2>4. q.session \in Sessions \/ "ringing" \notin WithSession
    BY <2>2 DEF Reqs, WithSession, Sharing, Closing, Counting
  <2>5. q.ticket \in Tickets \/ "ringing" \notin WithTicket
    BY <2>2 DEF Reqs, WithTicket, Holding
  <2>. QED BY <1>2, <2>1, <2>2, <2>3, <2>4, <2>5, StepTyped DEF RingBegin, PC
<1>3. ASSUME NEW named \in Sessions, NEW rescue \in Sessions \cup {None}, NEW r \in Registers,
             NEW t \in Tickets, NEW tb \in Tables \cup {None},
             SyncCreateBegin(w, named, rescue, r, t, tb) PROVE Typed'
  <2>. DEFINE q == [req[w] EXCEPT !.session = ResolveForCreate(named, rescue, r),
                 !.ticket = t, !.table = tb]
  <2>0. ResolveForCreate(named, rescue, r) \in Sessions
    BY <1>3 DEF SyncCreateBegin, ResolveForCreate, SameRegisterOpen, Open
  <2>1. LocksTyped' BY <1>3, ShareTyped DEF SyncCreateBegin
  <2>2. q \in Reqs BY <2>0, NotesTyped
  <2>3. req' = [req EXCEPT ![w] = q] BY <1>3 DEF SyncCreateBegin
  <2>4. q.session \in Sessions \/ "replaying" \notin WithSession
    BY <2>0, <2>2 DEF Reqs, WithSession, Sharing, Closing, Counting
  <2>5. q.ticket \in Tickets \/ "replaying" \notin WithTicket
    BY <2>2 DEF Reqs, WithTicket, Holding
  <2>. QED BY <1>3, <2>1, <2>2, <2>3, <2>4, <2>5, StepTyped DEF SyncCreateBegin, PC
<1>4. ASSUME NEW t \in Tickets, TenderLock(w, t) PROVE Typed'
  <2>. DEFINE q == [req[w] EXCEPT !.ticket = t]
  <2>1. LocksTyped' BY <1>4, TicketLockTyped DEF TenderLock
  <2>2. q \in Reqs BY SMT DEF Reqs
  <2>3. req' = [req EXCEPT ![w] = q] BY <1>4 DEF TenderLock
  <2>4. q.session \in Sessions \/ "tender_locked" \notin WithSession
    BY <2>2 DEF Reqs, WithSession, Sharing, Closing, Counting
  <2>5. q.ticket \in Tickets \/ "tender_locked" \notin WithTicket
    BY <2>2 DEF Reqs, WithTicket, Holding
  <2>. QED BY <1>4, <2>1, <2>2, <2>3, <2>4, <2>5, StepTyped DEF TenderLock, PC
<1>5. ASSUME NEW t \in Tickets, RewriteLock(w, t) PROVE Typed'
  <2>. DEFINE q == [req[w] EXCEPT !.ticket = t, !.full = Full(ticket[t].total, ticket[t].paid)]
  <2>1. LocksTyped' BY <1>5, TicketLockTyped DEF RewriteLock
  <2>2. q \in Reqs
    <3>1. Full(ticket[t].total, ticket[t].paid) \in BOOLEAN BY DEF Full
    <3>. QED BY <3>1, NotesTyped
  <2>3. req' = [req EXCEPT ![w] = q] BY <1>5 DEF RewriteLock
  <2>4. q.session \in Sessions \/ "rewrite_locked" \notin WithSession
    BY <2>2 DEF Reqs, WithSession, Sharing, Closing, Counting
  <2>5. q.ticket \in Tickets \/ "rewrite_locked" \notin WithTicket
    BY <2>2 DEF Reqs, WithTicket, Holding
  <2>. QED BY <1>5, <2>1, <2>2, <2>3, <2>4, <2>5, StepTyped DEF RewriteLock, PC
<1>6. ASSUME NEW s \in Sessions, MovementLock(w, s) PROVE Typed'
  <2>. DEFINE q == [req[w] EXCEPT !.session = s]
  <2>1. LocksTyped' BY <1>6, ShareTyped DEF MovementLock
  <2>2. q \in Reqs BY SMT DEF Reqs
  <2>3. req' = [req EXCEPT ![w] = q] BY <1>6 DEF MovementLock
  <2>4. q.session \in Sessions \/ "moving" \notin WithSession
    BY <2>2 DEF Reqs, WithSession, Sharing, Closing, Counting
  <2>5. q.ticket \in Tickets \/ "moving" \notin WithTicket
    BY <2>2 DEF Reqs, WithTicket, Holding
  <2>. QED BY <1>6, <2>1, <2>2, <2>3, <2>4, <2>5, StepTyped DEF MovementLock, PC
<1>7. ASSUME NEW t \in Tickets, ReturnFlip(w, t) PROVE Typed'
  <2>. DEFINE q == [req[w] EXCEPT !.ticket = t]
  <2>1. LocksTyped' BY <1>7, TicketLockTyped DEF ReturnFlip
  <2>2. q \in Reqs BY SMT DEF Reqs
  <2>3. req' = [req EXCEPT ![w] = q] BY <1>7 DEF ReturnFlip
  <2>4. q.session \in Sessions \/ "returning" \notin WithSession
    BY <2>2 DEF Reqs, WithSession, Sharing, Closing, Counting
  <2>5. q.ticket \in Tickets \/ "returning" \notin WithTicket
    BY <2>2 DEF Reqs, WithTicket, Holding
  <2>. QED BY <1>7, <2>1, <2>2, <2>3, <2>4, <2>5, StepTyped DEF ReturnFlip, PC
<1>8. ASSUME NEW s \in Sessions, CloseBegin(w, s) PROVE Typed'
  <2>. DEFINE q == [req[w] EXCEPT !.session = s]
  <2>1. LocksTyped' BY <1>8 DEF CloseBegin, LocksTyped
  <2>2. q \in Reqs BY SMT DEF Reqs
  <2>3. req' = [req EXCEPT ![w] = q] BY <1>8 DEF CloseBegin
  <2>4. q.session \in Sessions \/ "closing" \notin WithSession
    BY <2>2 DEF Reqs, WithSession, Sharing, Closing, Counting
  <2>5. q.ticket \in Tickets \/ "closing" \notin WithTicket
    BY <2>2 DEF Reqs, WithTicket, Holding
  <2>. QED BY <1>8, <2>1, <2>2, <2>3, <2>4, <2>5, StepTyped DEF CloseBegin, PC
<1>9. ASSUME NEW t \in Tickets, RecognizeFetch(w, t) PROVE Typed'
  <2>. DEFINE q == [req[w] EXCEPT !.ticket = t, !.amount = ticket[t].total]
              to == IF ticket[t].billed = None THEN "recognizing" ELSE "linked"
  <2>1. LocksTyped' BY <1>9 DEF RecognizeFetch, LocksTyped
  <2>2. q \in Reqs
    <3>1. ticket[t].total \in Nat BY DEF RowsTyped, TicketRows
    <3>. QED BY <3>1, NotesTyped
  <2>3. req' = [req EXCEPT ![w] = q] BY <1>9 DEF RecognizeFetch
  <2>4. to \in PC \ WithSession
    BY DEF PC, WithSession, Sharing, Closing, Counting
  <2>5. q.ticket \in Tickets BY <2>2 DEF Reqs
  <2>. QED BY <1>9, <2>1, <2>2, <2>3, <2>4, <2>5, StepTyped DEF RecognizeFetch
<1>. QED BY <1>1, <1>2, <1>3, <1>4, <1>5, <1>6, <1>7, <1>8, <1>9 DEF Begin

LEMMA NamedRows ==
  ASSUME Typed, NEW w \in Workers
  PROVE  /\ pc[w] \in {"opening", "ringing", "replaying", "moving", "tender_inserted",
                       "rewriting", "closing"} \cup Counting
              => req[w].session \in Sessions
         /\ pc[w] \in {"ringing", "replaying", "tender_locked", "tender_inserted",
                       "rewrite_locked", "rewriting", "returning", "recognizing", "linked"}
              => req[w].ticket \in Tickets
BY DEF Typed, RequestsNameRows, WithSession, WithTicket, Sharing, Closing, Counting, Holding

\* Inserting a draft, or rewriting one, keeps the rows well formed.
LEMMA TicketRowTyped ==
  ASSUME RowsTyped, NEW t \in Tickets, NEW row \in TicketRows, NEW ts \in TenderSums,
         ticket' = [ticket EXCEPT ![t] = row], tenders' = [tenders EXCEPT ![t] = ts],
         triggers' \in [Tickets -> Nat], UNCHANGED <<session, movements, closing>>
  PROVE  RowsTyped'
BY DEF RowsTyped

LEMMA InsertTyped ==
  ASSUME Typed, NEW w \in Workers, NEW total \in Totals, NEW ts \in TenderSums,
         req[w].ticket \in Tickets, InsertDraft(w, total, ts)
  PROVE  Typed'
<1>. DEFINE t == req[w].ticket
            row == Draft(req[w].session, req[w].table, total, ts)
<1>1. RowsTyped BY RowsTypedLemma
<1>2. req[w] \in Reqs /\ total \in Nat BY AmountAssumption DEF Typed, TypeOK
<1>3. row \in TicketRows BY <1>2, DraftTyped DEF Reqs
<1>4. Triggered(t, FALSE, total, SumOf(ts)) \in [Tickets -> Nat]
  BY <1>1, TriggeredTyped DEF RowsTyped
<1>5. RowsTyped' BY <1>1, <1>3, <1>4, TicketRowTyped DEF InsertDraft
<1>. QED BY <1>5, FinishRows DEF InsertDraft

\* A read of compute_drawer adds one well formed sum to what was read.
LEMMA DrawerTyped ==
  ASSUME NEW d \in Drawers
  PROVE  /\ \A x \in PerTicket(TenderSums) : [d EXCEPT !.tendered = x] \in Drawers
         /\ \A x \in PerTicket(Nat) : [d EXCEPT !.change = x] \in Drawers
         /\ \A x \in Int : [d EXCEPT !.moved = x] \in Drawers
         /\ \A x \in PerTicket(Nat) : [d EXCEPT !.sales = x] \in Drawers
BY DEF Drawers

LEMMA DrawerNoted ==
  ASSUME NEW q \in Reqs, NEW d \in Drawers
  PROVE  [q EXCEPT !.drawer = d] \in Reqs
BY DEF Reqs

LEMMA CountTyped ==
  ASSUME Typed, NEW w \in Workers, NEW from, NEW to \in Counting, NEW seen \in Drawers,
         req[w].session \in Sessions, CloseCount(w, from, to, seen)
  PROVE  Typed'
<1>. DEFINE q == [req[w] EXCEPT !.drawer = seen]
<1>1. req[w] \in Reqs BY DEF Typed, TypeOK
<1>2. q \in Reqs BY <1>1, DrawerNoted, Zenon
<1>3. q.session \in Sessions BY <1>1 DEF Reqs
<1>4. req' = [req EXCEPT ![w] = q] BY DEF CloseCount
<1>5. RowsTyped' /\ LocksTyped'
  BY RowsTypedLemma, LocksTypedLemma, RowsUnchanged DEF CloseCount, locks, LocksTyped
<1>6. to \in PC \ WithTicket BY DEF Counting, PC, WithTicket, Holding
<1>. QED BY <1>2, <1>3, <1>4, <1>5, <1>6, StepTyped DEF CloseCount

\* A replay lands in an open session, or nowhere.
LEMMA ResolvedOpen ==
  ASSUME NEW own, NEW named, NEW rescue
  PROVE  ResolveForUpdate(own, named, rescue) # None
           => Open(ResolveForUpdate(own, named, rescue))
<1>1. \A x, r : SameRegisterOpen(x, r) # None
                  => Open(SameRegisterOpen(x, r)) /\ SameRegisterOpen(x, r) = x
  BY DEF SameRegisterOpen
<1>. QED BY <1>1 DEF ResolveForUpdate

\* A later statement writes well formed rows.
LEMMA RowKept ==
  ASSUME NEW row \in TicketRows, NEW status \in {"draft", "paid", "returned"},
         NEW billed \in Nat
  PROVE  /\ [row EXCEPT !.status = status] \in TicketRows
         /\ [row EXCEPT !.billed = billed] \in TicketRows
BY DEF TicketRows

LEMMA NextStatementTyped ==
  ASSUME Typed, NEW w \in Workers, Step(w)
  PROVE  Typed'
<1>. DEFINE t == req[w].ticket
            s == req[w].session
<1>. /\ RowsTyped /\ LocksTyped
     /\ UNCHANGED rows => RowsTyped'
     /\ req[w] \in Reqs
  BY RowsTypedLemma, LocksTypedLemma, RowsUnchanged DEF Typed, TypeOK
<1>1. CASE OpenInsert(w)
  <2>1. s \in Sessions BY <1>1, NamedRows DEF OpenInsert
  <2>2. [status |-> "open", register |-> req[w].register] \in SessionRows
    BY DEF SessionRows, Reqs
  <2>3. RowsTyped' BY <1>1, <2>1, <2>2 DEF OpenInsert, RowsTyped
  <2>. QED BY <1>1, <2>3, FinishRows DEF OpenInsert
<1>2. ASSUME NEW total \in Totals, RingInsert(w, total) PROVE Typed'
  <2>1. t \in Tickets BY <1>2, NamedRows DEF RingInsert
  <2>2. NoTenders \in TenderSums BY DEF NoTenders, TenderSums
  <2>. QED BY <1>2, <2>1, <2>2, InsertTyped DEF RingInsert
<1>3. ASSUME NEW total \in Totals, NEW ts \in Replayed, SyncCreateInsert(w, total, ts)
      PROVE  Typed'
  <2>1. t \in Tickets BY <1>3, NamedRows DEF SyncCreateInsert
  <2>2. ts \in TenderSums BY ReplayedTyped
  <2>. QED BY <1>3, <2>1, <2>2, InsertTyped DEF SyncCreateInsert
<1>4. ASSUME NEW m \in Methods, NEW a \in Amounts, TenderInsert(w, m, a) PROVE Typed'
  <2>. DEFINE ts == [NoTenders EXCEPT ![m] = a]
              q == [req[w] EXCEPT !.session = ticket[t].session,
                                  !.tender = ts, !.amount = Paid(t) + a]
  <2>1. t \in Tickets BY <1>4, NamedRows DEF TenderInsert, Goto
  <2>2. ticket[t].session \in Sessions BY <1>4 DEF TenderInsert, Open
  <2>3. a \in Nat BY AmountAssumption
  <2>4. ts \in TenderSums BY <2>3 DEF NoTenders, TenderSums
  <2>5. Paid(t) + a \in Nat BY <2>1, <2>3, SumTyped DEF Paid, RowsTyped
  <2>6. q \in Reqs BY <2>2, <2>4, <2>5, NotesTyped, Zenon
  <2>7. req' = [req EXCEPT ![w] = q] BY <1>4 DEF TenderInsert
  <2>8. LocksTyped' BY <1>4, ShareTyped DEF TenderInsert
  <2>9. q.session \in Sessions /\ q.ticket \in Tickets BY <2>1, <2>2 DEF Reqs
  <2>10. Goto(w, "tender_locked", "tender_inserted") /\ UNCHANGED rows
    BY <1>4 DEF TenderInsert
  <2>11. "tender_inserted" \in PC BY DEF PC
  <2>. HIDE DEF q
  <2>. QED BY <2>6, <2>7, <2>8, <2>9, <2>10, <2>11, StepTyped
<1>5. CASE TenderCommit(w)
  <2>. DEFINE total == ticket[t].total
              paid == req[w].amount
              after == [m \in Methods |-> tenders[t][m] + req[w].tender[m]]
              row == [ticket[t] EXCEPT !.paid = paid, !.change = ChangeOf(paid, total)]
  <2>1. t \in Tickets BY <1>5, NamedRows DEF TenderCommit
  <2>2. ticket[t] \in TicketRows /\ tenders[t] \in TenderSums BY <2>1 DEF RowsTyped
  <2>3. paid \in Nat /\ total \in Nat /\ req[w].tender \in TenderSums
    BY <2>2 DEF Reqs, TicketRows
  <2>4. ChangeOf(paid, total) \in Nat BY <2>3, ChangeTyped
  <2>5. row \in TicketRows BY <2>2, <2>3, <2>4 DEF TicketRows
  <2>6. after \in TenderSums BY <2>2, <2>3 DEF TenderSums
  <2>7. triggers' \in [Tickets -> Nat] BY <1>5, <2>1 DEF TenderCommit, RowsTyped
  <2>8. ticket' = [ticket EXCEPT ![t] = row] BY <1>5 DEF TenderCommit
  <2>9. tenders' = [tenders EXCEPT ![t] = after] BY <1>5 DEF TenderCommit
  <2>. HIDE DEF row, after
  <2>10. RowsTyped'
    BY <1>5, <2>1, <2>5, <2>6, <2>7, <2>8, <2>9, TicketRowTyped DEF TenderCommit
  <2>. QED BY <1>5, <2>10, FinishRows DEF TenderCommit
<1>6. ASSUME NEW named \in Sessions, NEW rescue \in Sessions \cup {None},
             NEW tb \in Tables \cup {None}, RewriteSession(w, named, rescue, tb)
      PROVE  Typed'
  <2>. DEFINE own == ticket[t].session
              target == ResolveForUpdate(own, named, rescue)
              q == [req[w] EXCEPT !.session = target, !.table = tb]
  <2>1. t \in Tickets BY <1>6, NamedRows DEF RewriteSession, Goto
  <2>2. target \in Sessions BY <1>6, ResolvedOpen DEF RewriteSession, Open
  <2>3. q \in Reqs BY <2>2, NotesTyped, Zenon
  <2>4. req' = [req EXCEPT ![w] = q] BY <1>6 DEF RewriteSession
  <2>5. LocksTyped' BY <1>6, ShareTyped DEF RewriteSession
  <2>6. q.session \in Sessions /\ q.ticket \in Tickets BY <2>1, <2>2 DEF Reqs
  <2>7. Goto(w, "rewrite_locked", "rewriting") /\ UNCHANGED rows
    BY <1>6 DEF RewriteSession
  <2>8. "rewriting" \in PC BY DEF PC
  <2>. HIDE DEF q
  <2>. QED BY <2>3, <2>4, <2>5, <2>6, <2>7, <2>8, StepTyped
<1>7. ASSUME NEW total \in Totals, NEW ts \in Replayed, RewriteCommit(w, total, ts)
      PROVE  Typed'
  <2>. DEFINE draft == Draft(s, req[w].table, total, ts)
              row == [draft EXCEPT !.billed = ticket[t].billed]
  <2>1. t \in Tickets BY <1>7, NamedRows DEF RewriteCommit
  <2>2. ts \in TenderSums /\ total \in Nat BY ReplayedTyped, AmountAssumption
  <2>3. draft \in TicketRows BY <2>2, DraftTyped DEF Reqs
  <2>4. ticket[t] \in TicketRows BY <2>1 DEF RowsTyped
  <2>5. row \in TicketRows BY <2>3, <2>4 DEF TicketRows
  <2>6. Triggered(t, req[w].full, total, SumOf(ts)) \in [Tickets -> Nat]
    BY <2>1, TriggeredTyped DEF RowsTyped
  <2>7. RowsTyped' BY <1>7, <2>1, <2>2, <2>5, <2>6, TicketRowTyped DEF RewriteCommit
  <2>. QED BY <1>7, <2>7, FinishRows DEF RewriteCommit
<1>8. ASSUME NEW delta \in Int, MovementCommit(w, delta) PROVE Typed'
  <2>1. s \in Sessions BY <1>8, NamedRows DEF MovementCommit
  <2>2. RowsTyped' BY <1>8, <2>1 DEF MovementCommit, RowsTyped
  <2>. QED BY <1>8, <2>2, FinishRows DEF MovementCommit
<1>9. CASE RecognizeLink(w)
  <2>. DEFINE row == [ticket[t] EXCEPT !.billed = req[w].amount]
  <2>1. t \in Tickets BY <1>9, NamedRows DEF RecognizeLink, Goto
  <2>2. ticket[t] \in TicketRows BY <2>1 DEF RowsTyped
  <2>8. row \in TicketRows BY <2>2, RowKept DEF Reqs
  <2>3. ticket' = [ticket EXCEPT ![t] = row] BY <1>9 DEF RecognizeLink
  <2>4. RowsTyped' BY <1>9, <2>1, <2>8, <2>3 DEF RecognizeLink, RowsTyped
  <2>5. LocksTyped' BY <1>9 DEF RecognizeLink, locks, LocksTyped
  <2>6. req' = [req EXCEPT ![w] = req[w]] BY <1>9 DEF RecognizeLink, Typed, TypeOK
  <2>7. "linked" \in PC \ WithSession
    BY DEF PC, WithSession, Sharing, Closing, Counting
  <2>. QED BY <1>9, <2>1, <2>4, <2>5, <2>6, <2>7, StepTyped DEF RecognizeLink
<1>10. CASE RecognizePaid(w)
  <2>1. t \in Tickets BY <1>10, NamedRows DEF RecognizePaid
  <2>4. ticket[t] \in TicketRows BY <2>1 DEF RowsTyped
  <2>2. [ticket[t] EXCEPT !.status = "paid"] \in TicketRows BY <2>4, RowKept
  <2>3. RowsTyped' BY <1>10, <2>1, <2>2 DEF RecognizePaid, RowsTyped
  <2>. QED BY <1>10, <2>3, FinishRows DEF RecognizePaid
<1>11. CASE ReturnInsert(w)
  <2>1. t \in Tickets BY <1>11, NamedRows DEF ReturnInsert
  <2>4. ticket[t] \in TicketRows BY <2>1 DEF RowsTyped
  <2>2. [ticket[t] EXCEPT !.status = "returned"] \in TicketRows BY <2>4, RowKept
  <2>3. RowsTyped' BY <1>11, <2>1, <2>2 DEF ReturnInsert, RowsTyped
  <2>. QED BY <1>11, <2>3, FinishRows DEF ReturnInsert
<1>12. CASE CloseGuard(w)
  <2>1. s \in Sessions BY <1>12, NamedRows DEF CloseGuard, Goto
  <2>2. req' = [req EXCEPT ![w] = req[w]] BY <1>12 DEF CloseGuard, Typed, TypeOK
  <2>3. LocksTyped' BY <1>12 DEF CloseGuard, locks, LocksTyped
  <2>4. "count_tenders" \in PC \ WithTicket BY DEF PC, WithTicket, Holding
  <2>. QED BY <1>12, <2>1, <2>2, <2>3, <2>4, StepTyped DEF CloseGuard
<1>13. ASSUME Typed, CountTenders(w) \/ CountChange(w) \/ CountMoves(w) \/ CountSales(w)
       PROVE  Typed'
  <2>1. s \in Sessions
    BY <1>13, NamedRows
    DEF CountTenders, CountChange, CountMoves, CountSales, CloseCount, Goto, Counting
  <2>2. req[w].drawer \in Drawers /\ NoDrawer \in Drawers
    BY NoReqTyped DEF Reqs, NoReq
  <2>3. TenderedIn(s) \in PerTicket(TenderSums)
    BY PaidRowsTyped DEF RowsTyped, TenderedIn
  <2>4. [u \in Tickets |-> ticket[u].change] \in [Tickets -> Nat]
        /\ [u \in Tickets |-> ticket[u].total] \in [Tickets -> Nat]
    BY DEF RowsTyped, TicketRows
  <2>5. ChangeGiven(s) \in PerTicket(Nat) /\ SalesIn(s) \in PerTicket(Nat)
    BY <2>4, PaidRowsTyped DEF ChangeGiven, SalesIn
  <2>6. movements[s] \in Int BY <2>1 DEF RowsTyped
  <2>7. /\ [NoDrawer EXCEPT !.tendered = TenderedIn(s)] \in Drawers
        /\ [req[w].drawer EXCEPT !.change = ChangeGiven(s)] \in Drawers
        /\ [req[w].drawer EXCEPT !.moved = movements[s]] \in Drawers
        /\ [req[w].drawer EXCEPT !.sales = SalesIn(s)] \in Drawers
    BY <2>2, <2>3, <2>5, <2>6, DrawerTyped, Zenon
  <2>8. {"count_change", "count_moves", "count_sales", "counted"} \subseteq Counting
    BY DEF Counting
  <2>. QED
    BY <1>13, <2>1, <2>7, <2>8, CountTyped
    DEF CountTenders, CountChange, CountMoves, CountSales
<1>14. CASE CloseCommit(w)
  <2>1. s \in Sessions BY <1>14, NamedRows DEF CloseCommit, Counting
  <2>2. [session[s] EXCEPT !.status = "closed"] \in SessionRows
    BY <2>1 DEF RowsTyped, SessionRows
  <2>3. req[w].drawer \in Drawers BY DEF Reqs
  <2>4. RowsTyped' BY <1>14, <2>1, <2>2, <2>3 DEF CloseCommit, RowsTyped
  <2>. QED BY <1>14, <2>4, FinishRows DEF CloseCommit
<1>15. CASE Refuse(w) BY <1>15, FinishRows DEF Refuse
<1>16. ASSUME NEW a \in Amounts PROVE a \in Int /\ -a \in Int BY AmountAssumption
<1>. QED
  BY <1>1, <1>2, <1>3, <1>4, <1>5, <1>6, <1>7, <1>8, <1>9, <1>10, <1>11, <1>12,
     <1>13, <1>14, <1>15, <1>16 DEF Step

LEMMA InitTyped == Init => Typed
<1>. SUFFICES ASSUME Init PROVE Typed OBVIOUS
<1>1. NoSessionRow \in SessionRows BY DEF NoSessionRow, SessionRows
<1>2. NoTicketRow \in TicketRows BY DEF NoTicketRow, TicketRows
<1>3. NoTenders \in TenderSums BY DEF NoTenders, TenderSums
<1>4. TypeOK BY <1>1, <1>2, <1>3, NoReqTyped DEF Init, TypeOK, PC
<1>5. \A w \in Workers : pc[w] = "idle" BY DEF Init
<1>6. RequestsNameRows
  BY <1>5 DEF RequestsNameRows, WithSession, WithTicket, Sharing, Closing, Counting, Holding
<1>. QED BY <1>4, <1>6 DEF Typed

LEMMA StutterTyped == ASSUME Typed, UNCHANGED vars PROVE Typed'
BY DEF Typed, TypeOK, RequestsNameRows, vars

LEMMA TypedStep == Typed /\ [Next]_vars => Typed'
<1>. SUFFICES ASSUME Typed, [Next]_vars PROVE Typed' OBVIOUS
<1>1. CASE UNCHANGED vars BY <1>1, StutterTyped
<1>2. ASSUME NEW w \in Workers, Abort(w) PROVE Typed'
  BY <1>2, RowsTypedLemma, RowsUnchanged, FinishRows DEF Abort
<1>. QED BY <1>1, <1>2, BeginTyped, NextStatementTyped DEF Next

\* Rows, locks and requests keep their shape, for any number of each: in particular a
\* request past its first statement always names the rows it works on.
THEOREM TypeCorrect == Spec => []TypeOK
<1>1. Spec => []Typed BY InitTyped, TypedStep, PTL DEF Spec
<1>. QED BY <1>1, PTL DEF Typed

=============================================================================
