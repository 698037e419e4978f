------------------------ MODULE PosCounterRowsProofs ------------------------
(***************************************************************************)
(* Proofs of what the committed rows of a till keep: the indexes of the    *)
(* open sessions and the seated drafts, the rest of a closed session, and  *)
(* the drawer of a closing entry.  They build on ReadsInv: a step changes  *)
(* a session or a ticket only as SessionWritten and TicketWritten say, and *)
(* what its request has read of them still holds.                          *)
(***************************************************************************)
EXTENDS PosCounterSafetyProofs

\* A register gets an open session only while it has none, and no session reopens.
LEMMA SlotsStep ==
  ASSUME ReadsInv, OneOpenSessionPerRegister, NEW w \in Workers, Busy(w)
  PROVE  OneOpenSessionPerRegister'
<1>1. SUFFICES ASSUME NEW a \in Sessions, NEW b \in Sessions, a # b,
                      session'[a].status = "open", session'[b].status = "open"
               PROVE  session'[a].register # session'[b].register
  BY DEF OneOpenSessionPerRegister
<1>2. ASSUME NEW s \in Sessions, session'[s].status = "open"
      PROVE  \/ session'[s] = session[s]
             \/ /\ s = req[w].session /\ session'[s].register = req[w].register
                /\ ~HasOpenSession(req[w].register)
  <2>1. SessionWritten(w, s) BY SessionWrites DEF ReadsInv
  <2>2. session[s] \in SessionRows BY DEF ReadsInv, Typed, TypeOK
  <2>. QED BY <1>2, <2>1, <2>2 DEF SessionWritten, SlotIsFree, SessionRows
<1>3. CASE session'[a] = session[a] /\ session'[b] = session[b]
  BY <1>1, <1>3 DEF OneOpenSessionPerRegister
<1>4. CASE session'[a] # session[a] \/ session'[b] # session[b]
  BY <1>1, <1>2, <1>4 DEF HasOpenSession
<1>. QED BY <1>3, <1>4

\* However many requests race to open a register, one session is open on it.
THEOREM OneOpenSession == Spec => []OneOpenSessionPerRegister
<1>1. Init => OneOpenSessionPerRegister
  BY DEF Init, NoSessionRow, OneOpenSessionPerRegister
<1>2. ReadsInv /\ OneOpenSessionPerRegister /\ [Next]_vars => OneOpenSessionPerRegister'
  BY SlotsStep DEF Next, Busy, vars, OneOpenSessionPerRegister
<1>. QED BY <1>1, <1>2, ReadsInvariant, PTL DEF Spec

----------------------------------------------------------------------------
\* A draft comes to a table only while no other draft is there.
Seated(w, t, tb) ==
  t \in DraftsOnTable(tb) \/ (t = req[w].ticket /\ DraftsOnTable(tb) \subseteq {t})

LEMMA DraftsSeated ==
  ASSUME Typed, NEW w \in Workers, Busy(w), NEW t \in Tickets, NEW tb \in Tables,
         t \in DraftsOnTable(tb)'
  PROVE  Seated(w, t, tb)
<1>. /\ ticket \in [Tickets -> TicketRows] /\ ticket[t] \in TicketRows /\ tb # None
     /\ ticket'[t].table = tb /\ ticket'[t].status = "draft"
  BY NoneAssumption DEF Typed, TypeOK, DraftsOnTable
<1>1. CASE ticket'[t].table = ticket[t].table /\ ticket[t].status = "draft"
  BY <1>1 DEF DraftsOnTable, Seated
<1>2. ASSUME NEW total \in Totals, NEW ts \in TenderSums,
             pc[w] \in {"ringing", "replaying"}, InsertDraft(w, total, ts)
      PROVE  Seated(w, t, tb)
  <2>1. CASE t = req[w].ticket
    BY <1>2, <2>1 DEF InsertDraft, Draft, TableIsFree, Seated
  <2>2. CASE t # req[w].ticket
    BY <1>1, <1>2, <2>2 DEF InsertDraft
  <2>. QED BY <2>1, <2>2
<1>3. ASSUME NEW total \in Totals, NEW ts \in Replayed, RewriteCommit(w, total, ts)
      PROVE  Seated(w, t, tb)
  <2>1. CASE t = req[w].ticket
    BY <1>3, <2>1 DEF RewriteCommit, Draft, TableIsFree, Seated
  <2>2. CASE t # req[w].ticket
    BY <1>1, <1>3, <2>2 DEF RewriteCommit
  <2>. QED BY <2>1, <2>2
<1>4. TenderCommit(w) \/ RecognizeLink(w) \/ RecognizePaid(w) \/ ReturnInsert(w)
        => ticket'[t].table = ticket[t].table /\ ticket[t].status = "draft"
  <2>1. TenderCommit(w) => ticket'[t].table = ticket[t].table /\ ticket[t].status = "draft"
    BY SMTT(30) DEF TenderCommit, TicketRows
  <2>2. RecognizeLink(w) \/ RecognizePaid(w)
          => ticket'[t].table = ticket[t].table /\ ticket[t].status = "draft"
    BY SMTT(30) DEF RecognizeLink, RecognizePaid, TicketRows
  <2>3. ReturnInsert(w) => ticket'[t].table = ticket[t].table /\ ticket[t].status = "draft"
    BY SMTT(30) DEF ReturnInsert, TicketRows
  <2>. QED BY <2>1, <2>2, <2>3
<1>5. UNCHANGED rows \/ OpenInsert(w) \/ CloseCommit(w)
        \/ (\E delta \in Int : MovementCommit(w, delta)) => ticket' = ticket
  BY DEF rows, OpenInsert, CloseCommit, MovementCommit
<1>6. CASE \/ UNCHANGED rows \/ OpenInsert(w) \/ CloseCommit(w)
            \/ \E delta \in Int : MovementCommit(w, delta)
  <2>1. ticket'[t] = ticket[t] BY <1>5, <1>6
  <2>. QED BY <1>1, <2>1
<1>7. CASE TenderCommit(w) \/ RecognizeLink(w) \/ RecognizePaid(w) \/ ReturnInsert(w)
  BY <1>1, <1>4, <1>7
<1>. QED BY Zenon, Writers, <1>2, <1>3, <1>6, <1>7

LEMMA TablesStep ==
  ASSUME ReadsInv, OneDraftPerTable, NEW w \in Workers, Busy(w)
  PROVE  OneDraftPerTable'
<1>1. SUFFICES ASSUME NEW tb \in Tables, NEW a \in DraftsOnTable(tb)',
                      NEW b \in DraftsOnTable(tb)'
               PROVE  a = b
  BY DEF OneDraftPerTable
<1>2. a \in Tickets /\ b \in Tickets BY DEF DraftsOnTable
<1>3. Seated(w, a, tb) /\ Seated(w, b, tb) BY <1>2, DraftsSeated DEF ReadsInv
<1>. QED BY <1>3 DEF Seated, OneDraftPerTable

\* However many rings and replays race for a table, one draft sits at it.
THEOREM OneDraft == Spec => []OneDraftPerTable
<1>1. Init => OneDraftPerTable
  BY DEF Init, NoTicketRow, OneDraftPerTable, DraftsOnTable
<1>2. ReadsInv /\ OneDraftPerTable /\ [Next]_vars => OneDraftPerTable'
  BY TablesStep DEF Next, Busy, vars, OneDraftPerTable, DraftsOnTable
<1>. QED BY <1>1, <1>2, ReadsInvariant, PTL DEF Spec

----------------------------------------------------------------------------
\* What a step does to the cash and the closing entry of a session.
LEMMA CashWrites ==
  ASSUME Typed, NEW w \in Workers, Busy(w), NEW s \in Sessions
  PROVE  /\ movements'[s] = movements[s] \/ (pc[w] = "moving" /\ s = req[w].session)
         /\ closing'[s] = closing[s] \/ (pc[w] = "counted" /\ s = req[w].session)
<1>. movements \in [Sessions -> Int] /\ closing \in [Sessions -> Drawers \cup {None}]
  BY DEF Typed, TypeOK
<1>1. CASE CloseCommit(w) BY <1>1 DEF CloseCommit
<1>2. ASSUME NEW delta \in Int, MovementCommit(w, delta)
      PROVE  /\ movements'[s] = movements[s] \/ (pc[w] = "moving" /\ s = req[w].session)
             /\ closing' = closing
  BY <1>2 DEF MovementCommit
<1>3. CASE UNCHANGED <<movements, closing>> BY <1>3
<1>. QED
  BY <1>1, <1>2, <1>3, Writers
  DEF rows, OpenInsert, InsertDraft, TenderCommit, RewriteCommit,
      RecognizeLink, RecognizePaid, ReturnInsert

\* What rests when a session rests.
Frozen(s) ==
  /\ session'[s] = session[s] /\ closing'[s] = closing[s] /\ movements'[s] = movements[s]
  /\ \A t \in Tickets : ticket'[t].session = s =>
       /\ tenders'[t] = tenders[t]
       /\ ticket'[t] \in {ticket[t], [ticket[t] EXCEPT !.status = "returned"]}

LEMMA ClosedRests ==
  ASSUME ReadsInv, NEW w \in Workers, Busy(w), NEW s \in Sessions,
         session[s].status = "closed"
  PROVE  Frozen(s)
<1>. /\ Typed /\ OwnIds(w) /\ OwnReads(w)
     /\ ticket \in [Tickets -> TicketRows] /\ session \in [Sessions -> SessionRows]
  BY ReadsAreOwnReads DEF ReadsInv, Typed, TypeOK
<1>1. pc[w] \in Sharing \cup Closing => req[w].session # s BY DEF OwnReads
<1>2. session'[s] = session[s]
  BY <1>1, SessionWrites DEF SessionWritten, OwnIds, Closing, Counting
<1>3. closing'[s] = closing[s] /\ movements'[s] = movements[s]
  BY <1>1, CashWrites DEF Sharing, Closing, Counting
<1>4. ASSUME NEW t \in Tickets, ticket'[t].session = s
      PROVE  /\ tenders'[t] = tenders[t]
             /\ ticket'[t] \in {ticket[t], [ticket[t] EXCEPT !.status = "returned"]}
  <2>1. ticket[t] \in TicketRows OBVIOUS
  <2>2. ticket[t].status = "draft" => ticket[t].session # s
    BY DEF ReadsInv, NoDraftInClosedSession
  <2>3. pc[w] \in {"ringing", "replaying", "tender_inserted", "rewriting"} => req[w].session # s
    BY <1>1 DEF Sharing
  <2>4. pc[w] = "tender_inserted" => req[w].session = ticket[req[w].ticket].session
    BY DEF OwnReads
  <2>5. TicketWritten(w, t) BY TicketWrites
  <2>6. CASE ticket'[t] = ticket[t] /\ tenders'[t] = tenders[t] BY <2>6
  <2>7. CASE ticket'[t] = [ticket[t] EXCEPT !.status = "returned"] /\ tenders'[t] = tenders[t]
    BY <2>7
  <2>8. CASE /\ ticket[t].status = "draft"
             /\ \/ ticket'[t] = [ticket[t] EXCEPT !.billed = req[w].amount]
                \/ ticket'[t] = [ticket[t] EXCEPT !.status = "paid"]
    <3>1. ticket'[t].session = ticket[t].session BY <2>1, <2>8 DEF TicketRows
    <3>. QED BY <1>4, <2>2, <2>8, <3>1
  <2>. QED BY <1>4, <2>3, <2>4, <2>5, <2>6, <2>7, <2>8 DEF TicketWritten
<1>. QED BY <1>2, <1>3, <1>4 DEF Frozen

\* Nothing is written to a closed session but the return of a paid ticket.
THEOREM ClosedStaysClosed == Spec => ClosedSessionIsFrozen
<1>1. ASSUME ReadsInv, [Next]_vars, NEW s \in Sessions, session[s].status = "closed"
      PROVE  Frozen(s)
  <2>1. CASE UNCHANGED vars BY <2>1 DEF vars, Frozen
  <2>2. CASE Next BY <1>1, <2>2, ClosedRests DEF Next, Busy
  <2>. QED BY <1>1, <2>1, <2>2
<1>2. ReadsInv /\ [Next]_vars =>
        [\A s \in Sessions : session[s].status = "closed" =>
           /\ session'[s] = session[s] /\ closing'[s] = closing[s]
           /\ movements'[s] = movements[s]
           /\ \A t \in Tickets : ticket'[t].session = s =>
                /\ tenders'[t] = tenders[t]
                /\ ticket'[t] \in {ticket[t], [ticket[t] EXCEPT !.status = "returned"]}]_rows
  BY <1>1 DEF Frozen
<1>. QED BY <1>2, ReadsInvariant, PTL DEF Spec, ClosedSessionIsFrozen

----------------------------------------------------------------------------
\* The sums a close has read, request by request.
OwnCounts(w) ==
  LET s == req[w].session  seen == req[w].drawer IN
  /\ pc[w] \in Counting \ {"count_tenders"} => seen.tendered = TenderedIn(s)
  /\ pc[w] \in {"count_moves", "count_sales", "counted"} => seen.change = ChangeGiven(s)
  /\ pc[w] \in {"count_sales", "counted"} => seen.moved = movements[s]
  /\ pc[w] = "counted" => seen.sales = SalesIn(s)

SameDrawer(s) ==
  /\ TenderedIn(s)' = TenderedIn(s) /\ ChangeGiven(s)' = ChangeGiven(s)
  /\ SalesIn(s)' = SalesIn(s) /\ movements'[s] = movements[s]

\* While a close counts a session, its paid tickets and its cash rest.
LEMMA DrawerRests ==
  ASSUME ReadsInv, NEW w \in Workers, Busy(w), NEW v \in Workers, pc[v] \in Counting,
         NEW s \in Sessions, s = req[v].session
  PROVE  SameDrawer(s)
<1>. /\ Typed /\ OwnIds(w) /\ OwnReads(w) /\ OwnReads(v) /\ OwnLocks(v) /\ OwnLocks(w)
     /\ ExclusionHolds /\ v # None
     /\ ticket \in [Tickets -> TicketRows]
  BY ReadsAreOwnReads, LocksAreOwnLocks, NoneAssumption DEF ReadsInv, Typed, TypeOK
<1>1. sessExcl[s] = v /\ sessShare[s] = {} BY DEF OwnLocks, ExclusionHolds, Closing
<1>2. TicketsOf(s, "draft") = {} BY DEF OwnReads
<1>3. movements'[s] = movements[s]
  BY <1>1, CashWrites DEF OwnLocks, Sharing
<1>4. ASSUME NEW t \in Tickets
      PROVE  /\ t \in TicketsOf(s, "paid")' <=> t \in TicketsOf(s, "paid")
             /\ t \in TicketsOf(s, "paid") =>
                  ticket'[t] = ticket[t] /\ tenders'[t] = tenders[t]
  <2>1. ticket[t] \in TicketRows OBVIOUS
  <2>2. TicketWritten(w, t) BY TicketWrites
  <2>3. CASE ticket'[t] = ticket[t] /\ tenders'[t] = tenders[t] BY <2>3 DEF TicketsOf
  <2>4. CASE ticket[t].status # "paid" /\ ticket'[t].status # "paid" BY <2>4 DEF TicketsOf
  <2>5. CASE ticket[t].session # s /\ ticket'[t].session # s BY <2>5 DEF TicketsOf
  <2>6. pc[w] \in {"ringing", "replaying"} => ticket[req[w].ticket].status = "none"
    BY DEF OwnIds
  <2>7. pc[w] \in {"tender_inserted", "rewriting"} => ticket[req[w].ticket].status = "draft"
    BY DEF OwnReads, Holding
  <2>8. CASE /\ ticket[t].status = "draft"
             /\ \/ ticket'[t] = [ticket[t] EXCEPT !.billed = req[w].amount]
                \/ ticket'[t] = [ticket[t] EXCEPT !.status = "paid"]
    <3>1. ticket'[t].session = ticket[t].session BY <2>1, <2>8 DEF TicketRows
    <3>2. ticket[t].session # s BY <1>2, <2>8 DEF TicketsOf
    <3>. QED BY <2>5, <3>1, <3>2
  <2>9. CASE /\ sessExcl[ticket[t].session] = None
             /\ ticket'[t] = [ticket[t] EXCEPT !.status = "returned"]
    <3>1. ticket'[t].session = ticket[t].session BY <2>1, <2>9 DEF TicketRows
    <3>. QED BY <1>1, <2>5, <2>9, <3>1
  <2>. QED BY <2>2, <2>3, <2>4, <2>6, <2>7, <2>8, <2>9 DEF TicketWritten
<1>5. TenderedIn(s)' = TenderedIn(s) BY <1>4 DEF TenderedIn, PaidRows
<1>6. ChangeGiven(s)' = ChangeGiven(s) /\ SalesIn(s)' = SalesIn(s)
  BY <1>4 DEF ChangeGiven, SalesIn, PaidRows
<1>. QED BY <1>3, <1>5, <1>6 DEF SameDrawer

\* What a request adds to its own counts.
LEMMA OwnCountsStep ==
  ASSUME ReadsInv, NEW w \in Workers, Busy(w), OwnCounts(w)
  PROVE  OwnCounts(w)'
<1>. Typed /\ req[w] \in Reqs BY DEF ReadsInv, Typed, TypeOK
<1>1. ASSUME NEW from, NEW to, Goto(w, from, to), to \notin Counting \ {"count_tenders"}
      PROVE  OwnCounts(w)'
  BY <1>1 DEF Typed, TypeOK, Goto, OwnCounts, Counting
<1>2. CASE Ending(w)
  <2>1. pc'[w] = "idle" BY <1>2, EndingFinishes DEF Typed, TypeOK, Finish
  <2>. QED BY <2>1 DEF OwnCounts, Counting
<1>3. CASE Begin(w)
  <2>. DEFINE Elsewhere == pc'[w] \notin Counting
  <2>0. \A to : Goto(w, "idle", to) /\ to \notin Counting => Elsewhere
    BY DEF Goto, Typed, TypeOK
  <2>. USE <2>0 DEF Counting
  <2>. HIDE DEF Elsewhere
  <2>1. \A r, s : OpenRead(w, r, s) => Elsewhere BY DEF OpenRead
  <2>2. \A s, t, tb : RingBegin(w, s, t, tb) => Elsewhere BY DEF RingBegin
  <2>3. \A named, rescue, r, t, tb :
          SyncCreateBegin(w, named, rescue, r, t, tb) => Elsewhere
    BY DEF SyncCreateBegin
  <2>4. \A t : TenderLock(w, t) \/ RewriteLock(w, t) \/ RecognizeFetch(w, t) \/ ReturnFlip(w, t)
          => Elsewhere
    BY DEF TenderLock, RewriteLock, RecognizeFetch, ReturnFlip
  <2>5. \A s : MovementLock(w, s) \/ CloseBegin(w, s) => Elsewhere
    BY DEF MovementLock, CloseBegin
  <2>6. Elsewhere BY <1>3, <2>1, <2>2, <2>3, <2>4, <2>5, Zenon DEF Begin
  <2>. QED BY <2>6 DEF Elsewhere, OwnCounts
<1>4. ASSUME NEW m \in Methods, NEW a \in Amounts, TenderInsert(w, m, a) PROVE OwnCounts(w)'
  BY <1>1, <1>4 DEF TenderInsert, Counting
<1>5. ASSUME NEW named \in Sessions, NEW rescue \in Sessions \cup {None},
             NEW tb \in Tables \cup {None}, RewriteSession(w, named, rescue, tb)
      PROVE  OwnCounts(w)'
  BY <1>1, <1>5 DEF RewriteSession, Counting
<1>6. CASE RecognizeLink(w) \/ CloseGuard(w)
  BY <1>1, <1>6 DEF RecognizeLink, CloseGuard, Counting
<1>7. ASSUME NEW from \in Counting, NEW to \in Counting, NEW seen \in Drawers,
             CloseCount(w, from, to, seen)
      PROVE  /\ pc[w] = from /\ pc'[w] = to /\ req'[w].session = req[w].session
             /\ req'[w].drawer = seen
             /\ UNCHANGED <<ticket, tenders, movements>>
  BY <1>7 DEF Typed, TypeOK, CloseCount, Goto, Reqs, rows
<1>8. ASSUME UNCHANGED <<ticket, tenders, movements>>, NEW s PROVE SameDrawer(s)
  BY <1>8 DEF SameDrawer, TenderedIn, ChangeGiven, SalesIn, PaidRows, TicketsOf
<1>9. PICK s : s = req[w].session OBVIOUS
<1>10. /\ TenderedIn(s) \in PerTicket(TenderSums) /\ ChangeGiven(s) \in PerTicket(Nat)
       /\ SalesIn(s) \in PerTicket(Nat)
  <2>1. /\ tenders \in [Tickets -> TenderSums]
        /\ [t \in Tickets |-> ticket[t].change] \in [Tickets -> Nat]
        /\ [t \in Tickets |-> ticket[t].total] \in [Tickets -> Nat]
    BY DEF Typed, TypeOK, TicketRows
  <2>. QED BY <2>1, PaidRowsTyped DEF TenderedIn, ChangeGiven, SalesIn
<1>11. CASE CountTenders(w)
  <2>. DEFINE seen == [NoDrawer EXCEPT !.tendered = TenderedIn(s)]
  <2>1. seen \in Drawers /\ seen.tendered = TenderedIn(s)
    BY <1>10 DEF NoDrawer, NoRows, Drawers, PerTicket
  <2>2. CloseCount(w, "count_tenders", "count_change", seen) BY <1>9, <1>11 DEF CountTenders
  <2>. HIDE DEF seen
  <2>. QED BY <1>7, <1>8, <1>9, <2>1, <2>2 DEF OwnCounts, SameDrawer, Counting
<1>12. CASE CountChange(w)
  <2>. DEFINE seen == [req[w].drawer EXCEPT !.change = ChangeGiven(s)]
  <2>1. /\ seen \in Drawers /\ seen.change = ChangeGiven(s)
        /\ seen.tendered = req[w].drawer.tendered
    BY <1>10 DEF Reqs, Drawers
  <2>2. CloseCount(w, "count_change", "count_moves", seen) BY <1>9, <1>12 DEF CountChange
  <2>. HIDE DEF seen
  <2>. QED BY <1>7, <1>8, <1>9, <2>1, <2>2 DEF OwnCounts, SameDrawer, Counting
<1>13. CASE CountMoves(w)
  <2>. DEFINE seen == [req[w].drawer EXCEPT !.moved = movements[s]]
  <2>0. s \in Sessions BY <1>9, <1>13, NamedRows DEF CountMoves, CloseCount, Goto, Counting
  <2>1. /\ seen \in Drawers /\ seen.moved = movements[s]
        /\ seen.tendered = req[w].drawer.tendered /\ seen.change = req[w].drawer.change
    BY <2>0 DEF Reqs, Drawers, Typed, TypeOK
  <2>2. CloseCount(w, "count_moves", "count_sales", seen) BY <1>9, <1>13 DEF CountMoves
  <2>. HIDE DEF seen
  <2>. QED BY <1>7, <1>8, <1>9, <2>1, <2>2 DEF OwnCounts, SameDrawer, Counting
<1>14. CASE CountSales(w)
  <2>. DEFINE seen == [req[w].drawer EXCEPT !.sales = SalesIn(s)]
  <2>1. /\ seen \in Drawers /\ seen.sales = SalesIn(s)
        /\ seen.tendered = req[w].drawer.tendered /\ seen.change = req[w].drawer.change
        /\ seen.moved = req[w].drawer.moved
    BY <1>10 DEF Reqs, Drawers
  <2>2. CloseCount(w, "count_sales", "counted", seen) BY <1>9, <1>14 DEF CountSales
  <2>. HIDE DEF seen
  <2>. QED BY <1>7, <1>8, <1>9, <2>1, <2>2 DEF OwnCounts, SameDrawer, Counting
<1>. QED
  BY <1>2, <1>3, <1>4, <1>5, <1>6, <1>11, <1>12, <1>13, <1>14, StepKinds DEF GoingOn

CountsInv == ReadsInv /\ CountsStillHold

LEMMA CountsAreOwnCounts == CountsStillHold <=> \A w \in Workers : OwnCounts(w)
BY DEF CountsStillHold, OwnCounts

\* Whatever other requests do, a sum a close has read is the sum it would read now.
LEMMA CountsInvariant == Spec => []CountsInv
<1>1. Init => CountsStillHold BY DEF Init, CountsStillHold, Counting
<1>2. ASSUME CountsInv, NEW w \in Workers, Busy(w) PROVE CountsStillHold'
  <2>1. OwnCounts(w)' BY <1>2, OwnCountsStep, CountsAreOwnCounts DEF CountsInv
  <2>2. ASSUME NEW v \in Workers \ {w} PROVE OwnCounts(v)'
    <3>1. pc'[v] = pc[v] /\ req'[v] = req[v]
      BY <1>2, StepKeeps DEF CountsInv, ReadsInv, OthersKept
    <3>2. CASE pc[v] \notin Counting BY <3>1, <3>2 DEF OwnCounts, Counting
    <3>3. CASE pc[v] \in Counting
      <4>1. PICK s \in Sessions : s = req[v].session
        BY <3>3, NamedRows, <1>2 DEF CountsInv, ReadsInv
      <4>2. SameDrawer(s) BY <1>2, <3>3, <4>1, DrawerRests DEF CountsInv
      <4>3. OwnCounts(v) BY <1>2, CountsAreOwnCounts DEF CountsInv
      <4>. QED BY <3>1, <4>1, <4>2, <4>3 DEF OwnCounts, SameDrawer
    <3>. QED BY <3>2, <3>3
  <2>3. CountsStillHold' BY <2>1, <2>2 DEF CountsStillHold, OwnCounts
  <2>. QED BY <2>3
<1>3. CountsStillHold /\ UNCHANGED vars => CountsStillHold'
  BY DEF vars, CountsStillHold, TenderedIn, ChangeGiven, SalesIn, PaidRows, TicketsOf
<1>4. CountsInv /\ ReadsInv' /\ [Next]_vars => CountsInv'
  BY <1>2, <1>3 DEF CountsInv, Next, Busy
<1>. QED BY <1>1, <1>4, ReadsInvariant, PTL DEF Spec, CountsInv

\* The drawer a closing entry records is the drawer at the close.
THEOREM EntryIsDrawerAtClose == Spec => CloseRecordsTheDrawer
<1>1. ASSUME CountsInv, [Next]_vars, NEW s \in Sessions,
             session[s].status = "open", session'[s].status = "closed"
      PROVE  closing'[s] = DrawerOf(s)'
  <2>1. PICK w \in Workers : Busy(w) BY <1>1 DEF Next, Busy, vars
  <2>2. pc[w] = "counted" /\ s = req[w].session /\ closing'[s] = req[w].drawer
    <3>1. SessionWritten(w, s) BY <1>1, <2>1, SessionWrites DEF CountsInv, ReadsInv
    <3>. QED BY <1>1, <3>1 DEF SessionWritten
  <2>3. SameDrawer(s) BY <1>1, <2>1, <2>2, DrawerRests DEF CountsInv, Counting
  <2>4. OwnCounts(w) BY <1>1, CountsAreOwnCounts DEF CountsInv
  <2>5. req[w].drawer \in Drawers BY <1>1 DEF CountsInv, ReadsInv, Typed, TypeOK, Reqs
  <2>6. req[w].drawer = [tendered |-> TenderedIn(s), change |-> ChangeGiven(s),
                         moved |-> movements[s], sales |-> SalesIn(s)]
    BY <2>2, <2>4, <2>5 DEF OwnCounts, Drawers, Counting
  <2>. QED BY <2>2, <2>3, <2>6 DEF SameDrawer, DrawerOf
<1>2. CountsInv /\ [Next]_vars =>
        [\A s \in Sessions : (session[s].status = "open" /\ session'[s].status = "closed")
           => closing'[s] = DrawerOf(s)']_session
  BY <1>1
<1>. QED BY <1>2, CountsInvariant, PTL DEF Spec, CloseRecordsTheDrawer

----------------------------------------------------------------------------
\* The money of a header is that of the tenders, and other than cash they fit.
Fits(total, paid, change, ts) ==
  paid = SumOf(ts) /\ change = ChangeOf(SumOf(ts), total) /\ NonCashFits(ts, total)

MoneyFits(t) == Fits(ticket[t].total, ticket[t].paid, ticket[t].change, tenders[t])

LEMMA CashCoversChange ==
  ASSUME NEW total \in Nat, NEW ts \in TenderSums, NonCashFits(ts, total)
  PROVE  ChangeOf(SumOf(ts), total) <= ts["cash"]
<1>1. ts["cash"] \in Nat /\ ts["card"] \in Nat BY DEF TenderSums, Methods
<1>. QED BY <1>1 DEF NonCashFits, ChangeOf, SumOf

One(cond) == IF cond THEN 1 ELSE 0

\* What a step does to the money and the trigger of a ticket.
MoneyKept(t) ==
  /\ ticket'[t].total = ticket[t].total /\ ticket'[t].paid = ticket[t].paid
  /\ ticket'[t].change = ticket[t].change
  /\ tenders'[t] = tenders[t] /\ triggers'[t] = triggers[t]
  /\ ticket'[t].status = "none" => ticket[t].status = "none"

Replaced(w, t, wasFull, total, ts) ==
  /\ t = req[w].ticket
  /\ NonCashFits(ts, total)
  /\ ticket'[t].status = "draft" /\ ticket'[t].total = total
  /\ ticket'[t].paid = SumOf(ts) /\ ticket'[t].change = ChangeOf(SumOf(ts), total)
  /\ tenders'[t] = ts
  /\ triggers'[t] = triggers[t] + One(~wasFull /\ Full(total, SumOf(ts)))

Added(w, t) ==
  LET a == SumOf(req[w].tender)  paid == req[w].amount  total == ticket[t].total IN
  /\ pc[w] = "tender_inserted" /\ t = req[w].ticket
  /\ tenders'[t] = [m \in Methods |-> tenders[t][m] + req[w].tender[m]]
  /\ ticket'[t].status = ticket[t].status /\ ticket'[t].total = total
  /\ ticket'[t].paid = paid /\ ticket'[t].change = ChangeOf(paid, total)
  /\ triggers'[t] = triggers[t] + One(paid >= total /\ paid - a < total)

MoneyWritten(w, t) ==
  \/ MoneyKept(t)
  \/ /\ pc[w] \in {"ringing", "replaying"}
     /\ \E total \in Nat, ts \in TenderSums : Replaced(w, t, FALSE, total, ts)
  \/ Added(w, t)
  \/ /\ pc[w] = "rewriting"
     /\ \E total \in Nat, ts \in TenderSums : Replaced(w, t, req[w].full, total, ts)

LEMMA MoneyWrites ==
  ASSUME Typed, NEW w \in Workers, Busy(w), NEW t \in Tickets
  PROVE  MoneyWritten(w, t)
<1>. /\ ticket \in [Tickets -> TicketRows] /\ tenders \in [Tickets -> TenderSums]
     /\ triggers \in [Tickets -> Nat] /\ ticket[t] \in TicketRows
     /\ Totals \subseteq Nat
  BY AmountAssumption DEF Typed, TypeOK
<1>1. ASSUME NEW total \in Totals, NEW ts \in TenderSums,
             pc[w] \in {"ringing", "replaying"}, NonCashFits(ts, total),
             InsertDraft(w, total, ts)
      PROVE  MoneyWritten(w, t)
  <2>1. CASE t = req[w].ticket
    <3>1. Replaced(w, t, FALSE, total, ts)
      BY <1>1, <2>1 DEF InsertDraft, Draft, Triggered, Replaced, One
    <3>. QED BY <1>1, <3>1 DEF MoneyWritten
  <2>2. CASE t # req[w].ticket
    BY <1>1, <2>2 DEF InsertDraft, Triggered, MoneyKept, MoneyWritten
  <2>. QED BY <2>1, <2>2
<1>2. CASE TenderCommit(w)
  <2>. DEFINE row == [ticket[t] EXCEPT !.paid = req[w].amount,
                                       !.change = ChangeOf(req[w].amount, ticket[t].total)]
  <2>1. CASE t = req[w].ticket
    <3>1. ticket'[t] = row BY <1>2, <2>1 DEF TenderCommit
    <3>2. /\ row.paid = req[w].amount /\ row.total = ticket[t].total
          /\ row.change = ChangeOf(req[w].amount, ticket[t].total)
          /\ row.status = ticket[t].status
      BY DEF TicketRows
    <3>. HIDE DEF row
    <3>3. /\ pc[w] = "tender_inserted"
          /\ tenders'[t] = [m \in Methods |-> tenders[t][m] + req[w].tender[m]]
      BY <1>2, <2>1 DEF TenderCommit
    <3>4. triggers'[t] = triggers[t]
            + One(req[w].amount >= ticket[t].total
                  /\ req[w].amount - SumOf(req[w].tender) < ticket[t].total)
      <4>. DEFINE crosses == /\ req[w].amount >= ticket[t].total
                             /\ req[w].amount - SumOf(req[w].tender) < ticket[t].total
      <4>1. triggers' = IF crosses THEN [triggers EXCEPT ![t] = @ + 1] ELSE triggers
        BY <1>2, <2>1 DEF TenderCommit
      <4>. HIDE DEF crosses
      <4>2. triggers'[t] = triggers[t] + One(crosses) BY <4>1 DEF One
      <4>. QED BY <4>2 DEF crosses
    <3>5. Added(w, t) BY <2>1, <3>1, <3>2, <3>3, <3>4 DEF Added
    <3>. QED BY <3>5 DEF MoneyWritten
  <2>2. CASE t # req[w].ticket
    BY <1>2, <2>2 DEF TenderCommit, MoneyKept, MoneyWritten
  <2>. QED BY <2>1, <2>2
<1>3. ASSUME NEW total \in Totals, NEW ts \in Replayed, RewriteCommit(w, total, ts)
      PROVE  MoneyWritten(w, t)
  <2>0. ts \in TenderSums BY ReplayedTyped
  <2>1. CASE t = req[w].ticket
    <3>1. Replaced(w, t, req[w].full, total, ts)
      BY <1>3, <2>1 DEF RewriteCommit, Draft, Triggered, Replaced, One
    <3>2. pc[w] = "rewriting" BY <1>3 DEF RewriteCommit
    <3>3. total \in Nat OBVIOUS
    <3>4. \E n \in Nat, xs \in TenderSums : Replaced(w, t, req[w].full, n, xs)
      BY ZenonT(20), <2>0, <3>1, <3>3
    <3>. QED BY Zenon, <3>2, <3>4 DEF MoneyWritten
  <2>2. CASE t # req[w].ticket
    BY <1>3, <2>2 DEF RewriteCommit, Triggered, MoneyKept, MoneyWritten
  <2>. QED BY <2>1, <2>2
<1>4. CASE RecognizeLink(w) \/ RecognizePaid(w) \/ ReturnInsert(w)
  <2>1. MoneyKept(t)
    BY <1>4 DEF RecognizeLink, RecognizePaid, ReturnInsert, MoneyKept, TicketRows
  <2>. QED BY <2>1 DEF MoneyWritten
<1>5. UNCHANGED <<ticket, tenders, triggers>> => MoneyKept(t) BY DEF MoneyKept
<1>6. UNCHANGED rows \/ OpenInsert(w) \/ CloseCommit(w)
        \/ (\E delta \in Int : MovementCommit(w, delta)) => UNCHANGED <<ticket, tenders, triggers>>
  BY DEF rows, OpenInsert, CloseCommit, MovementCommit
<1>. QED BY <1>1, <1>2, <1>3, <1>4, <1>5, <1>6, Writers DEF MoneyWritten

----------------------------------------------------------------------------
\* The sums a tender or a replay has read, request by request.
OwnSums(w) ==
  LET t == req[w].ticket IN
  /\ pc[w] = "tender_inserted" =>
       /\ req[w].amount = Paid(t) + SumOf(req[w].tender)
       /\ tenders[t]["card"] + req[w].tender["card"] <= ticket[t].total
            \/ req[w].tender["card"] = 0
  /\ pc[w] \in {"rewrite_locked", "rewriting"} =>
       req[w].full = Full(ticket[t].total, ticket[t].paid)

MoneyInv ==
  /\ ReadsInv
  /\ \A t \in Tickets : MoneyFits(t) /\ (ticket[t].status = "none" => ticket[t].total = 0)
  /\ \A w \in Workers : OwnSums(w)

Summing == {"tender_inserted", "rewrite_locked", "rewriting"}

\* The lock of a tender or a replay keeps every other writer from its ticket's money.
LEMMA OthersMoney ==
  ASSUME ReadsInv, NEW w \in Workers, Busy(w), NEW v \in Workers \ {w}, pc[v] \in Summing,
         NEW t \in Tickets, t = req[v].ticket
  PROVE  MoneyKept(t)
<1>. Typed /\ OwnIds(w) /\ OwnLocks(v) /\ OwnLocks(w)
  BY ReadsAreOwnReads, LocksAreOwnLocks DEF ReadsInv
<1>1. ticketLock[t] = v BY DEF OwnLocks, Summing, Holding
<1>2. pc[w] \in {"ringing", "replaying"} => req[w].ticket # t BY DEF OwnIds
<1>3. pc[w] \in {"tender_inserted", "rewriting"} => req[w].ticket # t
  BY <1>1 DEF OwnLocks, Holding
<1>4. MoneyWritten(w, t) BY MoneyWrites
<1>. QED BY <1>2, <1>3, <1>4 DEF MoneyWritten, Replaced, Added

\* What a request knows of sums at its next statement.
LEMMA OwnSumsStep ==
  ASSUME MoneyInv, NEW w \in Workers, Busy(w)
  PROVE  OwnSums(w)'
<1>. Typed /\ req[w] \in Reqs /\ OwnSums(w) BY DEF MoneyInv, ReadsInv, Typed, TypeOK
<1>1. ASSUME pc'[w] \notin Summing PROVE OwnSums(w)' BY <1>1 DEF OwnSums, Summing
<1>2. ASSUME NEW from, NEW to, Goto(w, from, to), to \notin Summing PROVE OwnSums(w)'
  BY <1>1, <1>2 DEF Goto, Typed, TypeOK
<1>3. CASE Ending(w)
  <2>1. pc'[w] = "idle" BY <1>3, EndingFinishes DEF Typed, TypeOK, Finish
  <2>. QED BY <1>1, <2>1 DEF Summing
<1>4. ASSUME NEW t \in Tickets, RewriteLock(w, t) PROVE OwnSums(w)'
  <2>. DEFINE q == [req[w] EXCEPT !.ticket = t, !.full = Full(ticket[t].total, ticket[t].paid)]
  <2>1. req' = [req EXCEPT ![w] = q] /\ Goto(w, "idle", "rewrite_locked")
        /\ UNCHANGED ticket
    BY <1>4 DEF RewriteLock, rows
  <2>2. q.ticket = t /\ q.full = Full(ticket[t].total, ticket[t].paid) BY DEF Reqs
  <2>. HIDE DEF q
  <2>3. pc'[w] = "rewrite_locked" /\ req'[w].ticket = t
        /\ req'[w].full = Full(ticket[t].total, ticket[t].paid)
    BY <2>1, <2>2 DEF Goto, Typed, TypeOK
  <2>. QED BY <2>1, <2>3 DEF OwnSums, Full
<1>5. CASE Begin(w)
  <2>. DEFINE Summed == OwnSums(w)'
  <2>. USE <1>2 DEF Summing
  <2>. HIDE DEF Summed
  <2>1. \A r, s : OpenRead(w, r, s) => Summed BY DEF OpenRead, Summed
  <2>2. \A s, t, tb : RingBegin(w, s, t, tb) => Summed BY DEF RingBegin, Summed
  <2>3. \A named, rescue, r, t, tb :
          SyncCreateBegin(w, named, rescue, r, t, tb) => Summed
    BY DEF SyncCreateBegin, Summed
  <2>4. \A t : TenderLock(w, t) \/ RecognizeFetch(w, t) \/ ReturnFlip(w, t) => Summed
    BY DEF TenderLock, RecognizeFetch, ReturnFlip, Summed
  <2>5. \A t \in Tickets : RewriteLock(w, t) => Summed BY <1>4 DEF Summed
  <2>6. \A s : MovementLock(w, s) \/ CloseBegin(w, s) => Summed
    BY DEF MovementLock, CloseBegin, Summed
  <2>7. Summed BY <1>5, <2>1, <2>2, <2>3, <2>4, <2>5, <2>6, Zenon DEF Begin
  <2>. QED BY <2>7 DEF Summed
<1>6. ASSUME NEW m \in Methods, NEW a \in Amounts, TenderInsert(w, m, a) PROVE OwnSums(w)'
  <2>0. PICK t \in Tickets : t = req[w].ticket
    BY <1>6, NamedRows DEF TenderInsert, Goto
  <2>. DEFINE ts == [NoTenders EXCEPT ![m] = a]
              q == [req[w] EXCEPT !.session = ticket[t].session, !.tender = ts,
                                  !.amount = Paid(t) + a]
  <2>1. /\ req' = [req EXCEPT ![w] = q] /\ Goto(w, "tender_locked", "tender_inserted")
        /\ UNCHANGED <<ticket, tenders>>
        /\ m # "cash" => a <= ticket[t].total - Paid(t)
    BY <1>6, <2>0 DEF TenderInsert, rows
  <2>2. q.ticket = t /\ q.tender = ts /\ q.amount = Paid(t) + a BY <2>0 DEF Reqs
  <2>. HIDE DEF q
  <2>3. pc'[w] = "tender_inserted" /\ req'[w].ticket = t /\ req'[w].tender = ts
        /\ req'[w].amount = Paid(t) + a
    BY <2>1, <2>2 DEF Goto, Typed, TypeOK
  <2>4. /\ a \in Nat /\ tenders[t]["card"] \in Nat /\ tenders[t]["cash"] \in Nat
        /\ ticket[t].total \in Nat
    BY AmountAssumption DEF Typed, TypeOK, TenderSums, Methods, TicketRows
  <2>5. SumOf(ts) = a /\ (m = "cash" => ts["card"] = 0) /\ (m # "cash" => ts["card"] = a)
    BY <2>4 DEF SumOf, NoTenders, Methods
  <2>6. Paid(t) = tenders[t]["cash"] + tenders[t]["card"] BY DEF Paid, SumOf
  <2>7. tenders[t]["card"] + ts["card"] <= ticket[t].total \/ ts["card"] = 0
    BY <2>1, <2>4, <2>5, <2>6
  <2>8. Paid(t)' = Paid(t) BY <2>1 DEF Paid, SumOf
  <2>. HIDE DEF ts
  <2>. QED BY <2>1, <2>3, <2>5, <2>7, <2>8 DEF OwnSums, Paid
<1>7. ASSUME NEW named \in Sessions, NEW rescue \in Sessions \cup {None},
             NEW tb \in Tables \cup {None}, RewriteSession(w, named, rescue, tb)
      PROVE  OwnSums(w)'
  <2>. DEFINE q == [req[w] EXCEPT !.session =
                       ResolveForUpdate(ticket[req[w].ticket].session, named, rescue),
                                  !.table = tb]
  <2>1. /\ req' = [req EXCEPT ![w] = q] /\ Goto(w, "rewrite_locked", "rewriting")
        /\ UNCHANGED ticket
    BY <1>7 DEF RewriteSession, rows
  <2>2. q.ticket = req[w].ticket /\ q.full = req[w].full BY DEF Reqs
  <2>. HIDE DEF q
  <2>3. pc[w] = "rewrite_locked" /\ pc'[w] = "rewriting" /\ req'[w].ticket = req[w].ticket
        /\ req'[w].full = req[w].full
    BY <2>1, <2>2 DEF Goto, Typed, TypeOK
  <2>. QED BY <2>1, <2>3 DEF OwnSums, Full
<1>8. CASE RecognizeLink(w) \/ CloseGuard(w)
  BY <1>2, <1>8 DEF RecognizeLink, CloseGuard, Summing
<1>9. CASE CountTenders(w) \/ CountChange(w) \/ CountMoves(w) \/ CountSales(w)
  BY <1>2, <1>9
  DEF CountTenders, CountChange, CountMoves, CountSales, CloseCount, Summing
<1>. QED BY <1>3, <1>5, <1>6, <1>7, <1>8, <1>9, StepKinds DEF GoingOn

\* The trigger of a ticket counts its crossings.
Crossed(t) == triggers'[t] = triggers[t] + One(~PaidUp(t) /\ PaidUp(t)')

\* A step keeps the money of a ticket and stages its trigger when it crosses.
LEMMA MoneyStep ==
  ASSUME MoneyInv, NEW w \in Workers, Busy(w), NEW t \in Tickets
  PROVE  /\ MoneyFits(t)' /\ (ticket'[t].status = "none" => ticket'[t].total = 0)
         /\ Crossed(t)
<1>. DEFINE Goal == /\ MoneyFits(t)' /\ (ticket'[t].status = "none" => ticket'[t].total = 0)
                    /\ Crossed(t)
<1>. SUFFICES Goal OBVIOUS
<1>. /\ Typed /\ OwnIds(w) /\ OwnReads(w) /\ OwnSums(w) /\ MoneyFits(t)
     /\ ticket[t].status = "none" => ticket[t].total = 0
  BY ReadsAreOwnReads DEF MoneyInv, ReadsInv
<1>. /\ ticket[t] \in TicketRows /\ tenders[t] \in TenderSums /\ triggers[t] \in Nat
     /\ req[w] \in Reqs
  BY DEF Typed, TypeOK
<1>0. /\ ticket[t].total \in Nat /\ ticket[t].paid \in Nat
      /\ ticket[t].paid = SumOf(tenders[t])
  BY DEF TicketRows, MoneyFits, Fits
<1>1. CASE MoneyKept(t)
  BY <1>0, <1>1 DEF MoneyKept, MoneyFits, Crossed, One, PaidUp, Full
<1>2. ASSUME NEW total \in Nat, NEW ts \in TenderSums, NEW full \in BOOLEAN,
             Replaced(w, t, full, total, ts), full <=> PaidUp(t)
      PROVE  Goal
  <2>1. MoneyFits(t)' BY <1>2 DEF Replaced, MoneyFits, Fits
  <2>2. PaidUp(t)' <=> Full(total, SumOf(ts)) BY <1>2 DEF Replaced, PaidUp, Full
  <2>. QED BY <1>2, <2>1, <2>2 DEF Replaced, Crossed, One
<1>3. CASE pc[w] \in {"ringing", "replaying"} /\
           \E total \in Nat, ts \in TenderSums : Replaced(w, t, FALSE, total, ts)
  <2>1. ~PaidUp(t) BY <1>3 DEF OwnIds, Replaced, PaidUp, Full
  <2>. QED BY <1>2, <1>3, <2>1
<1>4. CASE pc[w] = "rewriting" /\
           \E total \in Nat, ts \in TenderSums : Replaced(w, t, req[w].full, total, ts)
  <2>1. req[w].full \in BOOLEAN BY DEF Reqs
  <2>2. req[w].full <=> PaidUp(t) BY <1>4 DEF OwnSums, Replaced, PaidUp
  <2>. QED BY <1>2, <1>4, <2>1, <2>2
<1>5. CASE Added(w, t)
  <2>. DEFINE ts == req[w].tender
              after == [m \in Methods |-> tenders[t][m] + ts[m]]
              total == ticket[t].total
  <2>1. /\ pc[w] = "tender_inserted" /\ t = req[w].ticket
        /\ req[w].amount = SumOf(tenders[t]) + SumOf(ts)
        /\ tenders[t]["card"] + ts["card"] <= total \/ ts["card"] = 0
    BY <1>5 DEF Added, OwnSums, Paid
  <2>2. /\ tenders[t]["cash"] \in Nat /\ tenders[t]["card"] \in Nat
        /\ ts["cash"] \in Nat /\ ts["card"] \in Nat
    BY DEF TenderSums, Methods, Reqs
  <2>3. /\ after["cash"] = tenders[t]["cash"] + ts["cash"]
        /\ after["card"] = tenders[t]["card"] + ts["card"]
    BY DEF Methods
  <2>4. /\ tenders'[t] = after /\ ticket'[t].status = ticket[t].status
        /\ ticket'[t].total = total /\ ticket'[t].paid = req[w].amount
        /\ ticket'[t].change = ChangeOf(req[w].amount, total)
        /\ triggers'[t] = triggers[t]
             + One(req[w].amount >= total /\ req[w].amount - SumOf(ts) < total)
    BY <1>5 DEF Added
  <2>. HIDE DEF after
  <2>5. SumOf(after) = req[w].amount BY <2>1, <2>2, <2>3 DEF SumOf
  <2>6. NonCashFits(after, total)
    BY <1>0, <2>1, <2>2, <2>3 DEF NonCashFits, MoneyFits, Fits
  <2>7. MoneyFits(t)' BY <2>4, <2>5, <2>6 DEF MoneyFits, Fits
  <2>8. SumOf(ts) \in Nat /\ SumOf(tenders[t]) \in Nat BY <2>2 DEF SumOf
  <2>9. PaidUp(t) <=> total > 0 /\ SumOf(tenders[t]) >= total BY <1>0 DEF PaidUp, Full
  <2>10. PaidUp(t)' <=> total > 0 /\ req[w].amount >= total BY <2>4 DEF PaidUp, Full
  <2>. HIDE DEF total, ts
  <2>11. (~PaidUp(t) /\ PaidUp(t)')
           <=> req[w].amount >= total /\ req[w].amount - SumOf(ts) < total
    BY <1>0, <2>1, <2>8, <2>9, <2>10 DEF total
  <2>12. Crossed(t) BY <2>4, <2>11 DEF Crossed, One
  <2>. QED BY <2>4, <2>7, <2>12 DEF total
<1>6. MoneyWritten(w, t) BY MoneyWrites
<1>. HIDE DEF Goal
<1>. QED BY <1>1, <1>3, <1>4, <1>5, <1>6 DEF MoneyWritten, Goal

\* The money of every ticket and the sums of every request hold together.
LEMMA MoneyInvariant == Spec => []MoneyInv
<1>1. ASSUME Init PROVE MoneyInv
  <2>1. ReadsInv BY <1>1, InitReads
  <2>2. \A w \in Workers : OwnSums(w) BY <1>1 DEF Init, OwnSums
  <2>3. ASSUME NEW t \in Tickets PROVE MoneyFits(t) /\ ticket[t].total = 0
    BY <1>1 DEF Init, NoTicketRow, NoTenders, MoneyFits, Fits, SumOf, ChangeOf,
                NonCashFits, Methods
  <2>. QED BY <2>1, <2>2, <2>3 DEF MoneyInv
<1>2. ASSUME MoneyInv, NEW w \in Workers, Busy(w), ReadsInv' PROVE MoneyInv'
  <2>1. ASSUME NEW v \in Workers \ {w} PROVE OwnSums(v)'
    <3>1. pc'[v] = pc[v] /\ req'[v] = req[v] /\ OwnSums(v) /\ Typed
      BY <1>2, StepKeeps DEF MoneyInv, ReadsInv, OthersKept
    <3>2. CASE pc[v] \notin Summing BY <3>1, <3>2 DEF OwnSums, Summing
    <3>3. CASE pc[v] \in Summing
      <4>1. PICK t \in Tickets : t = req[v].ticket BY <3>1, <3>3, NamedRows DEF Summing
      <4>2. MoneyKept(t) BY <1>2, <3>3, <4>1, OthersMoney DEF MoneyInv
      <4>. QED BY <3>1, <4>1, <4>2 DEF OwnSums, MoneyKept, Paid, Full
    <3>. QED BY <3>2, <3>3
  <2>2. \A v \in Workers : OwnSums(v)' BY <1>2, <2>1, OwnSumsStep
  <2>. QED BY <1>2, <2>2, MoneyStep DEF MoneyInv
<1>3. MoneyInv /\ UNCHANGED vars /\ ReadsInv' => MoneyInv'
  BY DEF vars, MoneyInv, MoneyFits, OwnSums, Paid
<1>4. MoneyInv /\ [Next]_vars => MoneyInv'
  <2>1. MoneyInv => ReadsInv BY DEF MoneyInv
  <2>. QED BY <1>2, <1>3, <2>1, ReadsStep DEF Next, Busy
<1>. QED BY <1>1, <1>4, PTL DEF Spec

\* Header and change are those of the tenders, and the change is cash, whatever tenders
\* and replays race for the ticket.
THEOREM HeadersAgree == Spec => []HeaderAgreesWithTenders
<1>1. ASSUME MoneyInv, NEW t \in Tickets
      PROVE  /\ ticket[t].paid = Paid(t)
             /\ ticket[t].change = ChangeOf(Paid(t), ticket[t].total)
             /\ ticket[t].change <= tenders[t]["cash"]
  <2>1. MoneyFits(t) /\ ticket[t].total \in Nat /\ tenders[t] \in TenderSums
    BY <1>1 DEF MoneyInv, ReadsInv, Typed, TypeOK, TicketRows
  <2>. QED BY <2>1, CashCoversChange DEF MoneyFits, Fits, Paid
<1>2. MoneyInv => HeaderAgreesWithTenders BY <1>1 DEF HeaderAgreesWithTenders
<1>. QED BY <1>2, MoneyInvariant, PTL

\* The recognition trigger is staged at every commit that takes a ticket over its total,
\* and at no other.
THEOREM TriggeredAtCrossings == Spec => TriggeredOncePerCrossing
<1>1. ASSUME MoneyInv, [Next]_vars, NEW t \in Tickets
      PROVE  triggers'[t] = triggers[t] + (IF ~PaidUp(t) /\ PaidUp(t)' THEN 1 ELSE 0)
  <2>1. CASE UNCHANGED vars
    <3>1. PaidUp(t)' <=> PaidUp(t) BY <2>1 DEF vars, PaidUp
    <3>2. triggers[t] \in Nat BY <1>1 DEF MoneyInv, ReadsInv, Typed, TypeOK
    <3>. QED BY <2>1, <3>1, <3>2 DEF vars
  <2>2. CASE Next BY <1>1, <2>2, MoneyStep DEF Next, Busy, Crossed, One
  <2>. QED BY <1>1, <2>1, <2>2
<1>2. MoneyInv /\ [Next]_vars =>
        [\A t \in Tickets : triggers'[t] = triggers[t]
             + (IF ~PaidUp(t) /\ PaidUp(t)' THEN 1 ELSE 0)]_<<ticket, triggers>>
  BY <1>1
<1>. QED BY <1>2, MoneyInvariant, PTL DEF Spec, TriggeredOncePerCrossing

\* Whatever a request reads at one statement and uses at a later one still holds then.
THEOREM RequestsMayRely == Spec => []RequestsCanRely
<1>1. CountsInv /\ MoneyInv => RequestsCanRely
  BY DEF CountsInv, MoneyInv, ReadsInv, Typed, OwnSums, SumsStillHold, RequestsCanRely
<1>. QED BY <1>1, CountsInvariant, MoneyInvariant, PTL
=============================================================================
