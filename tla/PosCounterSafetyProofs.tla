----------------------- MODULE PosCounterSafetyProofs -----------------------
(***************************************************************************)
(* Proofs of what PosCounter's locks buy, in the layers of PosCounterInv.  *)
(* A step of one request is seen three ways: it leaves every other request *)
(* and its locks alone (OthersKept); it writes only rows its own locks or  *)
(* a fresh id entitle it to (SessionWrites, TicketWrites);                 *)
(* and it knows something of the rows it names (Notes).                    *)
(***************************************************************************)
EXTENDS PosCounterProofs

Busy(w) == Begin(w) \/ Step(w) \/ Abort(w)

OthersLocksKept(w) ==
  \A v \in Workers \ {w} :
    /\ \A s \in Sessions : /\ v \in sessShare'[s] <=> v \in sessShare[s]
                           /\ sessExcl'[s] = v <=> sessExcl[s] = v
    /\ \A t \in Tickets : ticketLock'[t] = v <=> ticketLock[t] = v

OthersKept(w) ==
  /\ OthersLocksKept(w)
  /\ \A v \in Workers \ {w} : pc'[v] = pc[v] /\ req'[v] = req[v]

\* Nobody shares a session somebody else holds for closing it.
ExclusionHolds == \A s \in Sessions : sessExcl[s] # None => sessShare[s] = {}

\* The locks w needs for its next statement.
OwnLocks(w) ==
  /\ pc[w] \in Sharing => w \in sessShare[req[w].session]
  /\ pc[w] \in Closing => sessExcl[req[w].session] = w
  /\ pc[w] \in Holding => ticketLock[req[w].ticket] = w

LEMMA LocksAreOwnLocks ==
  LocksAreHeld <=> ExclusionHolds /\ \A w \in Workers : OwnLocks(w)
BY DEF LocksAreHeld, ExclusionHolds, OwnLocks

LEMMA WorkersExist == ASSUME NEW w \in Workers PROVE w # None
BY NoneAssumption

LEMMA FinishKeeps ==
  ASSUME Typed, NEW w \in Workers, Finish(w), ExclusionHolds
  PROVE  OthersKept(w) /\ ExclusionHolds' /\ OwnLocks(w)'
<1>1. pc' = [pc EXCEPT ![w] = "idle"] /\ req' = [req EXCEPT ![w] = NoReq] /\ Release(w)
  BY DEF Finish
<1>2. pc'[w] = "idle" /\ "idle" \notin Sharing \cup Closing \cup Holding
  BY <1>1 DEF Typed, TypeOK, Sharing, Closing, Counting, Holding
<1>3. OthersKept(w)
  BY <1>1, WorkersExist DEF Typed, TypeOK, Release, OthersKept, OthersLocksKept
<1>4. ExclusionHolds' BY <1>1 DEF Typed, TypeOK, Release, ExclusionHolds
<1>. QED BY <1>2, <1>3, <1>4 DEF OwnLocks

\* A statement that goes on holds what the next one needs.
LEMMA GotoKeeps ==
  ASSUME Typed, NEW w \in Workers, NEW from, NEW to, Goto(w, from, to),
         NEW q, req' = [req EXCEPT ![w] = q], OthersLocksKept(w),
         to \in Sharing => w \in sessShare'[q.session],
         to \in Closing => sessExcl'[q.session] = w,
         to \in Holding => ticketLock'[q.ticket] = w
  PROVE  OthersKept(w) /\ OwnLocks(w)'
BY DEF Typed, TypeOK, Goto, OthersKept, OwnLocks

LEMMA ShareKeeps ==
  ASSUME Typed, NEW w \in Workers, NEW ss, TakeShare(w, ss),
         UNCHANGED <<ticketLock, sessExcl, advisory>>, ExclusionHolds
  PROVE  /\ OthersLocksKept(w) /\ ExclusionHolds'
         /\ \A s \in ss \cap Sessions : w \in sessShare'[s]
BY DEF Typed, TypeOK, TakeShare, CanShare, ExclusionHolds, OthersLocksKept

LEMMA TicketKeeps ==
  ASSUME Typed, NEW w \in Workers, NEW t \in Tickets, TakeTicket(w, t),
         UNCHANGED <<sessShare, sessExcl, advisory>>, ExclusionHolds
  PROVE  OthersLocksKept(w) /\ ExclusionHolds' /\ ticketLock'[t] = w
BY WorkersExist DEF Typed, TypeOK, TakeTicket, ExclusionHolds, OthersLocksKept

LEMMA NoLockKeeps ==
  ASSUME UNCHANGED <<ticketLock, sessShare, sessExcl>>, NEW w, ExclusionHolds
  PROVE  OthersLocksKept(w) /\ ExclusionHolds'
BY DEF ExclusionHolds, OthersLocksKept

\* The commits, refusals and aborts: the request ends.
Ending(w) ==
  \/ OpenInsert(w)
  \/ \E total \in Totals, ts \in TenderSums :
       /\ pc[w] \in {"ringing", "replaying"} /\ NonCashFits(ts, total)
       /\ InsertDraft(w, total, ts)
  \/ TenderCommit(w)
  \/ \E total \in Totals, ts \in Replayed : RewriteCommit(w, total, ts)
  \/ \E delta \in Int : MovementCommit(w, delta)
  \/ RecognizePaid(w)
  \/ ReturnInsert(w)
  \/ CloseCommit(w)
  \/ Refuse(w)
  \/ Abort(w)

\* The statements in the middle of a request.
GoingOn(w) ==
  \/ \E m \in Methods, a \in Amounts : TenderInsert(w, m, a)
  \/ \E named \in Sessions, rescue \in Sessions \cup {None}, tb \in Tables \cup {None} :
       RewriteSession(w, named, rescue, tb)
  \/ RecognizeLink(w)
  \/ CloseGuard(w)
  \/ CountTenders(w) \/ CountChange(w) \/ CountMoves(w) \/ CountSales(w)

LEMMA StepKinds == ASSUME NEW w, Busy(w) PROVE Begin(w) \/ GoingOn(w) \/ Ending(w)
<1>1. ASSUME NEW total \in Totals, RingInsert(w, total) PROVE Ending(w)
  <2>1. NoTenders \in TenderSums /\ NonCashFits(NoTenders, total)
    BY AmountAssumption DEF NoTenders, TenderSums, NonCashFits, Methods
  <2>. QED BY <1>1, <2>1 DEF RingInsert, Ending
<1>2. ASSUME NEW total \in Totals, NEW ts \in Replayed, SyncCreateInsert(w, total, ts)
      PROVE  Ending(w)
  BY <1>2, ReplayedTyped DEF SyncCreateInsert, Ending
<1>3. ASSUME NEW a \in Amounts, MovementCommit(w, a) \/ MovementCommit(w, -a)
      PROVE  Ending(w)
  <2>1. a \in Int /\ -a \in Int BY AmountAssumption
  <2>. QED BY <1>3, <2>1 DEF Ending
<1>4. CASE Step(w) BY <1>1, <1>2, <1>3, <1>4 DEF Step, Ending, GoingOn
<1>5. CASE Abort(w) BY <1>5 DEF Ending
<1>. QED BY <1>4, <1>5 DEF Busy

LEMMA EndingFinishes == ASSUME NEW w, Ending(w) PROVE Finish(w)
BY DEF Ending, OpenInsert, InsertDraft, TenderCommit, RewriteCommit, MovementCommit,
       RecognizePaid, ReturnInsert, CloseCommit, Refuse, Abort

\* A first statement takes the lock its second one needs.
LEMMA BeginKeeps ==
  ASSUME Typed, NEW w \in Workers, Begin(w), ExclusionHolds
  PROVE  OthersKept(w) /\ ExclusionHolds' /\ OwnLocks(w)'
<1>. DEFINE Kept == OthersKept(w) /\ ExclusionHolds' /\ OwnLocks(w)'
<1>. req[w] \in Reqs BY DEF Typed, TypeOK
<1>1. ASSUME NEW r \in Registers, NEW s \in Sessions, OpenRead(w, r, s) PROVE Kept
  <2>. DEFINE q == [req[w] EXCEPT !.register = r, !.session = s]
  <2>1. req' = [req EXCEPT ![w] = q] /\ Goto(w, "idle", "opening") BY <1>1 DEF OpenRead
  <2>2. OthersLocksKept(w) /\ ExclusionHolds' BY <1>1, NoLockKeeps DEF OpenRead, locks
  <2>. HIDE DEF q
  <2>9. /\ "opening" \in Sharing => w \in sessShare'[q.session]
        /\ "opening" \in Closing => sessExcl'[q.session] = w
        /\ "opening" \in Holding => ticketLock'[q.ticket] = w
    BY <2>2 DEF Sharing, Closing, Counting, Holding
  <2>. QED BY <2>1, <2>2, <2>9, GotoKeeps
<1>2. ASSUME NEW s \in Sessions, NEW t \in Tickets, NEW tb \in Tables \cup {None},
             RingBegin(w, s, t, tb) PROVE Kept
  <2>. DEFINE q == [req[w] EXCEPT !.session = s, !.ticket = t, !.table = tb]
  <2>1. req' = [req EXCEPT ![w] = q] /\ Goto(w, "idle", "ringing") BY <1>2 DEF RingBegin
  <2>2. OthersLocksKept(w) /\ ExclusionHolds' /\ w \in sessShare'[s]
    BY <1>2, ShareKeeps DEF RingBegin
  <2>3. q.session = s BY DEF Reqs
  <2>. HIDE DEF q
  <2>9. /\ "ringing" \in Sharing => w \in sessShare'[q.session]
        /\ "ringing" \in Closing => sessExcl'[q.session] = w
        /\ "ringing" \in Holding => ticketLock'[q.ticket] = w
    BY <2>2, <2>3 DEF Sharing, Closing, Counting, Holding
  <2>. QED BY <2>1, <2>2, <2>9, GotoKeeps
<1>3. ASSUME NEW named \in Sessions, NEW rescue \in Sessions \cup {None}, NEW r \in Registers,
             NEW t \in Tickets, NEW tb \in Tables \cup {None},
             SyncCreateBegin(w, named, rescue, r, t, tb) PROVE Kept
  <2>. DEFINE target == ResolveForCreate(named, rescue, r)
              q == [req[w] EXCEPT !.session = target, !.ticket = t, !.table = tb]
  <2>1. req' = [req EXCEPT ![w] = q] /\ Goto(w, "idle", "replaying")
    BY <1>3 DEF SyncCreateBegin
  <2>2. target \in Sessions
    BY <1>3 DEF SyncCreateBegin, ResolveForCreate, SameRegisterOpen, Open
  <2>3. q.session = target BY DEF Reqs
  <2>4. TakeShare(w, {named, target}) /\ UNCHANGED <<ticketLock, sessExcl, advisory>>
    BY <1>3 DEF SyncCreateBegin
  <2>. HIDE DEF q, target
  <2>5. OthersLocksKept(w) /\ ExclusionHolds' /\ w \in sessShare'[target]
    BY <2>2, <2>4, ShareKeeps
  <2>9. /\ "replaying" \in Sharing => w \in sessShare'[q.session]
        /\ "replaying" \in Closing => sessExcl'[q.session] = w
        /\ "replaying" \in Holding => ticketLock'[q.ticket] = w
    BY <2>3, <2>5 DEF Sharing, Closing, Counting, Holding
  <2>. QED BY <2>1, <2>5, <2>9, GotoKeeps
<1>4. ASSUME NEW t \in Tickets, TenderLock(w, t) PROVE Kept
  <2>. DEFINE q == [req[w] EXCEPT !.ticket = t]
  <2>1. req' = [req EXCEPT ![w] = q] /\ Goto(w, "idle", "tender_locked")
    BY <1>4 DEF TenderLock
  <2>2. OthersLocksKept(w) /\ ExclusionHolds' /\ ticketLock'[t] = w
    BY <1>4, TicketKeeps DEF TenderLock
  <2>3. q.ticket = t BY DEF Reqs
  <2>. HIDE DEF q
  <2>9. /\ "tender_locked" \in Sharing => w \in sessShare'[q.session]
        /\ "tender_locked" \in Closing => sessExcl'[q.session] = w
        /\ "tender_locked" \in Holding => ticketLock'[q.ticket] = w
    BY <2>2, <2>3 DEF Sharing, Closing, Counting, Holding
  <2>. QED BY <2>1, <2>2, <2>9, GotoKeeps
<1>5. ASSUME NEW t \in Tickets, RewriteLock(w, t) PROVE Kept
  <2>. DEFINE q == [req[w] EXCEPT !.ticket = t, !.full = Full(ticket[t].total, ticket[t].paid)]
  <2>1. req' = [req EXCEPT ![w] = q] /\ Goto(w, "idle", "rewrite_locked")
    BY <1>5 DEF RewriteLock
  <2>2. OthersLocksKept(w) /\ ExclusionHolds' /\ ticketLock'[t] = w
    BY <1>5, TicketKeeps DEF RewriteLock
  <2>3. q.ticket = t BY DEF Reqs
  <2>. HIDE DEF q
  <2>9. /\ "rewrite_locked" \in Sharing => w \in sessShare'[q.session]
        /\ "rewrite_locked" \in Closing => sessExcl'[q.session] = w
        /\ "rewrite_locked" \in Holding => ticketLock'[q.ticket] = w
    BY <2>2, <2>3 DEF Sharing, Closing, Counting, Holding
  <2>. QED BY <2>1, <2>2, <2>9, GotoKeeps
<1>6. ASSUME NEW s \in Sessions, MovementLock(w, s) PROVE Kept
  <2>. DEFINE q == [req[w] EXCEPT !.session = s]
  <2>1. req' = [req EXCEPT ![w] = q] /\ Goto(w, "idle", "moving") BY <1>6 DEF MovementLock
  <2>2. OthersLocksKept(w) /\ ExclusionHolds' /\ w \in sessShare'[s]
    BY <1>6, ShareKeeps DEF MovementLock
  <2>3. q.session = s BY DEF Reqs
  <2>. HIDE DEF q
  <2>9. /\ "moving" \in Sharing => w \in sessShare'[q.session]
        /\ "moving" \in Closing => sessExcl'[q.session] = w
        /\ "moving" \in Holding => ticketLock'[q.ticket] = w
    BY <2>2, <2>3 DEF Sharing, Closing, Counting, Holding
  <2>. QED BY <2>1, <2>2, <2>9, GotoKeeps
<1>7. ASSUME NEW t \in Tickets, ReturnFlip(w, t) PROVE Kept
  <2>. DEFINE q == [req[w] EXCEPT !.ticket = t]
  <2>1. req' = [req EXCEPT ![w] = q] /\ Goto(w, "idle", "returning") BY <1>7 DEF ReturnFlip
  <2>2. OthersLocksKept(w) /\ ExclusionHolds' /\ ticketLock'[t] = w
    BY <1>7, TicketKeeps DEF ReturnFlip
  <2>3. q.ticket = t BY DEF Reqs
  <2>. HIDE DEF q
  <2>9. /\ "returning" \in Sharing => w \in sessShare'[q.session]
        /\ "returning" \in Closing => sessExcl'[q.session] = w
        /\ "returning" \in Holding => ticketLock'[q.ticket] = w
    BY <2>2, <2>3 DEF Sharing, Closing, Counting, Holding
  <2>. QED BY <2>1, <2>2, <2>9, GotoKeeps
<1>8. ASSUME NEW s \in Sessions, CloseBegin(w, s) PROVE Kept
  <2>. DEFINE q == [req[w] EXCEPT !.session = s]
  <2>1. req' = [req EXCEPT ![w] = q] /\ Goto(w, "idle", "closing") BY <1>8 DEF CloseBegin
  <2>2. OthersLocksKept(w) /\ ExclusionHolds' /\ sessExcl'[s] = w
    BY <1>8, WorkersExist
    DEF CloseBegin, CanLockSession, Typed, TypeOK, OthersLocksKept, ExclusionHolds
  <2>3. q.session = s BY DEF Reqs
  <2>. HIDE DEF q
  <2>9. /\ "closing" \in Sharing => w \in sessShare'[q.session]
        /\ "closing" \in Closing => sessExcl'[q.session] = w
        /\ "closing" \in Holding => ticketLock'[q.ticket] = w
    BY <2>2, <2>3 DEF Sharing, Closing, Counting, Holding
  <2>. QED BY <2>1, <2>2, <2>9, GotoKeeps
<1>9. ASSUME NEW t \in Tickets, RecognizeFetch(w, t) PROVE Kept
  <2>. DEFINE q == [req[w] EXCEPT !.ticket = t, !.amount = ticket[t].total]
              to == IF ticket[t].billed = None THEN "recognizing" ELSE "linked"
  <2>1. req' = [req EXCEPT ![w] = q] /\ Goto(w, "idle", to) BY <1>9 DEF RecognizeFetch
  <2>2. OthersLocksKept(w) /\ ExclusionHolds' BY <1>9, NoLockKeeps DEF RecognizeFetch
  <2>3. to \notin Sharing \cup Closing \cup Holding
    BY DEF Sharing, Closing, Counting, Holding
  <2>. HIDE DEF q, to
  <2>. QED BY <2>1, <2>2, <2>3, GotoKeeps
<1>. QED BY <1>1, <1>2, <1>3, <1>4, <1>5, <1>6, <1>7, <1>8, <1>9 DEF Begin

\* A statement in the middle of a request keeps what the request holds.
LEMMA GoingOnKeeps ==
  ASSUME Typed, LocksAreHeld, NEW w \in Workers, GoingOn(w)
  PROVE  OthersKept(w) /\ ExclusionHolds' /\ OwnLocks(w)'
<1>. DEFINE t == req[w].ticket
            s == req[w].session
            Kept == OthersKept(w) /\ ExclusionHolds' /\ OwnLocks(w)'
<1>. req[w] \in Reqs /\ ExclusionHolds /\ OwnLocks(w)
  BY LocksAreOwnLocks DEF Typed, TypeOK
<1>1. ASSUME NEW m \in Methods, NEW a \in Amounts, TenderInsert(w, m, a) PROVE Kept
  <2>. DEFINE own == ticket[t].session
              q == [req[w] EXCEPT !.session = own, !.tender = [NoTenders EXCEPT ![m] = a],
                                  !.amount = Paid(t) + a]
  <2>1. req' = [req EXCEPT ![w] = q] /\ Goto(w, "tender_locked", "tender_inserted")
    BY <1>1 DEF TenderInsert
  <2>2. /\ own \in Sessions /\ TakeShare(w, {own})
        /\ UNCHANGED <<ticketLock, sessExcl, advisory>>
    BY <1>1 DEF TenderInsert, Open
  <2>3. q.session = own /\ q.ticket = t BY DEF Reqs
  <2>4. ticketLock[t] = w BY <2>1 DEF OwnLocks, Holding, Goto
  <2>. HIDE DEF q, own
  <2>5. OthersLocksKept(w) /\ ExclusionHolds' /\ w \in sessShare'[own]
    BY <2>2, ShareKeeps
  <2>9. /\ "tender_inserted" \in Sharing => w \in sessShare'[q.session]
        /\ "tender_inserted" \in Closing => sessExcl'[q.session] = w
        /\ "tender_inserted" \in Holding => ticketLock'[q.ticket] = w
    BY <2>2, <2>3, <2>4, <2>5 DEF Closing, Counting
  <2>. QED BY <2>1, <2>5, <2>9, GotoKeeps
<1>2. ASSUME NEW named \in Sessions, NEW rescue \in Sessions \cup {None},
             NEW tb \in Tables \cup {None}, RewriteSession(w, named, rescue, tb)
      PROVE  Kept
  <2>. DEFINE own == ticket[t].session
              target == ResolveForUpdate(own, named, rescue)
              q == [req[w] EXCEPT !.session = target, !.table = tb]
  <2>1. req' = [req EXCEPT ![w] = q] /\ Goto(w, "rewrite_locked", "rewriting")
    BY <1>2 DEF RewriteSession
  <2>2. t \in Tickets BY <2>1, NamedRows DEF Goto
  <2>3. target \in Sessions BY <1>2, ResolvedOpen DEF RewriteSession, Open
  <2>4. TakeShare(w, {own, target}) /\ UNCHANGED <<ticketLock, sessExcl, advisory>>
    BY <1>2 DEF RewriteSession
  <2>5. q.session = target /\ q.ticket = t BY DEF Reqs
  <2>6. ticketLock[t] = w BY <2>1 DEF OwnLocks, Holding, Goto
  <2>. HIDE DEF q, target
  <2>7. OthersLocksKept(w) /\ ExclusionHolds' /\ w \in sessShare'[target]
    BY <2>3, <2>4, ShareKeeps
  <2>9. /\ "rewriting" \in Sharing => w \in sessShare'[q.session]
        /\ "rewriting" \in Closing => sessExcl'[q.session] = w
        /\ "rewriting" \in Holding => ticketLock'[q.ticket] = w
    BY <2>4, <2>5, <2>6, <2>7 DEF Closing, Counting
  <2>. QED BY <2>1, <2>7, <2>9, GotoKeeps
<1>3. CASE RecognizeLink(w)
  <2>1. OthersLocksKept(w) /\ ExclusionHolds' BY <1>3, NoLockKeeps DEF RecognizeLink, locks
  <2>2. req' = [req EXCEPT ![w] = req[w]] /\ Goto(w, "recognizing", "linked")
    BY <1>3 DEF RecognizeLink, Typed, TypeOK
  <2>3. "linked" \notin Sharing \cup Closing \cup Holding
    BY DEF Sharing, Closing, Counting, Holding
  <2>. QED BY <2>1, <2>2, <2>3, GotoKeeps
<1>4. ASSUME NEW from \in Closing, NEW to \in Counting, NEW q, Goto(w, from, to),
             req' = [req EXCEPT ![w] = q], q.session = s, UNCHANGED locks
      PROVE  Kept
  <2>1. OthersLocksKept(w) /\ ExclusionHolds' BY <1>4, NoLockKeeps DEF locks
  <2>2. sessExcl[s] = w BY <1>4 DEF OwnLocks, Goto
  <2>3. to \notin Sharing \cup Holding BY DEF Sharing, Counting, Holding
  <2>4. sessExcl'[q.session] = w BY <1>4, <2>2 DEF locks
  <2>. QED BY <1>4, <2>1, <2>3, <2>4, GotoKeeps
<1>5. CASE CloseGuard(w)
  <2>1. /\ req' = [req EXCEPT ![w] = req[w]]
        /\ Goto(w, "closing", "count_tenders") /\ UNCHANGED locks
    BY <1>5 DEF CloseGuard, Typed, TypeOK
  <2>2. "closing" \in Closing /\ "count_tenders" \in Counting BY DEF Closing, Counting
  <2>. QED BY <1>4, <2>1, <2>2
<1>6. ASSUME NEW from \in Closing, NEW to \in Counting, NEW seen,
             CloseCount(w, from, to, seen)
      PROVE  Kept
  <2>. DEFINE q == [req[w] EXCEPT !.drawer = seen]
  <2>1. q.session = s BY DEF Reqs
  <2>2. req' = [req EXCEPT ![w] = q] /\ Goto(w, from, to) /\ UNCHANGED locks
    BY <1>6 DEF CloseCount
  <2>. HIDE DEF q
  <2>. QED BY <1>4, <2>1, <2>2
<1>7. Counting \subseteq Closing BY DEF Closing
<1>8. ASSUME CountTenders(w) \/ CountChange(w) \/ CountMoves(w) \/ CountSales(w)
      PROVE  Kept
  BY <1>6, <1>7, <1>8 DEF CountTenders, CountChange, CountMoves, CountSales, Counting
<1>. QED BY <1>1, <1>2, <1>3, <1>5, <1>8 DEF GoingOn

\* Every step leaves the other requests and their locks alone.
LEMMA StepKeeps ==
  ASSUME Typed, LocksAreHeld, NEW w \in Workers, Busy(w)
  PROVE  OthersKept(w) /\ ExclusionHolds' /\ OwnLocks(w)'
BY StepKinds, LocksAreOwnLocks, EndingFinishes, FinishKeeps, BeginKeeps, GoingOnKeeps

\* The locks a request counts on stay its own.
LEMMA LocksStep ==
  ASSUME Typed, LocksAreHeld, NEW w \in Workers, Busy(w)
  PROVE  LocksAreHeld'
<1>1. OthersKept(w) /\ ExclusionHolds' /\ OwnLocks(w)' BY StepKeeps
<1>2. ASSUME NEW v \in Workers \ {w} PROVE OwnLocks(v)'
  <2>1. OwnLocks(v) BY LocksAreOwnLocks
  <2>2. pc[v] \in Sharing \cup Closing => req[v].session \in Sessions
    BY NamedRows DEF Sharing, Closing
  <2>3. pc[v] \in Holding => req[v].ticket \in Tickets BY NamedRows DEF Holding
  <2>. QED BY <1>1, <2>1, <2>2, <2>3 DEF OthersKept, OthersLocksKept, OwnLocks
<1>. QED BY <1>1, <1>2 DEF LocksAreHeld, ExclusionHolds, OwnLocks

----------------------------------------------------------------------------
(* What a step writes. *)

\* A step writes no row, or is one of the commits, each of a row its request named.
LEMMA Writers ==
  ASSUME NEW w, Busy(w)
  PROVE  \/ UNCHANGED rows
         \/ OpenInsert(w)
         \/ \E total \in Totals, ts \in TenderSums :
              /\ pc[w] \in {"ringing", "replaying"} /\ NonCashFits(ts, total)
              /\ InsertDraft(w, total, ts)
         \/ TenderCommit(w)
         \/ \E total \in Totals, ts \in Replayed : RewriteCommit(w, total, ts)
         \/ \E delta \in Int : MovementCommit(w, delta)
         \/ RecognizeLink(w)
         \/ RecognizePaid(w)
         \/ ReturnInsert(w)
         \/ CloseCommit(w)
<1>1. CASE Begin(w)
  <2>1. \A r, s : OpenRead(w, r, s) => UNCHANGED rows BY DEF OpenRead
  <2>2. \A s, t, tb : RingBegin(w, s, t, tb) => UNCHANGED rows BY DEF RingBegin
  <2>3. \A named, rescue, r, t, tb :
          SyncCreateBegin(w, named, rescue, r, t, tb) => UNCHANGED rows
    BY DEF SyncCreateBegin
  <2>4. \A t : TenderLock(w, t) \/ RewriteLock(w, t) \/ RecognizeFetch(w, t) \/ ReturnFlip(w, t)
          => UNCHANGED rows
    BY DEF TenderLock, RewriteLock, RecognizeFetch, ReturnFlip
  <2>5. \A s : MovementLock(w, s) \/ CloseBegin(w, s) => UNCHANGED rows
    BY DEF MovementLock, CloseBegin
  <2>. QED BY <1>1, <2>1, <2>2, <2>3, <2>4, <2>5, Zenon DEF Begin
<1>2. CASE GoingOn(w)
  <2>1. \A m, a : TenderInsert(w, m, a) => UNCHANGED rows BY DEF TenderInsert
  <2>2. \A named, rescue, tb : RewriteSession(w, named, rescue, tb) => UNCHANGED rows
    BY DEF RewriteSession
  <2>3. CloseGuard(w) \/ CountTenders(w) \/ CountChange(w) \/ CountMoves(w) \/ CountSales(w)
          => UNCHANGED rows
    BY DEF CloseGuard, CountTenders, CountChange, CountMoves, CountSales, CloseCount
  <2>. QED BY <1>2, <2>1, <2>2, <2>3 DEF GoingOn
<1>3. CASE Ending(w) BY <1>3 DEF Ending, Refuse, Abort
<1>. QED BY <1>1, <1>2, <1>3, StepKinds

\* The reads of PosCounterInv, request by request.
OwnIds(w) ==
  /\ pc[w] = "opening" =>
       /\ session[req[w].session].status = "none"
       /\ \A v \in Workers \ {w} : req[v].session # req[w].session
  /\ pc[w] \in {"ringing", "replaying"} =>
       /\ ticket[req[w].ticket].status = "none"
       /\ \A v \in Workers \ {w} : req[v].ticket # req[w].ticket

OwnReads(w) ==
  /\ pc[w] \in Sharing \cup Closing => session[req[w].session].status = "open"
  /\ pc[w] \in Counting => TicketsOf(req[w].session, "draft") = {}
  /\ pc[w] \in Holding \ {"returning"} => ticket[req[w].ticket].status = "draft"
  /\ pc[w] = "returning" => ticket[req[w].ticket].status = "paid"
  /\ pc[w] \in {"tender_inserted", "rewriting"} =>
       req[w].session = ticket[req[w].ticket].session

ReadsInv ==
  /\ Typed
  /\ LocksAreHeld
  /\ IdsAreFresh
  /\ TicketsNameSessions
  /\ NoDraftInClosedSession
  /\ ReadsStillHold

\* A session is written by the request that inserts it and the one that closes it.
SessionWritten(w, s) ==
  \/ session'[s] = session[s]
  \/ /\ pc[w] = "opening" /\ s = req[w].session
     /\ session'[s] = [status |-> "open", register |-> req[w].register]
     /\ SlotIsFree(req[w].register)
  \/ /\ pc[w] = "counted" /\ s = req[w].session
     /\ session'[s] = [session[s] EXCEPT !.status = "closed"]
     /\ closing'[s] = req[w].drawer

LEMMA SessionWrites ==
  ASSUME Typed, NEW w \in Workers, Busy(w), NEW s \in Sessions
  PROVE  SessionWritten(w, s)
<1>. session \in [Sessions -> SessionRows] /\ closing \in [Sessions -> Drawers \cup {None}]
  BY DEF Typed, TypeOK
<1>1. CASE OpenInsert(w) BY <1>1, NamedRows DEF OpenInsert, SessionWritten
<1>2. CASE CloseCommit(w) BY <1>2, NamedRows DEF CloseCommit, SessionWritten, Counting
<1>3. UNCHANGED session \/ OpenInsert(w) \/ CloseCommit(w)
  BY Writers DEF rows, InsertDraft, TenderCommit, RewriteCommit, MovementCommit,
                 RecognizeLink, RecognizePaid, ReturnInsert
<1>. QED BY <1>1, <1>2, <1>3 DEF SessionWritten

\* A ticket is written by the request that inserts it, by one that holds it, or by a
\* recognition while nobody holds it.
TicketWritten(w, t) ==
  \/ ticket'[t] = ticket[t] /\ tenders'[t] = tenders[t]
  \/ /\ pc[w] \in {"ringing", "replaying"} /\ t = req[w].ticket
     /\ ticket'[t].status = "draft"
     /\ ticket'[t].session = req[w].session
     /\ ticket'[t].table = req[w].table
  \/ /\ pc[w] = "tender_inserted" /\ t = req[w].ticket
     /\ ticket'[t].status = ticket[t].status
     /\ ticket'[t].session = ticket[t].session
     /\ ticket'[t].table = ticket[t].table
  \/ /\ pc[w] = "rewriting" /\ t = req[w].ticket
     /\ ticket'[t].status = "draft"
     /\ ticket'[t].session = req[w].session
     /\ ticket'[t].table = req[w].table
  \/ /\ pc[w] \in {"recognizing", "linked"} /\ ticketLock[t] = None
     /\ ticket[t].status = "draft" /\ tenders'[t] = tenders[t]
     /\ \/ ticket'[t] = [ticket[t] EXCEPT !.billed = req[w].amount]
        \/ ticket'[t] = [ticket[t] EXCEPT !.status = "paid"]
  \/ /\ pc[w] = "returning" /\ t = req[w].ticket /\ sessExcl[ticket[t].session] = None
     /\ ticket'[t] = [ticket[t] EXCEPT !.status = "returned"]
     /\ tenders'[t] = tenders[t]

LEMMA TicketWrites ==
  ASSUME Typed, NEW w \in Workers, Busy(w), NEW t \in Tickets
  PROVE  TicketWritten(w, t)
<1>. ticket \in [Tickets -> TicketRows] /\ tenders \in [Tickets -> TenderSums]
  BY DEF Typed, TypeOK
<1>1. ASSUME NEW total \in Totals, NEW ts \in TenderSums,
             pc[w] \in {"ringing", "replaying"}, InsertDraft(w, total, ts)
      PROVE  TicketWritten(w, t)
  BY <1>1, NamedRows DEF InsertDraft, Draft, TicketWritten
<1>2. CASE TenderCommit(w)
  BY <1>2, NamedRows DEF TenderCommit, TicketRows, TicketWritten
<1>3. ASSUME NEW total \in Totals, NEW ts \in Replayed, RewriteCommit(w, total, ts)
      PROVE  TicketWritten(w, t)
  BY <1>3, NamedRows DEF RewriteCommit, Draft, TicketWritten
<1>4. CASE RecognizeLink(w)
  BY <1>4, NamedRows DEF RecognizeLink, Goto, TicketWritten
<1>5. CASE RecognizePaid(w) BY <1>5, NamedRows DEF RecognizePaid, TicketWritten
<1>6. CASE ReturnInsert(w) BY <1>6, NamedRows DEF ReturnInsert, KeyShare, TicketWritten
<1>7. CASE UNCHANGED <<ticket, tenders>> BY <1>7 DEF TicketWritten
<1>8. UNCHANGED <<ticket, tenders>>
        \/ ~(UNCHANGED rows \/ OpenInsert(w) \/ CloseCommit(w)
             \/ \E delta \in Int : MovementCommit(w, delta))
  BY DEF rows, OpenInsert, CloseCommit, MovementCommit
<1>. QED BY <1>1, <1>2, <1>3, <1>4, <1>5, <1>6, <1>7, <1>8, Writers

----------------------------------------------------------------------------
(* What a request relies on. *)

LEMMA ReadsAreOwnReads ==
  (IdsAreFresh /\ ReadsStillHold) <=> \A w \in Workers : OwnIds(w) /\ OwnReads(w)
BY DEF IdsAreFresh, ReadsStillHold, OwnIds, OwnReads

\* What a statement that goes on must have seen of the rows it names.
LEMMA SeenOwnReads ==
  ASSUME Typed, NEW w \in Workers, NEW from, NEW to, Goto(w, from, to), NEW q,
         req' = [req EXCEPT ![w] = q], UNCHANGED <<session, ticket>>,
         to \in Sharing \cup Closing => session[q.session].status = "open",
         to \in Counting => TicketsOf(q.session, "draft") = {},
         to \in Holding \ {"returning"} => ticket[q.ticket].status = "draft",
         to = "returning" => ticket[q.ticket].status = "paid",
         to \in {"tender_inserted", "rewriting"} => q.session = ticket[q.ticket].session
  PROVE  OwnReads(w)'
BY DEF Typed, TypeOK, Goto, OwnReads, TicketsOf

LEMMA SeenFreshSession ==
  ASSUME Typed, NEW w \in Workers, NEW from, Goto(w, from, "opening"), NEW q,
         req' = [req EXCEPT ![w] = q], UNCHANGED <<session, ticket>>,
         session[q.session].status = "none",
         \A v \in Workers : req[v].session # q.session
  PROVE  OwnIds(w)'
BY DEF Typed, TypeOK, Goto, OwnIds

LEMMA SeenFreshTicket ==
  ASSUME Typed, NEW w \in Workers, NEW from, NEW to \in {"ringing", "replaying"},
         Goto(w, from, to), NEW q,
         req' = [req EXCEPT ![w] = q], UNCHANGED <<session, ticket>>,
         ticket[q.ticket].status = "none",
         \A v \in Workers : req[v].ticket # q.ticket
  PROVE  OwnIds(w)'
BY DEF Typed, TypeOK, Goto, OwnIds

LEMMA SeenNoId ==
  ASSUME Typed, NEW w \in Workers, NEW from, NEW to, Goto(w, from, to),
         to \notin {"opening", "ringing", "replaying"}
  PROVE  OwnIds(w)'
BY DEF Typed, TypeOK, Goto, OwnIds

\* What a step makes its request name: the rows it named before, none, rows that exist,
\* or an id no other request has.
NamesKnown(w) ==
  /\ \/ req'[w].session \in {req[w].session, None}
     \/ session[req'[w].session].status # "none"
     \/ \A v \in Workers : req[v].session # req'[w].session
  /\ \/ req'[w].ticket \in {req[w].ticket, None}
     \/ ticket[req'[w].ticket].status # "none"
     \/ \A v \in Workers : req[v].ticket # req'[w].ticket

Known(w) == OwnIds(w)' /\ OwnReads(w)' /\ NamesKnown(w)

LEMMA EndingKnows ==
  ASSUME Typed, NEW w \in Workers, Finish(w)
  PROVE  Known(w)
<1>1. pc'[w] = "idle" /\ req'[w] = NoReq BY DEF Typed, TypeOK, Finish
<1>2. "idle" \notin Sharing \cup Closing \cup Holding
  BY DEF Sharing, Closing, Counting, Holding
<1>3. OwnIds(w)' /\ OwnReads(w)' BY <1>1, <1>2 DEF OwnIds, OwnReads, Closing
<1>. QED BY <1>1, <1>3 DEF Known, NamesKnown, NoReq

LEMMA BeginKnows ==
  ASSUME ReadsInv, NEW w \in Workers, Begin(w)
  PROVE  Known(w)
<1>. req[w] \in Reqs /\ Typed BY DEF ReadsInv, Typed, TypeOK
<1>1. ASSUME NEW r \in Registers, NEW s \in Sessions, OpenRead(w, r, s) PROVE Known(w)
  <2>. DEFINE q == [req[w] EXCEPT !.register = r, !.session = s]
  <2>1. /\ req' = [req EXCEPT ![w] = q] /\ Goto(w, "idle", "opening")
        /\ UNCHANGED <<session, ticket>>
        /\ session[s].status = "none" /\ \A v \in Workers : req[v].session # s
    BY <1>1 DEF OpenRead, rows
  <2>2. q.session = s /\ q.ticket = req[w].ticket BY DEF Reqs
  <2>. HIDE DEF q
  <2>3. OwnIds(w)' BY <2>1, <2>2, SeenFreshSession
  <2>4. "opening" \notin Sharing \cup Closing \cup Holding
    BY DEF Sharing, Closing, Counting, Holding
  <2>5. OwnReads(w)' BY <2>1, <2>4, SeenOwnReads DEF Closing
  <2>6. NamesKnown(w) BY <2>1, <2>2 DEF NamesKnown, Typed, TypeOK
  <2>. QED BY <2>3, <2>5, <2>6 DEF Known
<1>2. ASSUME NEW s \in Sessions, NEW t \in Tickets, NEW tb \in Tables \cup {None},
             RingBegin(w, s, t, tb) PROVE Known(w)
  <2>. DEFINE q == [req[w] EXCEPT !.session = s, !.ticket = t, !.table = tb]
  <2>1. /\ req' = [req EXCEPT ![w] = q] /\ Goto(w, "idle", "ringing")
        /\ UNCHANGED <<session, ticket>> /\ session[s].status = "open"
        /\ ticket[t].status = "none" /\ \A v \in Workers : req[v].ticket # t
    BY <1>2 DEF RingBegin, rows, Open, FreshTicket
  <2>2. q.session = s /\ q.ticket = t BY DEF Reqs
  <2>. HIDE DEF q
  <2>3. OwnIds(w)' BY <2>1, <2>2, SeenFreshTicket
  <2>4. "ringing" \notin Counting \cup Holding BY DEF Counting, Holding
  <2>5. OwnReads(w)' BY <2>1, <2>2, <2>4, SeenOwnReads
  <2>6. NamesKnown(w) BY <2>1, <2>2 DEF NamesKnown, Typed, TypeOK
  <2>. QED BY <2>3, <2>5, <2>6 DEF Known
<1>3. ASSUME NEW named \in Sessions, NEW rescue \in Sessions \cup {None}, NEW r \in Registers,
             NEW t \in Tickets, NEW tb \in Tables \cup {None},
             SyncCreateBegin(w, named, rescue, r, t, tb) PROVE Known(w)
  <2>. DEFINE target == ResolveForCreate(named, rescue, r)
              q == [req[w] EXCEPT !.session = target, !.ticket = t, !.table = tb]
  <2>1. session[target].status = "open" /\ target \in Sessions
    BY <1>3 DEF SyncCreateBegin, ResolveForCreate, SameRegisterOpen, Open
  <2>2. /\ req' = [req EXCEPT ![w] = q] /\ Goto(w, "idle", "replaying")
        /\ UNCHANGED <<session, ticket>>
        /\ ticket[t].status = "none" /\ \A v \in Workers : req[v].ticket # t
    BY <1>3 DEF SyncCreateBegin, rows, FreshTicket
  <2>3. q.session = target /\ q.ticket = t BY DEF Reqs
  <2>. HIDE DEF q, target
  <2>4. OwnIds(w)' BY <2>2, <2>3, SeenFreshTicket
  <2>5. "replaying" \notin Counting \cup Holding BY DEF Counting, Holding
  <2>6. OwnReads(w)' BY <2>1, <2>2, <2>3, <2>5, SeenOwnReads
  <2>7. NamesKnown(w) BY <2>1, <2>2, <2>3 DEF NamesKnown, Typed, TypeOK
  <2>. QED BY <2>4, <2>6, <2>7 DEF Known
<1>4. ASSUME NEW t \in Tickets, NEW q, NEW to \in Holding \cup {"recognizing", "linked"},
             req' = [req EXCEPT ![w] = q], Goto(w, "idle", to), UNCHANGED <<session, ticket>>,
             q.ticket = t, q.session = req[w].session,
             ticket[t].status = IF to = "returning" THEN "paid" ELSE "draft",
             to \notin Sharing
      PROVE  Known(w)
  <2>1. to \notin Sharing \cup Closing \cup {"opening", "ringing", "replaying", "rewriting"}
    BY <1>4 DEF Holding, Sharing, Closing, Counting
  <2>2. OwnIds(w)' BY <1>4, <2>1, SeenNoId
  <2>3. to \in Holding \ {"returning"} => ticket[q.ticket].status = "draft" BY <1>4
  <2>4. to = "returning" => ticket[q.ticket].status = "paid" BY <1>4
  <2>5. OwnReads(w)'
    BY <1>4, <2>1, <2>3, <2>4, SeenOwnReads DEF Closing, Sharing
  <2>6. NamesKnown(w) BY <1>4 DEF NamesKnown, Typed, TypeOK
  <2>. QED BY <2>2, <2>5, <2>6 DEF Known
<1>5. ASSUME NEW t \in Tickets, TenderLock(w, t) PROVE Known(w)
  <2>. DEFINE q == [req[w] EXCEPT !.ticket = t]
  <2>1. q.session = req[w].session /\ q.ticket = t BY DEF Reqs
  <2>2. /\ req' = [req EXCEPT ![w] = q] /\ Goto(w, "idle", "tender_locked")
        /\ UNCHANGED <<session, ticket>> /\ ticket[t].status = "draft"
    BY <1>5 DEF TenderLock, rows
  <2>3. "tender_locked" \in Holding \ Sharing BY DEF Holding, Sharing
  <2>. HIDE DEF q
  <2>. QED BY <1>4, <2>1, <2>2, <2>3
<1>6. ASSUME NEW t \in Tickets, RewriteLock(w, t) PROVE Known(w)
  <2>. DEFINE q == [req[w] EXCEPT !.ticket = t, !.full = Full(ticket[t].total, ticket[t].paid)]
  <2>1. q.session = req[w].session /\ q.ticket = t BY DEF Reqs
  <2>2. /\ req' = [req EXCEPT ![w] = q] /\ Goto(w, "idle", "rewrite_locked")
        /\ UNCHANGED <<session, ticket>> /\ ticket[t].status = "draft"
    BY <1>6 DEF RewriteLock, rows
  <2>3. "rewrite_locked" \in Holding \ Sharing BY DEF Holding, Sharing
  <2>. HIDE DEF q
  <2>. QED BY <1>4, <2>1, <2>2, <2>3
<1>7. ASSUME NEW t \in Tickets, RecognizeFetch(w, t) PROVE Known(w)
  <2>. DEFINE q == [req[w] EXCEPT !.ticket = t, !.amount = ticket[t].total]
              to == IF ticket[t].billed = None THEN "recognizing" ELSE "linked"
  <2>1. q.session = req[w].session /\ q.ticket = t BY DEF Reqs
  <2>2. /\ req' = [req EXCEPT ![w] = q] /\ Goto(w, "idle", to)
        /\ UNCHANGED <<session, ticket>> /\ ticket[t].status = "draft"
    BY <1>7 DEF RecognizeFetch, rows
  <2>3. to \in {"recognizing", "linked"} /\ to \notin Sharing BY DEF Sharing
  <2>4. to # "returning" OBVIOUS
  <2>. HIDE DEF q, to
  <2>. QED BY <1>4, <2>1, <2>2, <2>3, <2>4
<1>8. ASSUME NEW t \in Tickets, ReturnFlip(w, t) PROVE Known(w)
  <2>. DEFINE q == [req[w] EXCEPT !.ticket = t]
  <2>1. q.session = req[w].session /\ q.ticket = t BY DEF Reqs
  <2>2. /\ req' = [req EXCEPT ![w] = q] /\ Goto(w, "idle", "returning")
        /\ UNCHANGED <<session, ticket>> /\ ticket[t].status = "paid"
    BY <1>8 DEF ReturnFlip, rows
  <2>3. "returning" \in Holding \ Sharing BY DEF Holding, Sharing
  <2>. HIDE DEF q
  <2>. QED BY <1>4, <2>1, <2>2, <2>3
<1>9. ASSUME NEW s \in Sessions, MovementLock(w, s) \/ CloseBegin(w, s) PROVE Known(w)
  <2>. DEFINE q == [req[w] EXCEPT !.session = s]
  <2>1. q.session = s /\ q.ticket = req[w].ticket BY DEF Reqs
  <2>2. PICK to \in {"moving", "closing"} :
          /\ req' = [req EXCEPT ![w] = q] /\ Goto(w, "idle", to)
          /\ UNCHANGED <<session, ticket>> /\ session[s].status = "open"
    BY <1>9 DEF MovementLock, CloseBegin, rows, Open
  <2>3. to \notin Counting \cup Holding \cup {"opening", "ringing", "replaying"}
    BY DEF Counting, Holding
  <2>. HIDE DEF q
  <2>4. OwnIds(w)' BY <2>2, <2>3, SeenNoId
  <2>5. OwnReads(w)' BY <2>1, <2>2, <2>3, SeenOwnReads DEF Holding
  <2>6. NamesKnown(w) BY <2>1, <2>2 DEF NamesKnown, Typed, TypeOK
  <2>. QED BY <2>4, <2>5, <2>6 DEF Known
<1>. QED BY <1>1, <1>2, <1>3, <1>5, <1>6, <1>7, <1>8, <1>9 DEF Begin

\* A replay of a draft can only resolve to the session the draft is in.
LEMMA ResolvedOwn ==
  ASSUME NEW own, Open(own), NEW named, NEW rescue,
         ResolveForUpdate(own, named, rescue) # None
  PROVE  ResolveForUpdate(own, named, rescue) = own
BY DEF ResolveForUpdate

LEMMA GoingOnKnows ==
  ASSUME ReadsInv, NEW w \in Workers, GoingOn(w)
  PROVE  Known(w)
<1>. DEFINE t == req[w].ticket
            s == req[w].session
<1>. req[w] \in Reqs /\ Typed /\ OwnReads(w)
  BY ReadsAreOwnReads DEF ReadsInv, Typed, TypeOK
<1>1. ASSUME NEW m \in Methods, NEW a \in Amounts, TenderInsert(w, m, a) PROVE Known(w)
  <2>. DEFINE own == ticket[t].session
              q == [req[w] EXCEPT !.session = own, !.tender = [NoTenders EXCEPT ![m] = a],
                                  !.amount = Paid(t) + a]
  <2>1. /\ req' = [req EXCEPT ![w] = q] /\ Goto(w, "tender_locked", "tender_inserted")
        /\ UNCHANGED <<session, ticket>> /\ session[own].status = "open"
    BY <1>1 DEF TenderInsert, rows, Open
  <2>2. ticket[t].status = "draft" BY <2>1 DEF OwnReads, Holding, Goto
  <2>3. q.session = own /\ q.ticket = t BY DEF Reqs
  <2>. HIDE DEF q
  <2>4. OwnIds(w)' BY <2>1, SeenNoId
  <2>5. "tender_inserted" \notin Counting BY DEF Counting
  <2>6. OwnReads(w)' BY <2>1, <2>2, <2>3, <2>5, SeenOwnReads
  <2>7. NamesKnown(w) BY <2>1, <2>3 DEF NamesKnown, Typed, TypeOK
  <2>. QED BY <2>4, <2>6, <2>7 DEF Known
<1>2. ASSUME NEW named \in Sessions, NEW rescue \in Sessions \cup {None},
             NEW tb \in Tables \cup {None}, RewriteSession(w, named, rescue, tb)
      PROVE  Known(w)
  <2>. DEFINE own == ticket[t].session
              q == [req[w] EXCEPT !.session = ResolveForUpdate(own, named, rescue),
                                  !.table = tb]
  <2>1. /\ req' = [req EXCEPT ![w] = q] /\ Goto(w, "rewrite_locked", "rewriting")
        /\ UNCHANGED <<session, ticket>> /\ ResolveForUpdate(own, named, rescue) # None
    BY <1>2 DEF RewriteSession, rows
  <2>2. t \in Tickets BY <2>1, NamedRows DEF Goto
  <2>3. ticket[t].status = "draft" BY <2>1 DEF OwnReads, Holding, Goto
  <2>4. Open(own)
    BY <2>2, <2>3 DEF ReadsInv, NoDraftInClosedSession, TicketsNameSessions, Open
  <2>5. q.session = own /\ q.ticket = t BY <2>1, <2>4, ResolvedOwn DEF Reqs
  <2>. HIDE DEF q
  <2>6. OwnIds(w)' BY <2>1, SeenNoId
  <2>7. "rewriting" \notin Counting BY DEF Counting
  <2>8. OwnReads(w)' BY <2>1, <2>3, <2>4, <2>5, <2>7, SeenOwnReads DEF Open
  <2>9. NamesKnown(w) BY <2>1, <2>4, <2>5 DEF NamesKnown, Open, Typed, TypeOK
  <2>. QED BY <2>6, <2>8, <2>9 DEF Known
<1>3. CASE RecognizeLink(w)
  <2>1. pc'[w] = "linked" /\ req' = req
    BY <1>3 DEF RecognizeLink, Goto, Typed, TypeOK
  <2>2. "linked" \notin Sharing \cup Closing \cup Holding
    BY DEF Sharing, Closing, Counting, Holding
  <2>. QED BY <2>1, <2>2 DEF Known, OwnIds, OwnReads, NamesKnown, Closing
<1>4. ASSUME NEW from \in Closing, NEW to \in Counting, NEW q, Goto(w, from, to),
             req' = [req EXCEPT ![w] = q], q.session = s, q.ticket = t,
             UNCHANGED <<session, ticket>>, TicketsOf(s, "draft") = {}
      PROVE  Known(w)
  <2>1. to \notin Holding \cup {"opening", "ringing", "replaying"}
    BY DEF Counting, Holding
  <2>2. session[s].status = "open" BY <1>4 DEF OwnReads, Goto
  <2>3. OwnIds(w)' BY <1>4, <2>1, SeenNoId
  <2>4. OwnReads(w)' BY <1>4, <2>1, <2>2, SeenOwnReads DEF Holding
  <2>5. NamesKnown(w) BY <1>4 DEF NamesKnown, Typed, TypeOK
  <2>. QED BY <2>3, <2>4, <2>5 DEF Known
<1>5. CASE CloseGuard(w)
  <2>1. /\ req' = [req EXCEPT ![w] = req[w]] /\ TicketsOf(s, "draft") = {}
        /\ Goto(w, "closing", "count_tenders") /\ UNCHANGED <<session, ticket>>
    BY <1>5 DEF CloseGuard, rows, Typed, TypeOK
  <2>2. "closing" \in Closing /\ "count_tenders" \in Counting BY DEF Closing, Counting
  <2>. QED BY <1>4, <2>1, <2>2
<1>6. ASSUME NEW from \in Counting, NEW to \in Counting, NEW seen,
             CloseCount(w, from, to, seen)
      PROVE  Known(w)
  <2>. DEFINE q == [req[w] EXCEPT !.drawer = seen]
  <2>1. q.session = s /\ q.ticket = t BY DEF Reqs
  <2>2. /\ req' = [req EXCEPT ![w] = q] /\ Goto(w, from, to)
        /\ UNCHANGED <<session, ticket>>
    BY <1>6 DEF CloseCount, rows
  <2>3. TicketsOf(s, "draft") = {} BY <2>2 DEF OwnReads, Goto
  <2>4. from \in Closing BY DEF Closing
  <2>. HIDE DEF q
  <2>. QED BY <1>4, <2>1, <2>2, <2>3, <2>4
<1>7. ASSUME CountTenders(w) \/ CountChange(w) \/ CountMoves(w) \/ CountSales(w)
      PROVE  Known(w)
  BY <1>6, <1>7 DEF CountTenders, CountChange, CountMoves, CountSales, Counting
<1>. QED BY <1>1, <1>2, <1>3, <1>5, <1>7 DEF GoingOn

LEMMA StepKnows ==
  ASSUME ReadsInv, NEW w \in Workers, Busy(w)
  PROVE  Known(w)
BY StepKinds, EndingFinishes, EndingKnows, BeginKnows, GoingOnKnows DEF ReadsInv

\* A step of w writes nothing another request counts on.
LEMMA OthersReads ==
  ASSUME ReadsInv, NEW w \in Workers, Busy(w), NEW v \in Workers \ {w}
  PROVE  OwnIds(v)' /\ OwnReads(v)'
<1>. DEFINE t == req[v].ticket
            s == req[v].session
<1>. /\ Typed /\ LocksAreHeld /\ OwnIds(v) /\ OwnReads(v) /\ OwnIds(w) /\ OwnReads(w)
     /\ OwnLocks(v) /\ OwnLocks(w) /\ ExclusionHolds
  BY ReadsAreOwnReads, LocksAreOwnLocks DEF ReadsInv
<1>1. OthersKept(w) /\ NamesKnown(w) BY StepKeeps, StepKnows DEF Known
<1>2. pc'[v] = pc[v] /\ req'[v] = req[v] /\ v # w BY <1>1 DEF OthersKept
<1>3. ASSUME pc[v] = "opening"
      PROVE  /\ session'[s].status = "none"
             /\ \A u \in Workers \ {v} : req'[u].session # s
  <2>1. s \in Sessions /\ s # None BY <1>3, NamedRows, NoneAssumption
  <2>2. session[s].status = "none" /\ \A u \in Workers \ {v} : req[u].session # s
    BY <1>3 DEF OwnIds
  <2>3. SessionWritten(w, s) BY <2>1, SessionWrites
  <2>4. session'[s].status = "none" BY <2>2, <2>3 DEF SessionWritten
  <2>5. req'[w].session # s BY <1>1, <2>1, <2>2 DEF NamesKnown
  <2>6. \A u \in Workers \ {w} : req'[u] = req[u] BY <1>1 DEF OthersKept
  <2>. QED BY <2>2, <2>4, <2>5, <2>6
<1>4. ASSUME pc[v] \in {"ringing", "replaying"}
      PROVE  /\ ticket'[t].status = "none"
             /\ \A u \in Workers \ {v} : req'[u].ticket # t
  <2>1. t \in Tickets /\ t # None BY <1>4, NamedRows, NoneAssumption
  <2>2. ticket[t].status = "none" /\ \A u \in Workers \ {v} : req[u].ticket # t
    BY <1>4 DEF OwnIds
  <2>3. TicketWritten(w, t) BY <2>1, TicketWrites
  <2>4. ticket'[t].status = "none" BY <2>2, <2>3 DEF TicketWritten
  <2>5. req'[w].ticket # t BY <1>1, <2>1, <2>2 DEF NamesKnown
  <2>6. \A u \in Workers \ {w} : req'[u] = req[u] BY <1>1 DEF OthersKept
  <2>. QED BY <2>2, <2>4, <2>5, <2>6
<1>5. ASSUME pc[v] \in Sharing \cup Closing PROVE session'[s].status = "open"
  <2>1. s \in Sessions BY <1>5, NamedRows DEF Sharing, Closing
  <2>2. session[s].status = "open" BY <1>5 DEF OwnReads
  <2>3. sessExcl[s] # w
    BY <1>2, <1>5, <2>1, WorkersExist DEF OwnLocks, ExclusionHolds
  <2>4. pc[w] = "counted" => s # req[w].session
    BY <2>3 DEF OwnLocks, Closing, Counting
  <2>5. pc[w] = "opening" => s # req[w].session BY <2>2 DEF OwnIds
  <2>. QED BY <2>1, <2>2, <2>4, <2>5, SessionWrites DEF SessionWritten
<1>6. ASSUME pc[v] \in Holding PROVE ticket'[t] = ticket[t] /\ tenders'[t] = tenders[t]
  <2>1. t \in Tickets BY <1>6, NamedRows DEF Holding
  <2>2. ticketLock[t] = v BY <1>6 DEF OwnLocks
  <2>3. ticketLock[t] # w /\ ticketLock[t] # None BY <1>2, <2>2, WorkersExist
  <2>4. pc[w] \in Holding => t # req[w].ticket BY <2>3 DEF OwnLocks
  <2>5. ticket[t].status \in {"draft", "paid"} BY <1>6 DEF OwnReads
  <2>6. pc[w] \in {"ringing", "replaying"} => t # req[w].ticket BY <2>5 DEF OwnIds
  <2>7. TicketWritten(w, t) BY <2>1, TicketWrites
  <2>. QED BY <2>3, <2>4, <2>6, <2>7 DEF TicketWritten, Holding
<1>7. ASSUME pc[v] \in Counting PROVE TicketsOf(s, "draft")' = {}
  <2>1. s \in Sessions BY <1>7, NamedRows
  <2>2. sessExcl[s] = v BY <1>7 DEF OwnLocks, Closing
  <2>3. pc[w] \in Sharing => s # req[w].session
    BY <1>2, <2>1, <2>2, WorkersExist DEF OwnLocks, ExclusionHolds
  <2>4. ASSUME NEW u \in Tickets, ticket'[u].status = "draft", ticket'[u].session = s
        PROVE  FALSE
    <3>1. ~(ticket[u].status = "draft" /\ ticket[u].session = s)
      BY <1>7 DEF OwnReads, TicketsOf
    <3>2. TicketWritten(w, u) BY TicketWrites
    <3>3. pc[w] = "tender_inserted" /\ u = req[w].ticket => ticket[u].session = req[w].session
      BY DEF OwnReads
    <3>4. ticket[u] \in TicketRows BY DEF Typed, TypeOK
    <3>. QED BY <2>3, <2>4, <3>1, <3>2, <3>3, <3>4 DEF TicketWritten, Sharing, TicketRows
  <2>. QED BY <1>2, <2>4 DEF TicketsOf
<1>8. OwnIds(v)' BY <1>2, <1>3, <1>4 DEF OwnIds
<1>9. OwnReads(v)'
  <2>1. {"tender_inserted", "rewriting"} \subseteq Holding /\ "returning" \in Holding
    BY DEF Holding
  <2>. QED BY <1>2, <1>5, <1>6, <1>7, <2>1 DEF OwnReads
<1>. QED BY <1>8, <1>9

\* A draft is written in an open session, and a session closes only without drafts.
LEMMA DraftsStep ==
  ASSUME ReadsInv, NEW w \in Workers, Busy(w)
  PROVE  NoDraftInClosedSession' /\ TicketsNameSessions'
<1>. /\ Typed /\ OwnIds(w) /\ OwnReads(w)
     /\ ticket \in [Tickets -> TicketRows] /\ session \in [Sessions -> SessionRows]
  BY ReadsAreOwnReads DEF ReadsInv, Typed, TypeOK
<1>1. ASSUME NEW t \in Tickets
      PROVE  /\ ticket'[t].status # "none" => ticket'[t].session \in Sessions
             /\ ticket'[t].status = "draft" => session[ticket'[t].session].status = "open"
  <2>1. pc[w] \in {"ringing", "replaying", "rewriting"} =>
          req[w].session \in Sessions /\ session[req[w].session].status = "open"
    BY NamedRows DEF OwnReads, Sharing
  <2>2. ticket[t] \in TicketRows OBVIOUS
  <2>3. /\ ticket[t].status # "none" => ticket[t].session \in Sessions
        /\ ticket[t].status = "draft" => session[ticket[t].session].status = "open"
    BY DEF ReadsInv, TicketsNameSessions, NoDraftInClosedSession
  <2>4. pc[w] = "tender_inserted" => ticket[req[w].ticket].status = "draft"
    BY DEF OwnReads, Holding
  <2>5. pc[w] = "returning" => ticket[req[w].ticket].status = "paid" BY DEF OwnReads
  <2>6. TicketWritten(w, t) BY TicketWrites
  <2>7. CASE ticket'[t].status = ticket[t].status /\ ticket'[t].session = ticket[t].session
    BY <2>3, <2>7
  <2>8. CASE ticket'[t].status = "draft" /\ ticket'[t].session = req[w].session
             /\ pc[w] \in {"ringing", "replaying", "rewriting"}
    BY <2>1, <2>8
  <2>9. CASE /\ ticket'[t].status \in {"paid", "returned"}
             /\ ticket[t].status \in {"draft", "paid"}
             /\ ticket'[t].session = ticket[t].session
    BY <2>3, <2>9
  <2>. QED
    BY <2>2, <2>4, <2>5, <2>6, <2>7, <2>8, <2>9 DEF TicketWritten, TicketRows
<1>2. ASSUME NEW t \in Tickets, ticket'[t].status = "draft"
      PROVE  session'[ticket'[t].session].status = "open"
  <2>1. PICK s \in Sessions : s = ticket'[t].session /\ session[s].status = "open"
    BY <1>1, <1>2
  <2>2. ASSUME session'[s].status # "open" PROVE FALSE
    <3>0. SessionWritten(w, s) BY SessionWrites
    <3>1. pc[w] = "counted" /\ s = req[w].session
      BY <2>1, <2>2, <3>0 DEF SessionWritten
    <3>2. TicketsOf(s, "draft") = {} BY <3>1 DEF OwnReads, Counting
    <3>3. ticket'[t] = ticket[t] BY <3>1, TicketWrites DEF TicketWritten
    <3>. QED BY <1>2, <2>1, <3>2, <3>3 DEF TicketsOf
  <2>. QED BY <2>1, <2>2
<1>. QED BY <1>1, <1>2 DEF NoDraftInClosedSession, TicketsNameSessions

LEMMA InitReads == Init => ReadsInv
<1>. SUFFICES ASSUME Init PROVE ReadsInv OBVIOUS
<1>1. Typed BY InitTyped
<1>2. /\ \A w \in Workers : pc[w] = "idle"
      /\ \A s \in Sessions : sessExcl[s] = None
      /\ \A t \in Tickets : ticket[t].status = "none"
  BY DEF Init, NoTicketRow
<1>3. "idle" \notin Sharing \cup Closing \cup Holding
  BY DEF Sharing, Closing, Counting, Holding
<1>4. LocksAreHeld /\ IdsAreFresh /\ ReadsStillHold
  BY <1>2, <1>3 DEF LocksAreHeld, IdsAreFresh, ReadsStillHold, Closing
<1>5. TicketsNameSessions /\ NoDraftInClosedSession
  BY <1>2 DEF TicketsNameSessions, NoDraftInClosedSession
<1>. QED BY <1>1, <1>4, <1>5 DEF ReadsInv

LEMMA ReadsStep == ReadsInv /\ [Next]_vars => ReadsInv'
<1>. SUFFICES ASSUME ReadsInv, [Next]_vars PROVE ReadsInv' OBVIOUS
<1>1. ASSUME NEW w \in Workers, Busy(w) PROVE ReadsInv'
  <2>1. Typed' BY <1>1, TypedStep DEF ReadsInv, Busy, Next
  <2>2. LocksAreHeld' BY <1>1, LocksStep DEF ReadsInv
  <2>3. OwnIds(w)' /\ OwnReads(w)' BY <1>1, StepKnows DEF Known
  <2>4. \A v \in Workers \ {w} : OwnIds(v)' /\ OwnReads(v)' BY <1>1, OthersReads
  <2>5. \A v \in Workers : OwnIds(v)' /\ OwnReads(v)' BY <2>3, <2>4
  <2>6. IdsAreFresh' /\ ReadsStillHold'
    BY <2>5 DEF IdsAreFresh, ReadsStillHold, OwnIds, OwnReads
  <2>. QED BY <1>1, <2>1, <2>2, <2>6, DraftsStep DEF ReadsInv
<1>2. CASE UNCHANGED vars
  BY <1>2, StutterTyped
  DEF ReadsInv, vars, LocksAreHeld, IdsAreFresh, TicketsNameSessions,
      NoDraftInClosedSession, ReadsStillHold, TicketsOf
<1>. QED BY <1>1, <1>2 DEF Next, Busy

LEMMA ReadsInvariant == Spec => []ReadsInv
BY InitReads, ReadsStep, PTL DEF Spec

\* No interleaving of requests leaves a draft in a closed session, for any number of
\* requests, sessions and tickets.
THEOREM DraftsOnlyInOpenSessions == Spec => []NoDraftInClosedSession
<1>1. ReadsInv => NoDraftInClosedSession BY DEF ReadsInv
<1>. QED BY <1>1, ReadsInvariant, PTL

\* No replay moves a ticket to another session, though the code has an arm that would.
THEOREM TicketsStayInTheirSession == Spec => TicketKeepsItsSession
<1>1. ASSUME ReadsInv, [Next]_vars, NEW t \in Tickets, ticket[t].status # "none"
      PROVE  ticket'[t].session = ticket[t].session
  <2>1. ASSUME NEW w \in Workers, Busy(w) PROVE ticket'[t].session = ticket[t].session
    <3>1. Typed /\ OwnIds(w) /\ OwnReads(w) /\ ticket[t] \in TicketRows
      BY <1>1, ReadsAreOwnReads DEF ReadsInv, Typed, TypeOK
    <3>2. TicketWritten(w, t) BY <2>1, <3>1, TicketWrites
    <3>. QED BY <1>1, <3>1, <3>2 DEF TicketWritten, OwnIds, OwnReads, TicketRows
  <2>2. UNCHANGED vars => ticket' = ticket BY DEF vars
  <2>. QED BY <1>1, <2>1, <2>2 DEF Next, Busy
<1>2. ReadsInv /\ [Next]_vars =>
        [\A t \in Tickets : ticket[t].status # "none"
           => ticket'[t].session = ticket[t].session]_ticket
  BY <1>1
<1>. QED BY <1>2, ReadsInvariant, PTL DEF Spec, TicketKeepsItsSession

=============================================================================
