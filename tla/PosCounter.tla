------------------------------ MODULE PosCounter ------------------------------
(***************************************************************************)
(* One till of the POS module, at the grain of its database transactions.  *)
(*                                                                         *)
(* A worker is one request being served.  Every write verb runs one        *)
(* transaction: it takes row locks, reads, and commits all it wrote at     *)
(* once, so an action here is one statement a lock or an earlier read can  *)
(* separate from the next, and the last action of a verb is its commit.    *)
(* session, ticket, tenders, movements and closing hold COMMITTED rows:    *)
(* what a transaction has written and not committed lives in the worker's  *)
(* req, and an abort only forgets it.                                      *)
(*                                                                         *)
(* Row locks, as PostgreSQL gives them:                                    *)
(*   ticketLock   FOR UPDATE, or an uncommitted UPDATE, on a ticket        *)
(*   sessShare    FOR SHARE on a session                                   *)
(*   sessExcl     FOR UPDATE on a session: excludes FOR SHARE, and the     *)
(*                FOR KEY SHARE a foreign-key check takes                  *)
(*   advisory     the per-ticket advisory lock of a recognition            *)
(***************************************************************************)
EXTENDS Integers

CONSTANTS
  Workers,      \* requests being served at once
  Registers,    \* POS profiles
  Sessions,     \* ids an opening entry may be given
  Tickets,      \* ids an invoice may be given
  Tables,       \* restaurant tables
  Totals,       \* rounded totals a basket may compute to
  Amounts,      \* amounts of one tender, or of one cash movement
  MaxPaid,      \* bound on what one ticket is tendered
  MaxMoved,     \* bound on the net cash movement of a session, either way
  MaxTriggers,  \* bound on PosTenderCompleted events of one ticket
  None          \* no row, no worker, no table

ASSUME NoneAssumption ==
  None \notin Workers \cup Registers \cup Sessions \cup Tickets \cup Tables
ASSUME AmountAssumption ==
  /\ Totals \subseteq Nat
  /\ Amounts \subseteq Nat \ {0}
  /\ MaxPaid \in Nat /\ MaxMoved \in Nat /\ MaxTriggers \in Nat

VARIABLES
  session,    \* opening entries
  ticket,     \* invoices
  tenders,    \* live tenders of a ticket, summed per method
  movements,  \* net cash movement of a session
  closing,    \* the drawer a closing entry recorded
  triggers,   \* PosTenderCompleted events staged for a ticket so far
  ticketLock, sessShare, sessExcl, advisory,
  pc,         \* what each worker does next
  req         \* what each worker holds between two statements

rows  == <<session, ticket, tenders, movements, closing, triggers>>
locks == <<ticketLock, sessShare, sessExcl, advisory>>
vars  == <<session, ticket, tenders, movements, closing, triggers,
           ticketLock, sessShare, sessExcl, advisory, pc, req>>

Methods == {"cash", "card"}

NoTenders == [m \in Methods |-> 0]

NoSessionRow == [status |-> "none", register |-> None]

NoTicketRow == [status |-> "none", session |-> None, table |-> None,
                total |-> 0, paid |-> 0, change |-> 0, billed |-> None]

\* What compute_drawer read: the rows a sum runs over stand for the sum.
NoRows   == [t \in Tickets |-> None]
NoDrawer == [tendered |-> NoRows, change |-> NoRows, moved |-> 0, sales |-> NoRows]

NoReq == [register |-> None, session |-> None, ticket |-> None, table |-> None,
          tender |-> NoTenders, amount |-> 0, full |-> FALSE,
          drawer |-> NoDrawer]

PC == {"idle", "opening", "ringing", "replaying", "moving",
       "tender_locked", "tender_inserted", "rewrite_locked", "rewriting",
       "recognizing", "linked", "returning",
       "closing", "count_tenders", "count_change", "count_moves",
       "count_sales", "counted"}

----------------------------------------------------------------------------
(* Money on a ticket. *)

SumOf(ts) == ts["cash"] + ts["card"]

Paid(t) == SumOf(tenders[t])

\* Mutant: the clamp at zero is forgotten.
ChangeUnclamped(paid, total) == paid - total

ChangeOf(paid, total) == IF paid > total THEN paid - total ELSE 0

\* The tenders other than cash cover at most what is due: change is cash.
NonCashFits(ts, total) == ts["card"] <= total

Full(total, paid) == total > 0 /\ paid >= total

\* Mutant: every write that leaves the ticket paid up stages the event again.
TriggeredAgain(t, wasFull, total, paid) ==
  IF Full(total, paid) THEN [triggers EXCEPT ![t] = @ + 1] ELSE triggers

\* Staged exactly when a write takes a ticket from not paid up to paid up.
Triggered(t, wasFull, total, paid) ==
  IF ~wasFull /\ Full(total, paid) THEN [triggers EXCEPT ![t] = @ + 1]
                                   ELSE triggers

----------------------------------------------------------------------------
(* What a committed read sees. *)

Open(s) == s \in Sessions /\ session[s].status = "open"

TicketsOf(s, status) ==
  {t \in Tickets : ticket[t].session = s /\ ticket[t].status = status}

DraftsOnTable(tb) ==
  {t \in Tickets : ticket[t].table = tb /\ ticket[t].status = "draft"}

HasOpenSession(r) ==
  \E s \in Sessions : session[s].status = "open" /\ session[s].register = r

\* The partial unique index on (pos_table_id) WHERE status = 'draft'.
TableIsFree(tb, except) == tb = None \/ DraftsOnTable(tb) \subseteq except

\* What compute_drawer reads, statement by statement.
PaidRows(s, column) ==
  [t \in Tickets |-> IF t \in TicketsOf(s, "paid") THEN column[t] ELSE None]

TenderedIn(s)  == PaidRows(s, tenders)
ChangeGiven(s) == PaidRows(s, [t \in Tickets |-> ticket[t].change])
SalesIn(s)     == PaidRows(s, [t \in Tickets |-> ticket[t].total])

DrawerOf(s) == [tendered |-> TenderedIn(s), change |-> ChangeGiven(s),
                moved |-> movements[s], sales |-> SalesIn(s)]

----------------------------------------------------------------------------
(* Locks. *)

CanShare(s) == sessExcl[s] = None

CanLockSession(s) == sessExcl[s] = None /\ sessShare[s] = {}

\* Mutant: the session is read and not locked.
PlainSessionRead(w, ss) == (\A s \in ss : CanShare(s)) /\ UNCHANGED sessShare

TakeShare(w, ss) ==
  /\ \A s \in ss : CanShare(s)
  /\ sessShare' = [s \in Sessions |->
                     IF s \in ss THEN sessShare[s] \cup {w} ELSE sessShare[s]]

\* Mutant: the ticket is read and not locked.
PlainTicketRead(w, t) == ticketLock[t] = None /\ UNCHANGED ticketLock

TakeTicket(w, t) ==
  /\ ticketLock[t] = None
  /\ ticketLock' = [ticketLock EXCEPT ![t] = w]

Release(w) ==
  /\ ticketLock' = [t \in Tickets |-> IF ticketLock[t] = w THEN None ELSE ticketLock[t]]
  /\ sessShare'  = [s \in Sessions |-> sessShare[s] \ {w}]
  /\ sessExcl'   = [s \in Sessions |-> IF sessExcl[s] = w THEN None ELSE sessExcl[s]]
  /\ advisory'   = [t \in Tickets |-> IF advisory[t] = w THEN None ELSE advisory[t]]

Goto(w, from, to) == pc[w] = from /\ pc' = [pc EXCEPT ![w] = to]

\* Commit or give up: locks go, the worker serves its next request.
Finish(w) ==
  /\ pc'  = [pc EXCEPT ![w] = "idle"]
  /\ req' = [req EXCEPT ![w] = NoReq]
  /\ Release(w)

----------------------------------------------------------------------------
(* open_session *)

\* has_open_session is a plain read: nothing is locked by it.
OpenRead(w, r, s) ==
  /\ Goto(w, "idle", "opening")
  /\ ~HasOpenSession(r)
  /\ session[s].status = "none" /\ \A v \in Workers : req[v].session # s
  /\ req' = [req EXCEPT ![w].register = r, ![w].session = s]
  /\ UNCHANGED <<rows, locks>>

\* Mutant: no slot index, the read of OpenRead is the only guard.
NoSlotIndex(r) == TRUE

\* The register's slot index decides a race of two opens.
SlotIsFree(r) == ~HasOpenSession(r)

OpenInsert(w) ==
  /\ pc[w] = "opening"
  /\ SlotIsFree(req[w].register)
  /\ session' = [session EXCEPT ![req[w].session] =
                   [status |-> "open", register |-> req[w].register]]
  /\ Finish(w)
  /\ UNCHANGED <<ticket, tenders, movements, closing, triggers>>

----------------------------------------------------------------------------
(* ring_sale, and the create half of sync_from_ui *)

Draft(s, tb, total, ts) ==
  [status |-> "draft", session |-> s, table |-> tb, total |-> total,
   paid |-> SumOf(ts), change |-> ChangeOf(SumOf(ts), total), billed |-> None]

\* The open-session check locks the session row; the table check is a read.
FreshTicket(t) == ticket[t].status = "none" /\ \A v \in Workers : req[v].ticket # t

RingBegin(w, s, t, tb) ==
  /\ Goto(w, "idle", "ringing")
  /\ TakeShare(w, {s})
  /\ Open(s)
  /\ TableIsFree(tb, {})
  /\ FreshTicket(t)
  /\ req' = [req EXCEPT ![w].session = s, ![w].ticket = t, ![w].table = tb]
  /\ UNCHANGED <<rows, ticketLock, sessExcl, advisory>>

\* Mutant: no partial unique index on the table of a draft.
InsertDraftNoIndex(w, total, ts) ==
  LET t == req[w].ticket IN
  /\ ticket' = [ticket EXCEPT ![t] = Draft(req[w].session, req[w].table, total, ts)]
  /\ tenders' = [tenders EXCEPT ![t] = ts]
  /\ triggers' = Triggered(t, FALSE, total, SumOf(ts))
  /\ Finish(w)
  /\ UNCHANGED <<session, movements, closing>>

InsertDraft(w, total, ts) ==
  LET t == req[w].ticket IN
  /\ TableIsFree(req[w].table, {})
  /\ ticket' = [ticket EXCEPT ![t] = Draft(req[w].session, req[w].table, total, ts)]
  /\ tenders' = [tenders EXCEPT ![t] = ts]
  /\ triggers' = Triggered(t, FALSE, total, SumOf(ts))
  /\ Finish(w)
  /\ UNCHANGED <<session, movements, closing>>

RingInsert(w, total) ==
  /\ pc[w] = "ringing"
  /\ InsertDraft(w, total, NoTenders)

\* An open session on the named register, or no session.
SameRegisterOpen(s, r) == IF Open(s) /\ session[s].register = r THEN s ELSE None

\* The session a replayed ticket lands in: the named one while it is open, else the
\* rescue, and either only on the ticket's own register.
ResolveForCreate(named, rescue, r) ==
  IF session[named].status = "open" THEN SameRegisterOpen(named, r)
                                    ELSE SameRegisterOpen(rescue, r)

SyncCreateBegin(w, named, rescue, r, t, tb) ==
  LET target == ResolveForCreate(named, rescue, r) IN
  /\ Goto(w, "idle", "replaying")
  /\ session[named].status # "none"
  /\ target # None
  /\ TakeShare(w, {named, target})
  /\ TableIsFree(tb, {})
  /\ FreshTicket(t)
  /\ req' = [req EXCEPT ![w].session = target, ![w].ticket = t, ![w].table = tb]
  /\ UNCHANGED <<rows, ticketLock, sessExcl, advisory>>

\* The tenders a replay may carry: one amount, or nothing, per method.
Replayed == {ts \in [Methods -> Amounts \cup {0}] : SumOf(ts) <= MaxPaid}

SyncCreateInsert(w, total, ts) ==
  /\ pc[w] = "replaying"
  /\ NonCashFits(ts, total)
  /\ InsertDraft(w, total, ts)

----------------------------------------------------------------------------
(* add_tender *)

\* Mutant: the header is read without FOR UPDATE.
TenderReadOnly(w, t) ==
  /\ Goto(w, "idle", "tender_locked")
  /\ ticket[t].status = "draft"
  /\ Paid(t) < MaxPaid /\ triggers[t] < MaxTriggers
  /\ req' = [req EXCEPT ![w].ticket = t]
  /\ UNCHANGED <<rows, locks>>

TenderLock(w, t) ==
  /\ Goto(w, "idle", "tender_locked")
  /\ TakeTicket(w, t)
  /\ ticket[t].status = "draft"
  /\ Paid(t) < MaxPaid /\ triggers[t] < MaxTriggers
  /\ req' = [req EXCEPT ![w].ticket = t]
  /\ UNCHANGED <<rows, sessShare, sessExcl, advisory>>

\* Under the ticket lock: the session must be open; what is already paid is summed,
\* the tender is inserted, and the tenders are summed again, with the new one in.
TenderInsert(w, m, a) ==
  LET t  == req[w].ticket
      ts == [NoTenders EXCEPT ![m] = a]
      remaining == ticket[t].total - Paid(t) IN
  /\ Goto(w, "tender_locked", "tender_inserted")
  /\ TakeShare(w, {ticket[t].session})
  /\ Open(ticket[t].session)
  /\ m # "cash" => a <= remaining
  /\ Paid(t) + a <= MaxPaid
  /\ req' = [req EXCEPT ![w].session = ticket[t].session,
                        ![w].tender = ts, ![w].amount = Paid(t) + a]
  /\ UNCHANGED <<rows, ticketLock, sessExcl, advisory>>

TenderCommit(w) ==
  LET t == req[w].ticket
      a == SumOf(req[w].tender)
      paid == req[w].amount
      total == ticket[t].total IN
  /\ pc[w] = "tender_inserted"
  /\ tenders' = [tenders EXCEPT ![t] = [m \in Methods |-> @[m] + req[w].tender[m]]]
  /\ ticket' = [ticket EXCEPT ![t].paid = paid, ![t].change = ChangeOf(paid, total)]
  /\ triggers' = IF paid >= total /\ paid - a < total
                   THEN [triggers EXCEPT ![t] = @ + 1] ELSE triggers
  /\ Finish(w)
  /\ UNCHANGED <<session, movements, closing>>

----------------------------------------------------------------------------
(* sync_from_ui on a ticket that is still a draft *)

RewriteLock(w, t) ==
  /\ Goto(w, "idle", "rewrite_locked")
  /\ TakeTicket(w, t)
  /\ ticket[t].status = "draft"
  /\ triggers[t] < MaxTriggers
  /\ req' = [req EXCEPT ![w].ticket = t,
                        ![w].full = Full(ticket[t].total, ticket[t].paid)]
  /\ UNCHANGED <<rows, sessShare, sessExcl, advisory>>

\* own is the session of the ticket; its register is the ticket's.
ResolveForUpdate(own, named, rescue) ==
  LET r == session[own].register IN
  IF named = own
    THEN IF Open(own) THEN own ELSE SameRegisterOpen(rescue, r)
    ELSE IF Open(own) THEN None
         ELSE SameRegisterOpen(IF rescue # None THEN rescue ELSE named, r)

RewriteSession(w, named, rescue, tb) ==
  LET t      == req[w].ticket
      own    == ticket[t].session
      target == ResolveForUpdate(own, named, rescue) IN
  /\ Goto(w, "rewrite_locked", "rewriting")
  /\ target # None
  /\ TakeShare(w, {own, target})
  /\ TableIsFree(tb, {t})
  /\ req' = [req EXCEPT ![w].session = target, ![w].table = tb]
  /\ UNCHANGED <<rows, ticketLock, sessExcl, advisory>>

\* The replay is the whole ticket: its basket and its tenders replace what was there.
RewriteCommit(w, total, ts) ==
  LET t == req[w].ticket IN
  /\ pc[w] = "rewriting"
  /\ NonCashFits(ts, total)
  /\ TableIsFree(req[w].table, {t})
  /\ ticket' = [ticket EXCEPT ![t] =
                  [Draft(req[w].session, req[w].table, total, ts)
                     EXCEPT !.billed = ticket[t].billed]]
  /\ tenders' = [tenders EXCEPT ![t] = ts]
  /\ triggers' = Triggered(t, req[w].full, total, SumOf(ts))
  /\ Finish(w)
  /\ UNCHANGED <<session, movements, closing>>

----------------------------------------------------------------------------
(* record_cash_movement *)

\* Mutant: the session is read and not locked.
MovementReadOnly(w, s) ==
  /\ Goto(w, "idle", "moving")
  /\ Open(s)
  /\ req' = [req EXCEPT ![w].session = s]
  /\ UNCHANGED <<rows, locks>>

MovementLock(w, s) ==
  /\ Goto(w, "idle", "moving")
  /\ TakeShare(w, {s})
  /\ Open(s)
  /\ req' = [req EXCEPT ![w].session = s]
  /\ UNCHANGED <<rows, ticketLock, sessExcl, advisory>>

\* A pay-in adds, a pay-out or a drop takes; what the bound leaves out is the size.
MovementCommit(w, delta) ==
  /\ pc[w] = "moving"
  /\ movements[req[w].session] + delta \in -MaxMoved..MaxMoved
  /\ movements' = [movements EXCEPT ![req[w].session] = @ + delta]
  /\ Finish(w)
  /\ UNCHANGED <<session, ticket, tenders, closing, triggers>>

----------------------------------------------------------------------------
(* recognize_sale, as far as the counter's rows see it: the billing and payment *)
(* calls between these statements are modelled by PosRecognition.               *)

\* The advisory lock keeps other recognitions out; the read locks no row.
RecognizeFetch(w, t) ==
  /\ Goto(w, "idle", IF ticket[t].billed = None THEN "recognizing" ELSE "linked")
  /\ advisory[t] = None
  /\ advisory' = [advisory EXCEPT ![t] = w]
  /\ ticket[t].status = "draft"
  /\ ticket[t].paid >= ticket[t].total
  /\ req' = [req EXCEPT ![w].ticket = t, ![w].amount = ticket[t].total]
  /\ UNCHANGED <<rows, ticketLock, sessShare, sessExcl>>

\* link_billing_invoice: the UPDATE waits for whoever holds the row.
RecognizeLink(w) ==
  LET t == req[w].ticket IN
  /\ Goto(w, "recognizing", "linked")
  /\ ticketLock[t] = None
  /\ ticket[t].status = "draft" /\ ticket[t].billed = None
  /\ ticket' = [ticket EXCEPT ![t].billed = req[w].amount]
  /\ UNCHANGED <<session, tenders, movements, closing, triggers, locks, req>>

\* mark_paid, once the settlement was accepted.
RecognizePaid(w) ==
  LET t == req[w].ticket IN
  /\ pc[w] = "linked"
  /\ ticketLock[t] = None
  /\ ticket[t].status = "draft"
  /\ ticket' = [ticket EXCEPT ![t].status = "paid"]
  /\ Finish(w)
  /\ UNCHANGED <<session, tenders, movements, closing, triggers>>

----------------------------------------------------------------------------
(* return_sale: its closing transaction *)

\* mark_returned_on holds the row until the return ticket is inserted.
ReturnFlip(w, t) ==
  /\ Goto(w, "idle", "returning")
  /\ TakeTicket(w, t)
  /\ ticket[t].status = "paid"
  /\ req' = [req EXCEPT ![w].ticket = t]
  /\ UNCHANGED <<rows, sessShare, sessExcl, advisory>>

\* Mutant: no foreign key, nothing makes the return wait for a close.
NoKeyShare(s) == TRUE

\* The return ticket names the session: its foreign key takes FOR KEY SHARE there.
KeyShare(s) == sessExcl[s] = None

ReturnInsert(w) ==
  LET t == req[w].ticket IN
  /\ pc[w] = "returning"
  /\ KeyShare(ticket[t].session)
  /\ ticket' = [ticket EXCEPT ![t].status = "returned"]
  /\ Finish(w)
  /\ UNCHANGED <<session, tenders, movements, closing, triggers>>

----------------------------------------------------------------------------
(* close_session *)

CloseBegin(w, s) ==
  /\ Goto(w, "idle", "closing")
  /\ CanLockSession(s)
  /\ Open(s)
  /\ sessExcl' = [sessExcl EXCEPT ![s] = w]
  /\ req' = [req EXCEPT ![w].session = s]
  /\ UNCHANGED <<rows, ticketLock, sessShare, advisory>>

\* Mutant: the close does not look for drafts.
CloseUnguarded(w) ==
  /\ Goto(w, "closing", "count_tenders")
  /\ UNCHANGED <<rows, locks, req>>

\* Mutant: the drafts are counted with a row lock, so the close waits for tickets
\* while it holds their session.
CloseGuardLocking(w) ==
  /\ Goto(w, "closing", "count_tenders")
  /\ \A t \in Tickets : ticketLock[t] = None
  /\ TicketsOf(req[w].session, "draft") = {}
  /\ UNCHANGED <<rows, locks, req>>

\* Both guards at once: a half-recognised ticket is a draft too.
CloseGuard(w) ==
  /\ Goto(w, "closing", "count_tenders")
  /\ TicketsOf(req[w].session, "draft") = {}
  /\ UNCHANGED <<rows, locks, req>>

\* compute_drawer: four statements, none of them in the transaction that closes.
CloseCount(w, from, to, seen) ==
  /\ Goto(w, from, to)
  /\ req' = [req EXCEPT ![w].drawer = seen]
  /\ UNCHANGED <<rows, locks>>

CountTenders(w) ==
  CloseCount(w, "count_tenders", "count_change",
             [NoDrawer EXCEPT !.tendered = TenderedIn(req[w].session)])
CountChange(w) ==
  CloseCount(w, "count_change", "count_moves",
             [req[w].drawer EXCEPT !.change = ChangeGiven(req[w].session)])
CountMoves(w) ==
  CloseCount(w, "count_moves", "count_sales",
             [req[w].drawer EXCEPT !.moved = movements[req[w].session]])
CountSales(w) ==
  CloseCount(w, "count_sales", "counted",
             [req[w].drawer EXCEPT !.sales = SalesIn(req[w].session)])

CloseCommit(w) ==
  LET s == req[w].session IN
  /\ pc[w] = "counted"
  /\ session' = [session EXCEPT ![s].status = "closed"]
  /\ closing' = [closing EXCEPT ![s] = req[w].drawer]
  /\ Finish(w)
  /\ UNCHANGED <<ticket, tenders, movements, triggers>>

----------------------------------------------------------------------------
(* A request that gets no further. *)

\* The refusals a lock or an index leaves to the last statement.
MustRefuse(w) ==
  CASE pc[w] = "opening" -> ~SlotIsFree(req[w].register)
    [] pc[w] \in {"ringing", "replaying"} -> ~TableIsFree(req[w].table, {})
    [] pc[w] = "rewriting" -> ~TableIsFree(req[w].table, {req[w].ticket})
    [] pc[w] = "closing" -> TicketsOf(req[w].session, "draft") # {}
    [] OTHER -> FALSE

Refuse(w) == MustRefuse(w) /\ Finish(w) /\ UNCHANGED rows

\* The connection or the process goes, a wrong PIN, a port that declines: the
\* transaction rolls back, and what earlier statements committed stays.
Abort(w) == pc[w] # "idle" /\ Finish(w) /\ UNCHANGED rows

----------------------------------------------------------------------------
Init ==
  /\ session   = [s \in Sessions |-> NoSessionRow]
  /\ ticket    = [t \in Tickets |-> NoTicketRow]
  /\ tenders   = [t \in Tickets |-> NoTenders]
  /\ movements = [s \in Sessions |-> 0]
  /\ closing   = [s \in Sessions |-> None]
  /\ triggers  = [t \in Tickets |-> 0]
  /\ ticketLock = [t \in Tickets |-> None]
  /\ sessShare  = [s \in Sessions |-> {}]
  /\ sessExcl   = [s \in Sessions |-> None]
  /\ advisory   = [t \in Tickets |-> None]
  /\ pc  = [w \in Workers |-> "idle"]
  /\ req = [w \in Workers |-> NoReq]

\* A request arrives and its first lock is granted.
Begin(w) ==
  \/ \E r \in Registers, s \in Sessions : OpenRead(w, r, s)
  \/ \E s \in Sessions, t \in Tickets, tb \in Tables \cup {None} : RingBegin(w, s, t, tb)
  \/ \E named \in Sessions, rescue \in Sessions \cup {None}, r \in Registers,
        t \in Tickets, tb \in Tables \cup {None} :
       SyncCreateBegin(w, named, rescue, r, t, tb)
  \/ \E t \in Tickets : TenderLock(w, t)
  \/ \E t \in Tickets : RewriteLock(w, t)
  \/ \E s \in Sessions : MovementLock(w, s)
  \/ \E t \in Tickets : RecognizeFetch(w, t)
  \/ \E t \in Tickets : ReturnFlip(w, t)
  \/ \E s \in Sessions : CloseBegin(w, s)

\* A request under way takes its next statement.
Step(w) ==
  \/ OpenInsert(w)
  \/ \E total \in Totals : RingInsert(w, total)
  \/ \E total \in Totals, ts \in Replayed : SyncCreateInsert(w, total, ts)
  \/ \E m \in Methods, a \in Amounts : TenderInsert(w, m, a)
  \/ TenderCommit(w)
  \/ \E named \in Sessions, rescue \in Sessions \cup {None}, tb \in Tables \cup {None} :
       RewriteSession(w, named, rescue, tb)
  \/ \E total \in Totals, ts \in Replayed : RewriteCommit(w, total, ts)
  \/ \E a \in Amounts : MovementCommit(w, a)
  \/ \E a \in Amounts : MovementCommit(w, -a)
  \/ RecognizeLink(w)
  \/ RecognizePaid(w)
  \/ ReturnInsert(w)
  \/ CloseGuard(w)
  \/ CountTenders(w)
  \/ CountChange(w)
  \/ CountMoves(w)
  \/ CountSales(w)
  \/ CloseCommit(w)
  \/ Refuse(w)

Next == \E w \in Workers : Begin(w) \/ Step(w) \/ Abort(w)

Spec == Init /\ [][Next]_vars

\* PostgreSQL queues the waiters of a lock, so a request that can go on again and
\* again does; nothing makes a client send one, and nothing here breaks a connection.
NextUnbroken == \E w \in Workers : Begin(w) \/ Step(w)

FairSpec == Init /\ [][NextUnbroken]_vars /\ \A w \in Workers : SF_vars(Step(w))

----------------------------------------------------------------------------
(* Types. *)

TenderSums == [Methods -> Nat]

\* A value per paid ticket of a session.
PerTicket(V) == [Tickets -> V \cup {None}]

Drawers == [tendered : PerTicket(TenderSums), change : PerTicket(Nat), moved : Int,
            sales : PerTicket(Nat)]

SessionRows ==
  [status : {"none", "open", "closed"}, register : Registers \cup {None}]

TicketRows ==
  [status : {"none", "draft", "paid", "returned"}, session : Sessions \cup {None},
   table : Tables \cup {None}, total : Nat, paid : Nat, change : Nat,
   billed : Nat \cup {None}]

Reqs ==
  [register : Registers \cup {None}, session : Sessions \cup {None},
   ticket : Tickets \cup {None}, table : Tables \cup {None},
   tender : TenderSums, amount : Nat, full : BOOLEAN, drawer : Drawers]

\* Every row, lock and request keeps its shape.
TypeOK ==
  /\ session   \in [Sessions -> SessionRows]
  /\ ticket    \in [Tickets -> TicketRows]
  /\ tenders   \in [Tickets -> TenderSums]
  /\ movements \in [Sessions -> Int]
  /\ closing   \in [Sessions -> Drawers \cup {None}]
  /\ triggers  \in [Tickets -> Nat]
  /\ ticketLock \in [Tickets -> Workers \cup {None}]
  /\ sessShare  \in [Sessions -> SUBSET Workers]
  /\ sessExcl   \in [Sessions -> Workers \cup {None}]
  /\ advisory   \in [Tickets -> Workers \cup {None}]
  /\ pc  \in [Workers -> PC]
  /\ req \in [Workers -> Reqs]

----------------------------------------------------------------------------
(* Safety. *)

\* A closed session holds no draft: the close refuses drafts, and every verb that
\* could put one there holds the session row FOR SHARE until it commits.
NoDraftInClosedSession ==
  \A t \in Tickets : ticket[t].status = "draft" => session[ticket[t].session].status = "open"

\* The paid total and the change of a header are those of its live tenders, and the
\* change is cash the ticket took, whatever tenders and replays were in flight at once.
HeaderAgreesWithTenders ==
  \A t \in Tickets : /\ ticket[t].paid = Paid(t)
                     /\ ticket[t].change = ChangeOf(Paid(t), ticket[t].total)
                     /\ ticket[t].change <= tenders[t]["cash"]

\* Two sessions are never open on one register.
OneOpenSessionPerRegister ==
  \A a, b \in Sessions :
    (a # b /\ session[a].status = "open" /\ session[b].status = "open")
      => session[a].register # session[b].register

\* A table seats at most one draft, also when tickets move between tables.
OneDraftPerTable ==
  \A tb \in Tables : \A a, b \in DraftsOnTable(tb) : a = b

\* A ticket stays in the session it was rung in: the rescue arms of a replay of an
\* existing draft never move it, since the session of a draft is always open.
TicketKeepsItsSession ==
  [][\A t \in Tickets : ticket[t].status # "none" => ticket'[t].session = ticket[t].session]_ticket

\* PosTenderCompleted is staged exactly at the commits that take a draft from not paid
\* up to paid up: never for a ticket already full, never missed.
PaidUp(t) == Full(ticket[t].total, ticket[t].paid)

TriggeredOncePerCrossing ==
  [][\A t \in Tickets :
       triggers'[t] = triggers[t] + (IF ~PaidUp(t) /\ PaidUp(t)' THEN 1 ELSE 0)]_<<ticket, triggers>>

\* The drawer a closing entry records is the drawer at the instant the session closes,
\* row for row, though its four sums were read by four separate statements.
CloseRecordsTheDrawer ==
  [][\A s \in Sessions :
       (session[s].status = "open" /\ session'[s].status = "closed")
         => closing'[s] = DrawerOf(s)']_session

\* Nothing lands on a closed session: no ticket, tender, movement or recognition.  Only
\* the return of a paid ticket still may.
ClosedSessionIsFrozen ==
  [][\A s \in Sessions : session[s].status = "closed" =>
       /\ session'[s] = session[s] /\ closing'[s] = closing[s]
       /\ movements'[s] = movements[s]
       /\ \A t \in Tickets : ticket'[t].session = s =>
            /\ tenders'[t] = tenders[t]
            /\ ticket'[t] \in {ticket[t], [ticket[t] EXCEPT !.status = "returned"]}]_rows

\* Recognition requires a fully tendered ticket, so what it marks paid is.
PaidIsFullyTendered ==
  \A t \in Tickets : ticket[t].status = "paid" => ticket[t].paid >= ticket[t].total

----------------------------------------------------------------------------
(* Liveness. *)

\* Requests never wait for each other forever: whoever holds a lock finishes, and
\* every request under way is answered.
EveryRequestAnswered == \A w \in Workers : pc[w] # "idle" ~> pc[w] = "idle"
=============================================================================
