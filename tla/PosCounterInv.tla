---------------------------- MODULE PosCounterInv ----------------------------
(***************************************************************************)
(* Why the counter is safe: what each request may rely on at each of its   *)
(* statements, in layers that build on each other.  Together with the      *)
(* safety properties they are inductive; the runs check them and the       *)
(* modules of proofs prove them.                                           *)
(***************************************************************************)
EXTENDS PosCounter

\* Requests that hold their session FOR SHARE.
Sharing == {"ringing", "replaying", "moving", "tender_inserted", "rewriting"}

\* Requests that close their session, and those of them that found no draft.
Counting == {"count_tenders", "count_change", "count_moves", "count_sales", "counted"}
Closing  == {"closing"} \cup Counting

\* Requests that hold the row lock of their ticket.
Holding == {"tender_locked", "tender_inserted", "rewrite_locked", "rewriting", "returning"}

WithSession == Sharing \cup Closing \cup {"opening"}
WithTicket  == Holding \cup {"ringing", "replaying", "recognizing", "linked"}

\* A request past its first statement names the rows it works on.
RequestsNameRows ==
  \A w \in Workers :
    /\ pc[w] \in WithSession => req[w].session \in Sessions
    /\ pc[w] \in WithTicket => req[w].ticket \in Tickets

\* Every lock a request's next statement counts on is its own, and nobody shares a
\* session that is being closed.
LocksAreHeld ==
  /\ \A s \in Sessions : sessExcl[s] # None => sessShare[s] = {}
  /\ \A w \in Workers :
       /\ pc[w] \in Sharing => w \in sessShare[req[w].session]
       /\ pc[w] \in Closing => sessExcl[req[w].session] = w
       /\ pc[w] \in Holding => ticketLock[req[w].ticket] = w

\* An id about to be inserted is in no row and in no other request.
IdsAreFresh ==
  \A w \in Workers :
    /\ pc[w] = "opening" =>
         /\ session[req[w].session].status = "none"
         /\ \A v \in Workers \ {w} : req[v].session # req[w].session
    /\ pc[w] \in {"ringing", "replaying"} =>
         /\ ticket[req[w].ticket].status = "none"
         /\ \A v \in Workers \ {w} : req[v].ticket # req[w].ticket

\* A ticket names a session that was opened.
TicketsNameSessions ==
  \A t \in Tickets : ticket[t].status # "none" => ticket[t].session \in Sessions

\* What was read under a lock is still so: the session is open, it has no draft once
\* the close has looked, the ticket is where and what it was.
ReadsStillHold ==
  \A w \in Workers :
    /\ pc[w] \in Sharing \cup Closing => session[req[w].session].status = "open"
    /\ pc[w] \in Counting => TicketsOf(req[w].session, "draft") = {}
    /\ pc[w] \in Holding \ {"returning"} => ticket[req[w].ticket].status = "draft"
    /\ pc[w] = "returning" => ticket[req[w].ticket].status = "paid"
    /\ pc[w] \in {"tender_inserted", "rewriting"} =>
         req[w].session = ticket[req[w].ticket].session

\* The non-cash tenders of a ticket never exceed its total.
NonCashCovered == \A t \in Tickets : NonCashFits(tenders[t], ticket[t].total)

\* A tender's second sum includes it and nothing else that is new; what a replay saw
\* of the old payment is what it will replace.
SumsStillHold ==
  \A w \in Workers : LET t == req[w].ticket IN
    /\ pc[w] = "tender_inserted" =>
         /\ req[w].amount = Paid(t) + SumOf(req[w].tender)
         /\ tenders[t]["card"] + req[w].tender["card"] <= ticket[t].total
              \/ req[w].tender["card"] = 0
    /\ pc[w] \in {"rewrite_locked", "rewriting"} =>
         req[w].full = Full(ticket[t].total, ticket[t].paid)

\* Each sum a close has read is still the sum it would read now.
CountsStillHold ==
  \A w \in Workers :
    LET s == req[w].session  seen == req[w].drawer IN
    /\ pc[w] \in Counting \ {"count_tenders"} => seen.tendered = TenderedIn(s)
    /\ pc[w] \in {"count_moves", "count_sales", "counted"} => seen.change = ChangeGiven(s)
    /\ pc[w] \in {"count_sales", "counted"} => seen.moved = movements[s]
    /\ pc[w] = "counted" => seen.sales = SalesIn(s)

\* Whatever a request read at one statement and uses at a later one, behind its locks
\* or its fresh id, is still so when it is used.
RequestsCanRely ==
  /\ RequestsNameRows
  /\ LocksAreHeld
  /\ IdsAreFresh
  /\ ReadsStillHold
  /\ SumsStillHold
  /\ CountsStillHold

\* The inductive invariant.
CounterInv ==
  /\ TypeOK
  /\ RequestsCanRely
  /\ TicketsNameSessions
  /\ NoDraftInClosedSession
  /\ OneOpenSessionPerRegister
  /\ OneDraftPerTable
  /\ HeaderAgreesWithTenders
  /\ NonCashCovered
=============================================================================
