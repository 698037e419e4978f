------------------------------ MODULE PosClose ------------------------------
(***************************************************************************)
(* Closing one session: the count against the drawer, the variance booked  *)
(* through a port before the closing entry commits, and the retry of a     *)
(* close that died in between.                                             *)
(*                                                                         *)
(* PosCounter shows that the drawer a close has summed stays what it is    *)
(* until the close ends; here the drawer is one amount, and trading moves  *)
(* it whenever nobody holds the session.                                   *)
(*                                                                         *)
(* journals belong to the ledger behind PosCashVariancePort, which is      *)
(* obliged to reuse the journal it booked for a session.                   *)
(***************************************************************************)
EXTENDS Integers, FiniteSets

CONSTANTS
  Workers,     \* close requests served at once
  ClosingIds,  \* ids a closing entry may be given
  Journals,    \* ids the ledger may give a journal
  Cash,        \* what a drawer may hold, and be counted to hold
  Faults,      \* what may go wrong
  None

ASSUME CloseAssumption ==
  /\ None \notin Workers \cup ClosingIds \cup Journals
  /\ Cash \subseteq Nat
  \* refuse  a wrong PIN, an account that is not configured, a ledger that rejects
  \* lost    the ledger books, and its answer does not arrive
  \* crash   the request dies between two statements
  /\ Faults \subseteq {"refuse", "lost", "crash"}

VARIABLES
  status,   \* of the session
  drawer,   \* what the session's journals say the drawer holds
  lock,     \* who holds the session FOR UPDATE
  entry,    \* the closing entry
  ledger,   \* the journals booked for the session
  pc, call  \* what each request does next and remembers

vars == <<status, drawer, lock, entry, ledger, pc, call>>

NoEntry   == [id |-> None, counted |-> 0, difference |-> 0]
NoJournal == [closing |-> None, amount |-> 0, direction |-> "none"]
NoCall    == NoEntry

PC == {"idle", "count", "book", "commit"}

Booked == {j \in Journals : ledger[j].closing # None}

\* A session has at most one live closing entry, and an id is new.
FreshId(id) == entry.id # id /\ \A w \in Workers : call[w].id # id
               /\ \A j \in Journals : ledger[j].closing # id

Goto(w, from, to) == pc[w] = from /\ pc' = [pc EXCEPT ![w] = to]

\* The transaction ends: the session is released.
End(w) ==
  /\ pc' = [pc EXCEPT ![w] = "idle"]
  /\ call' = [call EXCEPT ![w] = NoCall]
  /\ lock' = IF lock = w THEN None ELSE lock

----------------------------------------------------------------------------
\* A tender recognised, a movement, a return: it holds the session FOR SHARE.
Trade(cash) ==
  /\ status = "open" /\ lock = None
  /\ drawer' = cash
  /\ UNCHANGED <<status, lock, entry, ledger, pc, call>>

\* Mutant: the session's status is read and not locked.
CloseReadOnly(w) ==
  /\ Goto(w, "idle", "count")
  /\ status = "open" /\ lock = None
  /\ UNCHANGED <<status, drawer, lock, entry, ledger, call>>

CloseBegin(w) ==
  /\ Goto(w, "idle", "count")
  /\ status = "open" /\ lock = None
  /\ lock' = w
  /\ UNCHANGED <<status, drawer, entry, ledger, call>>

\* Mutant: only a drawer that holds too much is booked.
VariesOver(difference) == difference > 0

Varies(difference) == difference # 0

\* The drawer is counted against what it should hold; the closing id is drawn.
Count(w, id, counted) ==
  LET difference == counted - drawer IN
  /\ Goto(w, "count", IF Varies(difference) THEN "book" ELSE "commit")
  /\ FreshId(id)
  /\ call' = [call EXCEPT ![w] = [id |-> id, counted |-> counted, difference |-> difference]]
  /\ UNCHANGED <<status, drawer, lock, entry, ledger>>

\* Mutant: the two directions are swapped.
DirectionSwapped(difference) == IF difference > 0 THEN "short" ELSE "over"

DirectionOf(difference) == IF difference > 0 THEN "over" ELSE "short"

\* Mutant: the difference is sent with its sign.
AmountSigned(difference) == difference

AmountOf(difference) == IF difference < 0 THEN -difference ELSE difference

Journal(w) ==
  [closing |-> call[w].id, amount |-> AmountOf(call[w].difference),
   direction |-> DirectionOf(call[w].difference)]

\* The ledger's answer arrives, or is lost and the request fails.
Acknowledged(w) ==
  \/ Goto(w, "book", "commit") /\ UNCHANGED <<lock, call>>
  \/ "lost" \in Faults /\ End(w)

\* Mutant: the ledger recognises a repeat by the closing entry.
BookByClosing(w) ==
  /\ pc[w] = "book"
  /\ \E j \in Journals \ Booked : ledger' = [ledger EXCEPT ![j] = Journal(w)]
  /\ Acknowledged(w)
  /\ UNCHANGED <<status, drawer, entry>>

\* The first booking of a session is the one that stays.
Book(w) ==
  /\ pc[w] = "book"
  /\ IF Booked = {}
       THEN \E j \in Journals : ledger' = [ledger EXCEPT ![j] = Journal(w)]
       ELSE UNCHANGED ledger
  /\ Acknowledged(w)
  /\ UNCHANGED <<status, drawer, entry>>

Refused(w) ==
  /\ "refuse" \in Faults
  /\ pc[w] \in {"count", "book"}
  /\ End(w)
  /\ UNCHANGED <<status, drawer, entry, ledger>>

\* The entry and the flip are one transaction.  PosSessionClosed is published after it; no
\* row and no journal depends on it.
Commit(w) ==
  /\ pc[w] = "commit"
  /\ entry.id = None /\ status = "open"
  /\ entry' = call[w]
  /\ status' = "closed"
  /\ End(w)
  /\ UNCHANGED <<drawer, ledger>>

Crash(w) ==
  /\ "crash" \in Faults
  /\ pc[w] # "idle"
  /\ End(w)
  /\ UNCHANGED <<status, drawer, entry, ledger>>

----------------------------------------------------------------------------
Init ==
  /\ status = "open" /\ drawer \in Cash /\ lock = None
  /\ entry = NoEntry
  /\ ledger = [j \in Journals |-> NoJournal]
  /\ pc = [w \in Workers |-> "idle"]
  /\ call = [w \in Workers |-> NoCall]

Next ==
  \/ \E cash \in Cash : Trade(cash)
  \/ \E w \in Workers :
       \/ CloseBegin(w)
       \/ \E id \in ClosingIds, counted \in Cash : Count(w, id, counted)
       \/ Book(w) \/ Refused(w) \/ Commit(w) \/ Crash(w)

Spec == Init /\ [][Next]_vars

----------------------------------------------------------------------------
Entries == [id : ClosingIds \cup {None}, counted : Nat, difference : Int]

\* Rows, journals and requests keep their shape; a journal's amount is a magnitude.
TypeOK ==
  /\ status \in {"open", "closed"}
  /\ drawer \in Nat
  /\ lock \in Workers \cup {None}
  /\ entry \in Entries
  /\ ledger \in [Journals -> [closing : ClosingIds \cup {None}, amount : Nat,
                              direction : {"none", "over", "short"}]]
  /\ pc \in [Workers -> PC]
  /\ call \in [Workers -> Entries]

\* However often a close is retried after it died, was refused or was not answered, its
\* session is booked once.
VarianceBookedOnce == \A i, j \in Booked : i = j

\* A session never closes over a difference that is not in the ledger.
ClosedOverBooked == (status = "closed" /\ entry.difference # 0) => Booked # {}

\* What the entry says is missing is missing from the drawer of the closed session: no
\* sale or movement came between the count and the flip.
EntryIsTheDrawer == status = "closed" => entry.difference = entry.counted - drawer

\* The journal that names the closing entry books the difference it shows, also when an
\* earlier attempt counted something else.
JournalAgreesWithEntry ==
  \A j \in Booked :
    (status = "closed" /\ ledger[j].closing = entry.id) =>
      entry.difference = (IF ledger[j].direction = "over" THEN ledger[j].amount
                                                          ELSE -ledger[j].amount)

\* A journal traces to the closing entry of its session.
JournalTracesToEntry ==
  status = "closed" => \A j \in Booked : ledger[j].closing = entry.id

=============================================================================
