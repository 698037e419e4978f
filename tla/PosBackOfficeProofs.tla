------------------------ MODULE PosBackOfficeProofs ------------------------
(***************************************************************************)
(* Proofs about what happens away from the till: the close of a session,   *)
(* the old-session alert, the printed receipt, the generic surface and the *)
(* seeders, for any number of requests, sessions, hosts and clerks, any    *)
(* counts, baskets and tenders, every entity and column, and every fault.  *)
(*                                                                         *)
(* The close: a request past its first statement is the only one, and      *)
(* holds the session; so what it counted stays true until it ends          *)
(* (CountStands), and a difference it is about to write is in the ledger   *)
(* (Pending).  Journals are compared by the closing id they name: an id is *)
(* new when it is drawn (Traced).                                          *)
(*                                                                         *)
(* The alert: what a run has claimed is of the present epoch, not latched  *)
(* and locked (Fresh); what it has latched is of a past epoch or latched   *)
(* still, so nobody can claim it again; and the same holds of what was     *)
(* published (Latched), so that no two runs ever hold one alert (HeldOnce).*)
(*                                                                         *)
(* The receipt: the header is read first.  Once it shows a finished        *)
(* ticket, the ticket is finished, its lines and tenders stay as they are, *)
(* and what is read of them later belongs to that header (Kept).           *)
(*                                                                         *)
(* The generic surface: what its layers, generated apart, must agree on is *)
(* checked entity by entity (Fits); from then on an entity is any that     *)
(* fits.  A job that was let pass is one the table takes, but for what no  *)
(* rule looks at (JobStands), and a write of the column moves it as the    *)
(* table and the verbs say (CellMoves).                                    *)
(*                                                                         *)
(* The seeders: in a run over all of them, what has a file and is not to   *)
(* do any more is in its table (SeedsInv); parents go first.               *)
(***************************************************************************)
EXTENDS MCPosBackOffice, TLAPS

----------------------------------------------------------------------------
(* The close *)

Counted(w) == pc[w] \in {"book", "commit"}

Signed(j) == IF ledger[j].direction = "over" THEN ledger[j].amount ELSE -ledger[j].amount

LockIsHeld == \A w \in Workers : pc[w] # "idle" => lock = w /\ status = "open"

CountStands == \A w \in Workers : Counted(w) =>
  /\ call[w].id \in ClosingIds
  /\ call[w].difference = call[w].counted - drawer

Pending == \A w \in Workers :
  /\ pc[w] = "book" => call[w].difference # 0
  /\ (pc[w] = "commit" /\ call[w].difference # 0) => Booked # {}

Traced == \A w \in Workers, j \in Journals :
  (Counted(w) /\ ledger[j].closing = call[w].id) =>
    pc[w] = "commit" /\ Signed(j) = call[w].difference

CloseInv ==
  /\ TypeOK /\ LockIsHeld /\ CountStands /\ Pending /\ Traced
  /\ VarianceBookedOnce /\ ClosedOverBooked /\ EntryIsTheDrawer /\ JournalAgreesWithEntry

----------------------------------------------------------------------------
\* What a booking writes is the difference that was counted, with its sign.
LEMMA JournalIsSigned ==
  ASSUME NEW w \in Workers, call[w] \in Entries
  PROVE  /\ Journal(w).closing = call[w].id
         /\ Journal(w).amount \in Nat
         /\ Journal(w).direction \in {"over", "short"}
         /\ call[w].difference =
              (IF Journal(w).direction = "over" THEN Journal(w).amount ELSE -Journal(w).amount)
  BY DEF Journal, AmountOf, DirectionOf, Entries

LEMMA CloseInitHolds == Init => CloseInv
<1> SUFFICES ASSUME Init PROVE CloseInv
  OBVIOUS
<1>1. drawer \in Nat
  BY CloseAssumption DEF Init
<1>2. Booked = {}
  BY DEF Init, Booked, NoJournal
<1>3. TypeOK
  BY <1>1 DEF Init, TypeOK, NoEntry, NoCall, NoJournal, Entries, PC
<1>4. LockIsHeld /\ CountStands /\ Pending /\ Traced
  BY DEF Init, LockIsHeld, CountStands, Pending, Traced, Counted
<1>5. VarianceBookedOnce /\ ClosedOverBooked /\ EntryIsTheDrawer /\ JournalAgreesWithEntry
  BY <1>2 DEF Init, VarianceBookedOnce, ClosedOverBooked, EntryIsTheDrawer, JournalAgreesWithEntry
<1> QED BY <1>3, <1>4, <1>5 DEF CloseInv

----------------------------------------------------------------------------
\* A request that ends without writing leaves the invariant to the others.
LEMMA CloseEndHolds ==
  ASSUME CloseInv, NEW w \in Workers, End(w), UNCHANGED <<status, drawer, entry, ledger>>,
         pc[w] # "idle"
  PROVE  CloseInv'
<1>1. lock = w /\ status = "open"
  BY DEF CloseInv, LockIsHeld
<1>2. \A v \in Workers : pc'[v] = "idle"
  BY <1>1 DEF CloseInv, LockIsHeld, End, TypeOK
<1>3. Booked' = Booked
  BY DEF Booked
<1>4. TypeOK'
  BY CloseAssumption DEF CloseInv, TypeOK, End, NoCall, NoEntry, Entries, PC
<1>5. LockIsHeld' /\ CountStands' /\ Pending' /\ Traced'
  BY <1>2 DEF LockIsHeld, CountStands, Pending, Traced, Counted
<1>6. /\ VarianceBookedOnce' /\ ClosedOverBooked' /\ EntryIsTheDrawer' /\ JournalAgreesWithEntry'
  BY <1>3 DEF CloseInv, VarianceBookedOnce, ClosedOverBooked, EntryIsTheDrawer, JournalAgreesWithEntry
<1> QED BY <1>4, <1>5, <1>6 DEF CloseInv

LEMMA TradeHolds ==
  ASSUME CloseInv, NEW cash \in Cash, Trade(cash)
  PROVE  CloseInv'
<1>1. \A w \in Workers : pc[w] = "idle"
  BY CloseAssumption DEF CloseInv, LockIsHeld, Trade
<1>2. Booked' = Booked /\ status = "open" /\ status' = "open"
  BY DEF Booked, Trade
<1>3. TypeOK'
  BY CloseAssumption DEF CloseInv, TypeOK, Trade
<1>4. LockIsHeld' /\ CountStands' /\ Pending' /\ Traced'
  BY <1>1 DEF Trade, LockIsHeld, CountStands, Pending, Traced, Counted
<1>5. /\ VarianceBookedOnce' /\ ClosedOverBooked' /\ EntryIsTheDrawer' /\ JournalAgreesWithEntry'
  BY <1>2 DEF CloseInv, VarianceBookedOnce, ClosedOverBooked, EntryIsTheDrawer, JournalAgreesWithEntry
<1> QED BY <1>3, <1>4, <1>5 DEF CloseInv

LEMMA BeginHolds ==
  ASSUME CloseInv, NEW w \in Workers, CloseBegin(w)
  PROVE  CloseInv'
<1>1. \A v \in Workers : pc[v] = "idle"
  BY CloseAssumption DEF CloseInv, LockIsHeld, CloseBegin
<1>2. \A v \in Workers : pc'[v] = (IF v = w THEN "count" ELSE "idle")
  BY <1>1 DEF CloseBegin, Goto, CloseInv, TypeOK
<1>3. Booked' = Booked /\ status' = "open"
  BY DEF Booked, CloseBegin
<1>4. TypeOK'
  BY DEF CloseInv, TypeOK, CloseBegin, Goto, PC
<1>5. LockIsHeld' /\ CountStands' /\ Pending' /\ Traced'
  BY <1>2, <1>3 DEF CloseBegin, LockIsHeld, CountStands, Pending, Traced, Counted
<1>6. /\ VarianceBookedOnce' /\ ClosedOverBooked' /\ EntryIsTheDrawer' /\ JournalAgreesWithEntry'
  BY <1>3 DEF CloseInv, VarianceBookedOnce, ClosedOverBooked, EntryIsTheDrawer, JournalAgreesWithEntry
<1> QED BY <1>4, <1>5, <1>6 DEF CloseInv

LEMMA CountHolds ==
  ASSUME CloseInv, NEW w \in Workers, NEW id \in ClosingIds, NEW counted \in Cash,
         Count(w, id, counted)
  PROVE  CloseInv'
<1> DEFINE next == [id |-> id, counted |-> counted, difference |-> counted - drawer]
<1>1. lock = w /\ status = "open" /\ \A v \in Workers : pc[v] # "idle" => v = w
  BY DEF CloseInv, LockIsHeld, Count, Goto
<1>2. /\ pc' = [pc EXCEPT ![w] = IF counted - drawer # 0 THEN "book" ELSE "commit"]
      /\ call' = [call EXCEPT ![w] = next]
      /\ UNCHANGED <<status, drawer, lock, entry, ledger>>
      /\ FreshId(id)
  BY DEF Count, Goto, Varies
<1>3. next \in Entries /\ drawer \in Nat /\ counted \in Nat
  BY CloseAssumption DEF CloseInv, TypeOK, Entries
<1>4. /\ call'[w] = next /\ pc'[w] = (IF counted - drawer # 0 THEN "book" ELSE "commit")
      /\ \A v \in Workers : v # w => pc'[v] = "idle"
  BY <1>1, <1>2 DEF CloseInv, TypeOK
<1>5. Booked' = Booked
  BY <1>2 DEF Booked
<1>6. TypeOK'
  BY <1>2, <1>3 DEF CloseInv, TypeOK, PC
<1>7. LockIsHeld'
  BY <1>1, <1>2, <1>4 DEF LockIsHeld
<1>8. CountStands' /\ Pending'
  BY <1>2, <1>4, <1>5 DEF CountStands, Pending, Counted
<1>9. Traced'
  BY <1>2, <1>4 DEF Traced, Counted, FreshId
<1>10. /\ VarianceBookedOnce' /\ ClosedOverBooked' /\ EntryIsTheDrawer' /\ JournalAgreesWithEntry'
  BY <1>1, <1>2, <1>5 DEF CloseInv, VarianceBookedOnce, ClosedOverBooked, EntryIsTheDrawer,
                          JournalAgreesWithEntry
<1> QED BY <1>6, <1>7, <1>8, <1>9, <1>10 DEF CloseInv

\* What the ledger holds after a booking: the journals it held, or the first one.
LEMMA BookedAfter ==
  ASSUME CloseInv, NEW w \in Workers, Book(w)
  PROVE  /\ ledger' \in [Journals -> [closing : ClosingIds \cup {None}, amount : Nat,
                                     direction : {"none", "over", "short"}]]
         /\ Booked' # {} /\ VarianceBookedOnce'
         /\ \A j \in Journals :
              ledger'[j].closing = call[w].id => Signed(j)' = call[w].difference
<1>1. pc[w] = "book" /\ call[w] \in Entries /\ call[w].id \in ClosingIds
  BY DEF CloseInv, TypeOK, CountStands, Counted, Book
<1>2. CASE Booked # {}
  <2>1. ledger' = ledger
    BY <1>2 DEF Book
  <2>2. \A j \in Journals : ledger[j].closing # call[w].id
    BY <1>1 DEF CloseInv, Traced, Counted
  <2> QED BY <1>2, <2>1, <2>2 DEF CloseInv, TypeOK, VarianceBookedOnce, Booked, Signed
<1>3. CASE Booked = {}
  <2>1. PICK k \in Journals : ledger' = [ledger EXCEPT ![k] = Journal(w)]
    BY <1>3 DEF Book
  <2> DEFINE new == Journal(w)
  <2>2. /\ new.closing = call[w].id /\ new.amount \in Nat
        /\ new.direction \in {"over", "short"}
        /\ call[w].difference = (IF new.direction = "over" THEN new.amount ELSE -new.amount)
    BY <1>1, JournalIsSigned
  <2>3. new = [closing |-> new.closing, amount |-> new.amount, direction |-> new.direction]
    BY DEF Journal
  <2> HIDE DEF new
  <2>4. /\ ledger'[k] = new
        /\ \A j \in Journals : j # k => ledger'[j] = ledger[j]
    BY <2>1 DEF CloseInv, TypeOK, new
  <2>5. \A j \in Journals : ledger[j].closing = None
    BY <1>3 DEF Booked
  <2>6. Booked' = {k}
    BY <1>1, <2>2, <2>4, <2>5, CloseAssumption DEF Booked
  <2>7. ledger' \in [Journals -> [closing : ClosingIds \cup {None}, amount : Nat,
                                 direction : {"none", "over", "short"}]]
    <3>1. new \in [closing : ClosingIds \cup {None}, amount : Nat, direction : {"none", "over", "short"}]
      BY <1>1, <2>2, <2>3
    <3> QED BY <2>1, <3>1 DEF CloseInv, TypeOK, new
  <2>8. \A j \in Journals : ledger'[j].closing = call[w].id => Signed(j)' = call[w].difference
    BY <1>1, <2>2, <2>4, <2>5, CloseAssumption DEF Signed
  <2> QED BY <2>6, <2>7, <2>8 DEF VarianceBookedOnce
<1> QED BY <1>2, <1>3

LEMMA BookHolds ==
  ASSUME CloseInv, NEW w \in Workers, Book(w)
  PROVE  CloseInv'
<1>1. /\ pc[w] = "book" /\ lock = w /\ status = "open" /\ UNCHANGED <<status, drawer, entry>>
      /\ \A v \in Workers : pc[v] # "idle" => v = w
  BY DEF CloseInv, LockIsHeld, Book
<1>2. \/ pc' = [pc EXCEPT ![w] = "commit"] /\ UNCHANGED <<lock, call>>
      \/ End(w)
  BY DEF Book, Acknowledged, Goto
<1>3. TypeOK'
  <2>1. pc' \in [Workers -> PC] /\ call' \in [Workers -> Entries] /\ lock' \in Workers \cup {None}
    BY <1>1, <1>2, CloseAssumption DEF CloseInv, TypeOK, End, NoCall, NoEntry, Entries, PC
  <2> QED BY <1>1, <2>1, BookedAfter DEF CloseInv, TypeOK
<1>4. /\ \A v \in Workers : v # w => pc'[v] = "idle"
      /\ \/ pc'[w] = "commit" /\ call'[w] = call[w] /\ lock' = w
         \/ pc'[w] = "idle"
  BY <1>1, <1>2 DEF CloseInv, TypeOK, End
<1>5. LockIsHeld' /\ CountStands'
  BY <1>1, <1>4 DEF CloseInv, LockIsHeld, CountStands, Counted
<1>6. Pending' /\ Traced'
  BY <1>1, <1>4, BookedAfter DEF Pending, Traced, Counted
<1>7. VarianceBookedOnce' /\ ClosedOverBooked' /\ EntryIsTheDrawer' /\ JournalAgreesWithEntry'
  BY <1>1, BookedAfter DEF ClosedOverBooked, EntryIsTheDrawer, JournalAgreesWithEntry
<1> QED BY <1>3, <1>5, <1>6, <1>7 DEF CloseInv

\* The entry that is written is what its request counted and booked.
LEMMA CommitHolds ==
  ASSUME CloseInv, NEW w \in Workers, Commit(w)
  PROVE  CloseInv'
<1>1. /\ pc[w] = "commit" /\ entry' = call[w] /\ status' = "closed" /\ UNCHANGED <<drawer, ledger>>
      /\ End(w) /\ lock = w /\ \A v \in Workers : pc[v] # "idle" => v = w
  BY DEF CloseInv, LockIsHeld, Commit
<1>2. Counted(w) /\ call[w] \in Entries /\ Booked' = Booked
  BY <1>1 DEF CloseInv, TypeOK, Counted, Booked
<1>3. TypeOK'
  BY <1>1, <1>2, CloseAssumption DEF CloseInv, TypeOK, End, NoCall, NoEntry, Entries, PC
<1>4. \A v \in Workers : pc'[v] = "idle"
  BY <1>1 DEF End, CloseInv, TypeOK
<1>5. LockIsHeld' /\ CountStands' /\ Pending' /\ Traced'
  BY <1>4 DEF LockIsHeld, CountStands, Pending, Traced, Counted
<1>6. VarianceBookedOnce'
  BY <1>2 DEF CloseInv, VarianceBookedOnce
<1>7. ClosedOverBooked' /\ EntryIsTheDrawer'
  BY <1>1, <1>2 DEF CloseInv, CountStands, Pending, ClosedOverBooked, EntryIsTheDrawer
<1>8. JournalAgreesWithEntry'
  BY <1>1, <1>2 DEF CloseInv, Traced, Signed, JournalAgreesWithEntry, Booked
<1> QED BY <1>3, <1>5, <1>6, <1>7, <1>8 DEF CloseInv

LEMMA CloseStepHolds == CloseInv /\ [Next]_vars => CloseInv'
<1> SUFFICES ASSUME CloseInv, [Next]_vars PROVE CloseInv'
  OBVIOUS
<1>1. CASE \E cash \in Cash : Trade(cash)
  BY <1>1, TradeHolds
<1>2. ASSUME NEW w \in Workers, CloseBegin(w) PROVE CloseInv'
  BY <1>2, BeginHolds
<1>3. ASSUME NEW w \in Workers, NEW id \in ClosingIds, NEW counted \in Cash, Count(w, id, counted)
      PROVE  CloseInv'
  BY <1>3, CountHolds
<1>4. ASSUME NEW w \in Workers, Book(w) PROVE CloseInv'
  BY <1>4, BookHolds
<1>5. ASSUME NEW w \in Workers, Refused(w) \/ Crash(w) PROVE CloseInv'
  <2>1. End(w) /\ UNCHANGED <<status, drawer, entry, ledger>> /\ pc[w] # "idle"
    BY <1>5 DEF Refused, Crash
  <2> QED BY <2>1, CloseEndHolds
<1>6. ASSUME NEW w \in Workers, Commit(w) PROVE CloseInv'
  BY <1>6, CommitHolds
<1>7. CASE UNCHANGED vars
  BY <1>7 DEF vars, CloseInv, TypeOK, LockIsHeld, CountStands, Pending, Traced, Counted, Signed,
              Booked, VarianceBookedOnce, ClosedOverBooked, EntryIsTheDrawer, JournalAgreesWithEntry
<1> QED BY <1>1, <1>2, <1>3, <1>4, <1>5, <1>6, <1>7 DEF Next

\* The invariant above holds of every close, retried, refused or dying.
THEOREM CloseInvariant == Spec => []CloseInv
  BY CloseInitHolds, CloseStepHolds, PTL DEF Spec

\* However often the close of a session dies, is refused or is not answered, and is tried
\* again, its variance is booked once.
THEOREM BookedOnce == Spec => []VarianceBookedOnce
<1>1. CloseInv => VarianceBookedOnce
  BY DEF CloseInv
<1> QED BY <1>1, CloseInvariant, PTL

\* No session closes with a difference the ledger does not hold.
THEOREM NothingLeftUnbooked == Spec => []ClosedOverBooked
<1>1. CloseInv => ClosedOverBooked
  BY DEF CloseInv
<1> QED BY <1>1, CloseInvariant, PTL

\* The difference of a closed session is the difference between its count and its drawer,
\* whatever traded while the close was under way.
THEOREM EntryMatchesDrawer == Spec => []EntryIsTheDrawer
<1>1. CloseInv => EntryIsTheDrawer
  BY DEF CloseInv
<1> QED BY <1>1, CloseInvariant, PTL

\* A journal that names the closing entry books the difference the entry shows, whatever
\* earlier attempts counted.
THEOREM JournalMatchesEntry == Spec => []JournalAgreesWithEntry
<1>1. CloseInv => JournalAgreesWithEntry
  BY DEF CloseInv
<1> QED BY <1>1, CloseInvariant, PTL

----------------------------------------------------------------------------
(* The alert *)

\* A session whose epoch e nobody can claim any more.
Spent(s, e) == e < epoch[s] \/ s \in latched

Fresh ==
  \A h \in Hosts, s \in Sessions, e \in 0 .. MaxEdits : <<s, e>> \in held[h] =>
    /\ e <= epoch[s]
    /\ phase[h] = "claimed" => s \notin latched /\ e = epoch[s]
    /\ phase[h] # "claimed" => Spent(s, e)
    /\ <<s, e>> \notin alerted

Latched ==
  \A s \in Sessions, e \in 0 .. MaxEdits : <<s, e>> \in alerted => e <= epoch[s] /\ Spent(s, e)

HeldOnce ==
  \A g, h \in Hosts, s \in Sessions, e \in 0 .. MaxEdits :
    <<s, e>> \in held[g] /\ <<s, e>> \in held[h] => g = h

AlertInv == AlertTypeOK /\ Fresh /\ Latched /\ HeldOnce /\ AlertedOncePerEdit

----------------------------------------------------------------------------
LEMMA AlertInitHolds == AlertInit => AlertInv
<1> SUFFICES ASSUME AlertInit PROVE AlertInv
  OBVIOUS
<1>1. AlertTypeOK
  BY AlertAssumption DEF AlertInit, AlertTypeOK, Alerts
<1>2. Fresh /\ Latched /\ HeldOnce /\ AlertedOncePerEdit
  BY DEF AlertInit, Fresh, Latched, HeldOnce, AlertedOncePerEdit
<1> QED BY <1>1, <1>2 DEF AlertInv

\* A claimed session is locked.
LEMMA ClaimsLock ==
  ASSUME NEW h \in Hosts, phase[h] = "claimed", NEW s, NEW e, <<s, e>> \in held[h]
  PROVE  s \in Locked
<1>1. s \in SessionsOf(held[h])
  BY DEF SessionsOf
<1> QED BY <1>1 DEF Locked, Claimed

\* The alerts of a set of sessions, each in its present epoch.
LEMMA PresentAlerts ==
  ASSUME AlertTypeOK, NEW C \in SUBSET Sessions
  PROVE  /\ {<<s, epoch[s]>> : s \in C} \in SUBSET Alerts
         /\ \A s, e : <<s, e>> \in {<<t, epoch[t]>> : t \in C} => s \in C /\ e = epoch[s]
  BY DEF AlertTypeOK, Alerts

----------------------------------------------------------------------------
\* The tills and the clock touch none of what the alerts are made of.
LEMMA OthersHold ==
  ASSUME AlertInv, AlertTypeOK', UNCHANGED <<latched, phase, held, epoch, alerted, again>>
  PROVE  AlertInv'
  BY DEF AlertInv, Fresh, Latched, HeldOnce, Spent, AlertedOncePerEdit

LEMMA EditHolds ==
  ASSUME AlertInv, NEW s \in Sessions, Edit(s)
  PROVE  AlertInv'
<1>1. AlertTypeOK /\ Fresh /\ Latched /\ HeldOnce
  BY DEF AlertInv
<1>2. epoch[s] \in 0 .. MaxEdits /\ epoch[s] + 1 \in 0 .. MaxEdits
  BY <1>1, AlertAssumption DEF Edit, AlertTypeOK
<1>3. AlertTypeOK'
  BY <1>1, <1>2 DEF Edit, AlertTypeOK
<1>4. /\ epoch'[s] = epoch[s] + 1
      /\ \A t \in Sessions : t # s => epoch'[t] = epoch[t] /\ (t \in latched' <=> t \in latched)
      /\ s \in latched /\ s \notin Locked
      /\ UNCHANGED <<held, phase, alerted, again>>
  BY <1>1 DEF Edit, AlertTypeOK
<1>5. \A h \in Hosts, e \in 0 .. MaxEdits : <<s, e>> \in held[h] => phase[h] # "claimed"
  BY <1>4, ClaimsLock
<1>6. \A t \in Sessions : epoch[t] \in Nat
  BY <1>1, AlertAssumption DEF AlertTypeOK
<1>7. Fresh'
  <2> SUFFICES ASSUME NEW h \in Hosts, NEW t \in Sessions, NEW e \in 0 .. MaxEdits,
                      <<t, e>> \in held[h]
               PROVE  /\ e <= epoch'[t]
                      /\ phase[h] = "claimed" => t \notin latched' /\ e = epoch'[t]
                      /\ phase[h] # "claimed" => e < epoch'[t] \/ t \in latched'
                      /\ <<t, e>> \notin alerted
    BY <1>4 DEF Fresh, Spent
  <2>1. CASE t = s
    BY <2>1, <1>1, <1>2, <1>4, <1>5 DEF Fresh
  <2>2. CASE t # s
    BY <2>2, <1>1, <1>4 DEF Fresh, Spent
  <2> QED BY <2>1, <2>2
<1>8. Latched'
  <2> SUFFICES ASSUME NEW t \in Sessions, NEW e \in 0 .. MaxEdits, <<t, e>> \in alerted
               PROVE  e <= epoch'[t] /\ (e < epoch'[t] \/ t \in latched')
    BY <1>4 DEF Latched, Spent
  <2>1. CASE t = s
    BY <2>1, <1>1, <1>2, <1>4 DEF Latched
  <2>2. CASE t # s
    BY <2>2, <1>1, <1>4 DEF Latched, Spent
  <2> QED BY <2>1, <2>2
<1>9. HeldOnce' /\ AlertedOncePerEdit'
  BY <1>1, <1>4 DEF HeldOnce, AlertedOncePerEdit, AlertInv
<1> QED BY <1>3, <1>7, <1>8, <1>9 DEF AlertInv

LEMMA ClaimHolds ==
  ASSUME AlertInv, NEW h \in Hosts, Claim(h)
  PROVE  AlertInv'
<1>1. AlertTypeOK /\ Fresh /\ Latched /\ HeldOnce
  BY DEF AlertInv
<1>2. PICK C \in SUBSET Claimable : held' = [held EXCEPT ![h] = {<<s, epoch[s]>> : s \in C}]
  BY DEF Claim
<1>3. C \in SUBSET Sessions /\ \A s \in C : s \notin latched /\ s \notin Locked
  BY DEF Claimable
<1> DEFINE new == {<<s, epoch[s]>> : s \in C}
<1>4. /\ new \in SUBSET Alerts
      /\ \A s, e : <<s, e>> \in new => s \in C /\ e = epoch[s]
  BY <1>1, <1>3, PresentAlerts
<1> HIDE DEF new
<1>5. /\ held' = [held EXCEPT ![h] = new]
      /\ phase' = [phase EXCEPT ![h] = "claimed"] /\ phase[h] = "idle"
      /\ UNCHANGED <<age, latched, busy, epoch, alerted, again>>
  BY <1>2 DEF Claim, new
<1>6. AlertTypeOK'
  BY <1>1, <1>4, <1>5 DEF AlertTypeOK
<1>7. /\ held'[h] = new /\ phase'[h] = "claimed"
      /\ \A g \in Hosts : g # h => held'[g] = held[g] /\ phase'[g] = phase[g]
  BY <1>1, <1>5 DEF AlertTypeOK
<1>8. \A s \in Sessions : epoch[s] \in Nat
  BY <1>1, AlertAssumption DEF AlertTypeOK
<1>9. \A s \in Sessions, e \in 0 .. MaxEdits : <<s, e>> \in new =>
        /\ <<s, e>> \notin alerted
        /\ \A g \in Hosts : <<s, e>> \notin held[g]
  <2> SUFFICES ASSUME NEW s \in Sessions, NEW e \in 0 .. MaxEdits, <<s, e>> \in new
               PROVE  <<s, e>> \notin alerted /\ \A g \in Hosts : <<s, e>> \notin held[g]
    OBVIOUS
  <2>1. ~Spent(s, e) /\ s \notin Locked
    BY <1>3, <1>4, <1>8 DEF Spent
  <2>2. <<s, e>> \notin alerted
    BY <2>1, <1>1 DEF Latched
  <2>3. ASSUME NEW g \in Hosts PROVE <<s, e>> \notin held[g]
    BY <2>1, <1>1, ClaimsLock DEF Fresh
  <2> QED BY <2>2, <2>3
<1>10. Fresh'
  <2> SUFFICES ASSUME NEW g \in Hosts, NEW s \in Sessions, NEW e \in 0 .. MaxEdits,
                      <<s, e>> \in held'[g]
               PROVE  /\ e <= epoch[s]
                      /\ phase'[g] = "claimed" => s \notin latched /\ e = epoch[s]
                      /\ phase'[g] # "claimed" => Spent(s, e)
                      /\ <<s, e>> \notin alerted
    BY <1>5 DEF Fresh, Spent
  <2>1. CASE g = h
    BY <2>1, <1>3, <1>4, <1>7, <1>8, <1>9
  <2>2. CASE g # h
    BY <2>2, <1>1, <1>7 DEF Fresh
  <2> QED BY <2>1, <2>2
<1>11. HeldOnce'
  BY <1>1, <1>7, <1>9 DEF HeldOnce
<1>12. Latched' /\ AlertedOncePerEdit'
  BY <1>1, <1>5 DEF Latched, Spent, AlertedOncePerEdit, AlertInv
<1> QED BY <1>6, <1>10, <1>11, <1>12 DEF AlertInv

LEMMA LatchHolds ==
  ASSUME AlertInv, NEW h \in Hosts, Latch(h)
  PROVE  AlertInv'
<1>1. AlertTypeOK /\ Fresh /\ Latched /\ HeldOnce
  BY DEF AlertInv
<1>2. /\ latched' = latched \cup SessionsOf(held[h])
      /\ phase' = [phase EXCEPT ![h] = "latched"] /\ phase[h] = "claimed"
      /\ UNCHANGED <<age, busy, held, epoch, alerted, again>>
  BY DEF Latch
<1>3. SessionsOf(held[h]) \subseteq Sessions
  BY <1>1 DEF AlertTypeOK, Alerts, SessionsOf
<1>4. AlertTypeOK'
  BY <1>1, <1>2, <1>3 DEF AlertTypeOK
<1>5. \A s, e : <<s, e>> \in held[h] => s \in latched'
  BY <1>2 DEF SessionsOf
<1>6. \A g \in Hosts : g # h => phase'[g] = phase[g]
  BY <1>1, <1>2 DEF AlertTypeOK
<1>7. phase'[h] = "latched"
  BY <1>1, <1>2 DEF AlertTypeOK
\* Two claims lock their sessions against one another; h's are not those of g.
<1>8. \A g \in Hosts, s \in Sessions, e \in 0 .. MaxEdits :
        g # h /\ phase[g] = "claimed" /\ <<s, e>> \in held[g] => s \notin SessionsOf(held[h])
  <2> SUFFICES ASSUME NEW g \in Hosts, NEW s \in Sessions, NEW e \in 0 .. MaxEdits,
                      g # h, phase[g] = "claimed", <<s, e>> \in held[g],
                      s \in SessionsOf(held[h])
               PROVE  FALSE
    OBVIOUS
  <2>1. PICK a \in held[h] : s = a[1]
    BY DEF SessionsOf
  <2>2. a = <<s, a[2]>> /\ a[2] \in 0 .. MaxEdits
    BY <2>1, <1>1 DEF AlertTypeOK, Alerts
  <2>3. a[2] = epoch[s] /\ e = epoch[s]
    BY <2>1, <2>2, <1>1, <1>2 DEF Fresh
  <2>4. <<s, e>> \in held[h]
    BY <2>2, <2>3
  <2> QED BY <2>4, <1>1 DEF HeldOnce
<1>9. Fresh'
  <2> SUFFICES ASSUME NEW g \in Hosts, NEW s \in Sessions, NEW e \in 0 .. MaxEdits,
                      <<s, e>> \in held[g]
               PROVE  /\ e <= epoch[s]
                      /\ phase'[g] = "claimed" => s \notin latched' /\ e = epoch[s]
                      /\ phase'[g] # "claimed" => e < epoch[s] \/ s \in latched'
                      /\ <<s, e>> \notin alerted
    BY <1>2 DEF Fresh, Spent
  <2>1. CASE g = h
    BY <2>1, <1>1, <1>5, <1>7 DEF Fresh
  <2>2. CASE g # h
    <3>1. phase[g] = "claimed" => s \notin latched'
      BY <2>2, <1>1, <1>2, <1>8 DEF Fresh
    <3> QED BY <2>2, <3>1, <1>1, <1>2, <1>6 DEF Fresh, Spent
  <2> QED BY <2>1, <2>2
<1>10. Latched' /\ HeldOnce' /\ AlertedOncePerEdit'
  BY <1>1, <1>2 DEF Latched, HeldOnce, Spent, AlertedOncePerEdit, AlertInv
<1> QED BY <1>4, <1>9, <1>10 DEF AlertInv

LEMMA EmitHolds ==
  ASSUME AlertInv, NEW h \in Hosts, Emit(h)
  PROVE  AlertInv'
<1>1. AlertTypeOK /\ Fresh /\ Latched /\ HeldOnce /\ AlertedOncePerEdit
  BY DEF AlertInv
<1>2. PICK a \in held[h] :
        /\ again' = IF a \in alerted THEN again \cup {a} ELSE again
        /\ alerted' = alerted \cup {a}
        /\ held' = [held EXCEPT ![h] = @ \ {a}]
  BY DEF Emit
<1>3. phase[h] = "latched" /\ UNCHANGED <<age, latched, busy, phase, epoch>>
  BY DEF Emit
<1>4. a \in Alerts /\ held[h] \in SUBSET Alerts
  BY <1>1 DEF AlertTypeOK
<1>5. PICK t \in Sessions, f \in 0 .. MaxEdits : a = <<t, f>>
  BY <1>4 DEF Alerts
<1>6. a \notin alerted /\ f <= epoch[t] /\ Spent(t, f)
  BY <1>1, <1>2, <1>3, <1>5 DEF Fresh
<1>7. AlertedOncePerEdit'
  BY <1>1, <1>2, <1>6 DEF AlertedOncePerEdit
<1>8. AlertTypeOK'
  BY <1>1, <1>2, <1>3, <1>4, <1>7 DEF AlertTypeOK, AlertedOncePerEdit
<1>9. /\ held'[h] = held[h] \ {a}
      /\ \A g \in Hosts : g # h => held'[g] = held[g]
  BY <1>1, <1>2 DEF AlertTypeOK
<1>10. \A g \in Hosts : held'[g] \subseteq held[g] /\ a \notin held'[g]
  BY <1>1, <1>2, <1>5, <1>9 DEF HeldOnce
<1>11. Fresh'
  <2> SUFFICES ASSUME NEW g \in Hosts, NEW s \in Sessions, NEW e \in 0 .. MaxEdits,
                      <<s, e>> \in held'[g]
               PROVE  /\ e <= epoch[s]
                      /\ phase[g] = "claimed" => s \notin latched /\ e = epoch[s]
                      /\ phase[g] # "claimed" => Spent(s, e)
                      /\ <<s, e>> \notin alerted'
    BY <1>3 DEF Fresh, Spent
  <2>1. <<s, e>> \in held[g] /\ <<s, e>> # a
    BY <1>10
  <2> QED BY <2>1, <1>1, <1>2 DEF Fresh
<1>12. Latched'
  BY <1>1, <1>2, <1>3, <1>5, <1>6 DEF Latched, Spent
<1>13. HeldOnce'
  BY <1>1, <1>10 DEF HeldOnce
<1> QED BY <1>7, <1>8, <1>11, <1>12, <1>13 DEF AlertInv

LEMMA EndHolds ==
  ASSUME AlertInv, NEW h \in Hosts, Ends(h)
  PROVE  AlertInv'
<1>1. AlertTypeOK /\ Fresh /\ Latched /\ HeldOnce
  BY DEF AlertInv
<1>2. /\ UNCHANGED <<age, latched, busy, epoch, alerted, again>>
      /\ held' = [held EXCEPT ![h] = {}] /\ phase' = [phase EXCEPT ![h] = "idle"]
  BY DEF Ends
<1>3. AlertTypeOK'
  BY <1>1, <1>2 DEF AlertTypeOK
<1>4. /\ held'[h] = {}
      /\ \A g \in Hosts : g # h => held'[g] = held[g] /\ phase'[g] = phase[g]
  BY <1>1, <1>2 DEF AlertTypeOK
<1>5. Fresh'
  BY <1>1, <1>2, <1>4 DEF Fresh, Spent
<1>6. Latched' /\ HeldOnce' /\ AlertedOncePerEdit'
  BY <1>1, <1>2, <1>4 DEF Latched, HeldOnce, Spent, AlertedOncePerEdit, AlertInv
<1> QED BY <1>3, <1>5, <1>6 DEF AlertInv

----------------------------------------------------------------------------
LEMMA AlertStepHolds == AlertInv /\ [AlertNext]_alertVars => AlertInv'
<1> SUFFICES ASSUME AlertInv, [AlertNext]_alertVars PROVE AlertInv'
  OBVIOUS
<1> USE DEF AlertInv
<1>1. ASSUME NEW s \in Sessions, Ages(s) \/ TillTakes(s) \/ TillLeaves(s) \/ Closes(s)
      PROVE  AlertInv'
  <2>1. AlertTypeOK'
    BY <1>1 DEF AlertTypeOK, Ages, TillTakes, TillLeaves, Closes
  <2>2. UNCHANGED <<latched, phase, held, epoch, alerted, again>>
    BY <1>1 DEF Ages, TillTakes, TillLeaves, Closes
  <2> QED BY <2>1, <2>2, OthersHold
<1>2. ASSUME NEW s \in Sessions, Edit(s) PROVE AlertInv'
  BY <1>2, EditHolds
<1>3. ASSUME NEW h \in Hosts, Claim(h) \/ Latch(h) \/ Emit(h) \/ Ends(h) PROVE AlertInv'
  BY <1>3, ClaimHolds, LatchHolds, EmitHolds, EndHolds
<1>4. CASE UNCHANGED alertVars
  <2>1. AlertTypeOK'
    BY <1>4 DEF alertVars, AlertTypeOK
  <2>2. UNCHANGED <<latched, phase, held, epoch, alerted, again>>
    BY <1>4 DEF alertVars
  <2> QED BY <2>1, <2>2, OthersHold
<1> QED BY <1>1, <1>2, <1>3, <1>4 DEF AlertNext

(***************************************************************************)
(* The inductive invariant holds in every behaviour.                       *)
(***************************************************************************)
THEOREM AlertInvariant == AlertSpec => []AlertInv
<1> QED BY AlertInitHolds, AlertStepHolds, PTL DEF AlertSpec

(***************************************************************************)
(* An alert is published at most once per session and epoch, for any       *)
(* number of sessions and hosts: alert_old_sessions never alerts twice.    *)
(***************************************************************************)
THEOREM AlertsOnce == AlertSpec => []AlertedOncePerEdit
<1>1. AlertInv => AlertedOncePerEdit
  BY DEF AlertInv
<1> QED BY <1>1, AlertInvariant, PTL

----------------------------------------------------------------------------
(* The receipt *)

Finished(now) == now \in {"paid", "returned"}

\* The header is that of the lines and the tenders.
HeaderFits == ticket = Ticket(ticket.lines, ticket.tenders, Status, Invoiced)

ReadsCounted ==
  slip.read \in 0 .. 3

Kept ==
  /\ Status \in {"none", "draft", "paid", "returned"}
  /\ (slip.read > 0 /\ slip.header.status # "draft") =>
       /\ Finished(Status)
       /\ slip.header =
            Header(ticket.lines, ticket.tenders, slip.header.status, slip.header.is_invoiced)
       /\ slip.read > 1 => slip.lines = ticket.lines
       /\ slip.read > 2 => slip.tenders = ticket.tenders

ReceiptInv == HeaderFits /\ ReadsCounted /\ Kept

----------------------------------------------------------------------------
LEMMA ReadsAre == Len(Reads) = 3 /\ Reads[1] = "header" /\ Reads[2] = "lines" /\ Reads[3] = "tenders"
  BY DEF Reads

LEMMA ReceiptInitHolds == ReceiptInit => ReceiptInv
<1> SUFFICES ASSUME ReceiptInit PROVE ReceiptInv
  OBVIOUS
<1>1. HeaderFits /\ Status = "none"
  BY DEF ReceiptInit, HeaderFits, NoTicket, Ticket, Header, Status, Invoiced
<1>2. ReadsCounted /\ slip.read = 0
  BY DEF ReceiptInit, ReadsCounted, Unread
<1> QED BY <1>1, <1>2 DEF ReceiptInv, Kept

\* A write of a draft, or of what is not rung yet: no slip shows it finished.
LEMMA DraftWritten ==
  ASSUME ReceiptInv, UNCHANGED slip, ~Finished(Status),
         NEW b, NEW ts, NEW s, NEW i, ticket' = Ticket(b, ts, s, i),
         s \in {"draft", "paid"}
  PROVE  ReceiptInv'
<1>1. ticket'.lines = b /\ ticket'.tenders = ts /\ Status' = s /\ Invoiced' = i
  BY DEF Ticket, Header, Status, Invoiced
<1>2. HeaderFits'
  BY <1>1 DEF HeaderFits
<1>3. slip.read > 0 => slip.header.status = "draft"
  BY DEF ReceiptInv, Kept
<1>4. Kept' /\ ReadsCounted'
  BY <1>1, <1>3 DEF Kept, ReadsCounted, ReceiptInv
<1> QED BY <1>2, <1>4 DEF ReceiptInv

\* A write that leaves lines and tenders alone and finishes nothing back.
LEMMA FlagWritten ==
  ASSUME ReceiptInv, UNCHANGED slip, NEW s, NEW i,
         ticket' = Ticket(ticket.lines, ticket.tenders, s, i),
         s \in {"none", "draft", "paid", "returned"}, Finished(Status) => Finished(s)
  PROVE  ReceiptInv'
<1>1. ticket'.lines = ticket.lines /\ ticket'.tenders = ticket.tenders /\ Status' = s /\ Invoiced' = i
  BY DEF Ticket, Header, Status, Invoiced
<1>2. HeaderFits'
  BY <1>1 DEF HeaderFits
<1>3. Kept' /\ ReadsCounted'
  BY <1>1 DEF Kept, ReadsCounted, ReceiptInv
<1> QED BY <1>2, <1>3 DEF ReceiptInv

----------------------------------------------------------------------------
LEMMA ReadHolds ==
  ASSUME ReceiptInv, ReadsOn
  PROVE  ReceiptInv'
<1>1. HeaderFits /\ ReadsCounted /\ Kept /\ UNCHANGED <<ticket, due>>
  BY DEF ReceiptInv, ReadsOn
<1>2. ticket.header = Header(ticket.lines, ticket.tenders, ticket.header.status,
                             ticket.header.is_invoiced)
  BY <1>1 DEF HeaderFits, Ticket, Status, Invoiced
<1>3. HeaderFits'
  BY <1>1 DEF HeaderFits, Status, Invoiced
<1>4. CASE Reading("header") /\ Status = "none"
  <2>1. slip' = Unread
    BY <1>4, ReadsAre DEF ReadsOn, Reading
  <2> QED BY <2>1, <1>1, <1>3 DEF Unread, ReadsCounted, Kept, ReceiptInv, Status
<1>5. CASE Reading("header") /\ Status # "none"
  <2>0. slip.read = 0
    BY <1>5, <1>1, ReadsAre DEF Reading, ReadsCounted
  <2>a. ~Reading("lines") /\ ~Reading("tenders")
    BY <1>5 DEF Reading
  <2>1. slip' = With(ticket.header, slip.lines, slip.tenders)
    BY <1>5, <2>a DEF ReadsOn
  <2>2. slip' = [header |-> ticket.header, lines |-> slip.lines, tenders |-> slip.tenders,
                 read |-> 1]
    BY <2>0, <2>1 DEF With
  <2>3. ReadsCounted'
    BY <2>2 DEF ReadsCounted
  <2>4. Kept'
    BY <2>0, <2>2, <1>5, <1>1, <1>2 DEF Kept, Status, Finished
  <2> QED BY <2>3, <2>4, <1>3 DEF ReceiptInv
<1>6. CASE Reading("lines")
  <2>0. slip.read = 1
    BY <1>6, <1>1, ReadsAre DEF Reading, ReadsCounted
  <2>a. ~Reading("header") /\ ~Reading("tenders")
    BY <1>6 DEF Reading
  <2>1. slip' = With(slip.header, ticket.lines, slip.tenders)
    BY <1>6, <2>a DEF ReadsOn
  <2>2. slip' = [header |-> slip.header, lines |-> ticket.lines, tenders |-> slip.tenders,
                 read |-> 2]
    BY <2>0, <2>1 DEF With
  <2>3. ReadsCounted'
    BY <2>2 DEF ReadsCounted
  <2>4. Kept'
    BY <2>0, <2>2, <1>6, <1>1, <1>2 DEF Kept, Status, Finished
  <2> QED BY <2>3, <2>4, <1>3 DEF ReceiptInv
<1>7. CASE Reading("tenders")
  <2>0. slip.read = 2
    BY <1>7, <1>1, ReadsAre DEF Reading, ReadsCounted
  <2>a. ~Reading("header") /\ ~Reading("lines")
    BY <1>7 DEF Reading
  <2>1. slip' = With(slip.header, slip.lines, ticket.tenders)
    BY <1>7, <2>a DEF ReadsOn
  <2>2. slip' = [header |-> slip.header, lines |-> slip.lines, tenders |-> ticket.tenders,
                 read |-> 3]
    BY <2>0, <2>1 DEF With
  <2>3. ReadsCounted'
    BY <2>2 DEF ReadsCounted
  <2>4. Kept'
    BY <2>0, <2>2, <1>7, <1>1, <1>2 DEF Kept, Status, Finished
  <2> QED BY <2>3, <2>4, <1>3 DEF ReceiptInv
<1> QED BY <1>4, <1>5, <1>6, <1>7 DEF ReadsOn

LEMMA ReceiptStepHolds == ReceiptInv /\ [ReceiptNext]_receiptVars => ReceiptInv'
<1> SUFFICES ASSUME ReceiptInv, [ReceiptNext]_receiptVars PROVE ReceiptInv'
  OBVIOUS
<1>1. ticket = Ticket(ticket.lines, ticket.tenders, Status, Invoiced)
  BY DEF ReceiptInv, HeaderFits
<1>2. Status \in {"none", "draft", "paid", "returned"}
  BY DEF ReceiptInv, Kept
<1>3. CASE Rings
  <2>1. PICK b \in Baskets, ts \in TenderRows : ticket' = Ticket(b, ts, "draft", FALSE)
    BY <1>3 DEF Rings
  <2> QED BY <2>1, <1>3, DraftWritten DEF Rings, Finished
<1>4. CASE Replaces
  <2>1. PICK b \in Baskets, ts \in TenderRows : ticket' = Ticket(b, ts, "draft", Invoiced)
    BY <1>4 DEF Replaces
  <2> QED BY <2>1, <1>4, DraftWritten DEF Replaces, Finished
<1>5. CASE Tendered
  <2>1. PICK c \in Coins : ticket' = Ticket(ticket.lines, Append(ticket.tenders, c), "draft", Invoiced)
    BY <1>5 DEF Tendered
  <2> QED BY <2>1, <1>5, DraftWritten DEF Tendered, Finished
<1>6. CASE Due
  <2>1. ticket' = Ticket(ticket.lines, ticket.tenders, Status, Invoiced) /\ UNCHANGED slip
    BY <1>1, <1>6 DEF Due
  <2> QED BY <2>1, <1>2, FlagWritten
<1>7. CASE Links
  <2>1. ticket' = Ticket(ticket.lines, ticket.tenders, Status, TRUE) /\ UNCHANGED slip
    BY <1>7 DEF Links, Marked
  <2> QED BY <2>1, <1>2, FlagWritten
<1>8. CASE Flips
  <2>1. ticket' = Ticket(ticket.lines, ticket.tenders, "paid", Invoiced) /\ UNCHANGED slip
    BY <1>8 DEF Flips, Marked
  <2> QED BY <2>1, FlagWritten DEF Finished
<1>9. CASE Returns
  <2>1. ticket' = Ticket(ticket.lines, ticket.tenders, "returned", Invoiced) /\ UNCHANGED slip
    BY <1>9 DEF Returns, Marked
  <2> QED BY <2>1, FlagWritten DEF Finished
<1>10. CASE ReadsOn
  BY <1>10, ReadHolds
<1>11. CASE HandsOver
  BY <1>11 DEF HandsOver, ReceiptInv, HeaderFits, ReadsCounted, Kept, Unread, Status, Invoiced
<1>12. CASE UNCHANGED receiptVars
  <2>1. ticket' = Ticket(ticket.lines, ticket.tenders, Status, Invoiced) /\ UNCHANGED slip
    BY <1>1, <1>12 DEF receiptVars
  <2> QED BY <2>1, <1>2, FlagWritten
<1> QED BY <1>3, <1>4, <1>5, <1>6, <1>7, <1>8, <1>9, <1>10, <1>11, <1>12 DEF ReceiptNext

(***************************************************************************)
(* The receipt of a ticket that is no longer a draft is the ticket and     *)
(* adds up, whatever baskets, tenders and writes there are: receipt reads  *)
(* the header first, and no verb rewrites a finished ticket.               *)
(***************************************************************************)
THEOREM PaidReceiptIsExact == ReceiptSpec => []PaidReceiptIsTheTicket
<1>1. ReceiptInv => PaidReceiptIsTheTicket
  BY ReadsAre DEF ReceiptInv, Kept, PaidReceiptIsTheTicket
<1> QED BY <1>1, ReceiptInitHolds, ReceiptStepHolds, PTL DEF ReceiptSpec

----------------------------------------------------------------------------
(* The tables *)

\* What the layers of an entity, generated apart, and the verbs on its rows must agree
\* on.  The rules of the service ask for what the table asks for;
RulesFit(s) ==
  /\ s.checks.required \subseteq s.rules.required /\ s.checks.bounded \subseteq s.rules.bounded
  /\ s.table.notnull \cap s.columns.optional \subseteq s.rules.required
  /\ s.table.notnull \subseteq s.rules.required \cup s.bodies.post \cup s.fresh.filled

\* what an edit carries is assigned and shown, or protected;
EditsFit(s) ==
  /\ s.bodies.put \subseteq s.applied \cup s.kept.protected
  /\ s.bodies.put \subseteq s.shown \cup s.kept.protected
  /\ Every(s.columns) \subseteq s.patched \cup s.kept.protected

\* a state moves as the verbs move it, or no verb moves it at all;
MovesFit(s) ==
  /\ s.rules.state \cap s.writes = {}
  /\ s.moves \subseteq s.verbs \/ s.verbs = {}
  /\ \A m \in s.verbs : m = <<m[1], m[2]>> /\ m[2] # Missing

\* an insert of a verb names what the table has no default for;
InsertsFit(s) ==
  \A i \in s.inserts :
    /\ s.table.notnull \cup s.checks.required \subseteq i.columns \cup s.table.defaulted
    /\ i.status \notin {"null", "blank", "beyond", "taken", "stray", "wide"}

\* and no value of an enumeration is taken for something else, or is made up by a verb.
ValuesFit(s) ==
  /\ \A x \in DOMAIN s.enums :
       s.enums[x].start \notin {"null", Missing} /\ {"null", "kept", Missing} \cap s.enums[x].values = {}
  /\ \A i \in s.inserts : DOMAIN s.enums \subseteq i.columns
  /\ "status" \in Every(s.columns) =>
       /\ "status" \in DOMAIN s.enums
       /\ {i.status : i \in s.inserts} \cup {m[2] : m \in s.verbs} \subseteq s.enums["status"].values

Fits(s) == RulesFit(s) /\ EditsFit(s) /\ MovesFit(s) /\ InsertsFit(s) /\ ValuesFit(s)

----------------------------------------------------------------------------
LEMMA PosProfileFits == Fits(PosProfileService)
<1>1. RulesFit(PosProfileService)
  BY DEF RulesFit, PosProfileService, PosProfileColumns, PosProfileChecks,
     PosProfileRules, PosProfileTable, PosProfileBodies, PosProfileFresh, Every
<1>2. EditsFit(PosProfileService)
  BY DEF EditsFit, PosProfileService, PosProfileColumns, PosProfileBodies,
     PosProfileApplied, PosProfileKept, PosProfileShown, PosProfilePatched, Every
<1>3. MovesFit(PosProfileService)
  BY DEF MovesFit, Missing, PosProfileService, PosProfileRules, PosProfileMoves
<1>4. InsertsFit(PosProfileService)
  BY DEF InsertsFit, PosProfileService, PosProfileTable, PosProfileChecks,
     PosProfileColumns
<1>5. ValuesFit(PosProfileService)
  BY DEF ValuesFit, PosProfileService, Missing, PosProfileStatus,
     PosCashRoundingStrategy, Every, PosProfileColumns
<1>. QED BY <1>1, <1>2, <1>3, <1>4, <1>5 DEF Fits

LEMMA PosOpeningEntryFits == Fits(PosOpeningEntryService)
<1>1. RulesFit(PosOpeningEntryService)
  BY DEF RulesFit, PosOpeningEntryService, PosOpeningEntryColumns,
     PosOpeningEntryChecks, PosOpeningEntryRules, PosOpeningEntryTable,
     PosOpeningEntryBodies, PosOpeningEntryFresh, Every
<1>2. EditsFit(PosOpeningEntryService)
  BY DEF EditsFit, PosOpeningEntryService, PosOpeningEntryColumns,
     PosOpeningEntryBodies, PosOpeningEntryApplied, PosOpeningEntryKept,
     PosOpeningEntryShown, PosOpeningEntryPatched, Every
<1>3. MovesFit(PosOpeningEntryService)
  BY DEF MovesFit, Missing, PosOpeningEntryService, PosOpeningEntryRules, ClosedMove,
     PosOpeningEntryMoves
<1>4. InsertsFit(PosOpeningEntryService)
  BY DEF InsertsFit, PosOpeningEntryService, PosOpeningEntryTable,
     PosOpeningEntryChecks, PosOpeningEntryColumns, OpeningInsert
<1>5. ValuesFit(PosOpeningEntryService)
  BY DEF ValuesFit, PosOpeningEntryService, Missing, PosSessionStatus, Every,
     PosOpeningEntryColumns, OpeningInsert, ClosedMove
<1>. QED BY <1>1, <1>2, <1>3, <1>4, <1>5 DEF Fits

LEMMA PosClosingEntryFits == Fits(PosClosingEntryService)
<1>1. RulesFit(PosClosingEntryService)
  BY DEF RulesFit, PosClosingEntryService, PosClosingEntryColumns,
     PosClosingEntryChecks, PosClosingEntryRules, PosClosingEntryTable,
     PosClosingEntryBodies, PosClosingEntryFresh, Every
<1>2. EditsFit(PosClosingEntryService)
  BY DEF EditsFit, PosClosingEntryService, PosClosingEntryColumns,
     PosClosingEntryBodies, PosClosingEntryApplied, PosClosingEntryKept,
     PosClosingEntryShown, PosClosingEntryPatched, Every
<1>3. MovesFit(PosClosingEntryService)
  BY DEF MovesFit, Missing, PosClosingEntryService, PosClosingEntryRules
<1>4. InsertsFit(PosClosingEntryService)
  BY DEF InsertsFit, PosClosingEntryService, PosClosingEntryTable,
     PosClosingEntryChecks, PosClosingEntryColumns, ClosingInsert
<1>5. ValuesFit(PosClosingEntryService)
  BY DEF ValuesFit, PosClosingEntryService, Missing, PosClosingStatus, Every,
     PosClosingEntryColumns, ClosingInsert
<1>. QED BY <1>1, <1>2, <1>3, <1>4, <1>5 DEF Fits

LEMMA PosInvoiceFits == Fits(PosInvoiceService)
<1>1. RulesFit(PosInvoiceService)
  BY DEF RulesFit, PosInvoiceService, PosInvoiceColumns, PosInvoiceChecks,
     PosInvoiceRules, PosInvoiceTable, PosInvoiceBodies, PosInvoiceFresh, Every
<1>2. EditsFit(PosInvoiceService)
  BY DEF EditsFit, PosInvoiceService, PosInvoiceColumns, PosInvoiceBodies,
     PosInvoiceApplied, PosInvoiceKept, PosInvoiceShown, PosInvoicePatched, Every
<1>3. MovesFit(PosInvoiceService)
  BY DEF MovesFit, Missing, PosInvoiceService, PosInvoiceRules, PaidMove, ReturnedMove,
     PosInvoiceMoves, ReplayWrites, TenderWrites, LinkWrites, StockWrites
<1>4. InsertsFit(PosInvoiceService)
  BY DEF InsertsFit, PosInvoiceService, PosInvoiceTable, PosInvoiceChecks,
     PosInvoiceColumns, DraftInsert, ReturnInsert
<1>5. ValuesFit(PosInvoiceService)
  BY DEF ValuesFit, PosInvoiceService, Missing, PosInvoiceStatus, Every,
     PosInvoiceColumns, DraftInsert, ReturnInsert, PaidMove, ReturnedMove
<1>. QED BY <1>1, <1>2, <1>3, <1>4, <1>5 DEF Fits

LEMMA PosInvoiceItemFits == Fits(PosInvoiceItemService)
<1>1. RulesFit(PosInvoiceItemService)
  BY DEF RulesFit, PosInvoiceItemService, PosInvoiceItemColumns, PosInvoiceItemChecks,
     PosInvoiceItemRules, PosInvoiceItemTable, PosInvoiceItemBodies,
     PosInvoiceItemFresh, Every
<1>2. EditsFit(PosInvoiceItemService)
  BY DEF EditsFit, PosInvoiceItemService, PosInvoiceItemColumns, PosInvoiceItemBodies,
     PosInvoiceItemApplied, PosInvoiceItemKept, PosInvoiceItemShown,
     PosInvoiceItemPatched, Every
<1>3. MovesFit(PosInvoiceItemService)
  BY DEF MovesFit, Missing, PosInvoiceItemService, PosInvoiceItemRules
<1>4. InsertsFit(PosInvoiceItemService)
  BY DEF InsertsFit, PosInvoiceItemService, PosInvoiceItemTable, PosInvoiceItemChecks,
     PosInvoiceItemColumns, LineInsert
<1>5. ValuesFit(PosInvoiceItemService)
  BY DEF ValuesFit, PosInvoiceItemService, Missing, Every, PosInvoiceItemColumns,
     LineInsert
<1>. QED BY <1>1, <1>2, <1>3, <1>4, <1>5 DEF Fits

LEMMA PosPaymentFits == Fits(PosPaymentService)
<1>1. RulesFit(PosPaymentService)
  BY DEF RulesFit, PosPaymentService, PosPaymentColumns, PosPaymentChecks,
     PosPaymentRules, PosPaymentTable, PosPaymentBodies, PosPaymentFresh, Every
<1>2. EditsFit(PosPaymentService)
  BY DEF EditsFit, PosPaymentService, PosPaymentColumns, PosPaymentBodies,
     PosPaymentApplied, PosPaymentKept, PosPaymentShown, PosPaymentPatched, Every
<1>3. MovesFit(PosPaymentService)
  BY DEF MovesFit, Missing, PosPaymentService, PosPaymentRules
<1>4. InsertsFit(PosPaymentService)
  BY DEF InsertsFit, PosPaymentService, PosPaymentTable, PosPaymentChecks,
     PosPaymentColumns, TenderInsert
<1>5. ValuesFit(PosPaymentService)
  BY DEF ValuesFit, PosPaymentService, Missing, PosPaymentMethod, Every,
     PosPaymentColumns, TenderInsert
<1>. QED BY <1>1, <1>2, <1>3, <1>4, <1>5 DEF Fits

LEMMA PosCashMovementFits == Fits(PosCashMovementService)
<1>1. RulesFit(PosCashMovementService)
  BY DEF RulesFit, PosCashMovementService, PosCashMovementColumns,
     PosCashMovementChecks, PosCashMovementRules, PosCashMovementTable,
     PosCashMovementBodies, PosCashMovementFresh, Every
<1>2. EditsFit(PosCashMovementService)
  BY DEF EditsFit, PosCashMovementService, PosCashMovementColumns,
     PosCashMovementBodies, PosCashMovementApplied, PosCashMovementKept,
     PosCashMovementShown, PosCashMovementPatched, Every
<1>3. MovesFit(PosCashMovementService)
  BY DEF MovesFit, Missing, PosCashMovementService, PosCashMovementRules
<1>4. InsertsFit(PosCashMovementService)
  BY DEF InsertsFit, PosCashMovementService, PosCashMovementTable,
     PosCashMovementChecks, PosCashMovementColumns, MovementInsert
<1>5. ValuesFit(PosCashMovementService)
  BY DEF ValuesFit, PosCashMovementService, Missing, PosCashMovementType, Every,
     PosCashMovementColumns, MovementInsert
<1>. QED BY <1>1, <1>2, <1>3, <1>4, <1>5 DEF Fits

LEMMA PosDiscountFits == Fits(PosDiscountService)
<1>1. RulesFit(PosDiscountService)
  BY DEF RulesFit, PosDiscountService, PosDiscountColumns, PosDiscountChecks,
     PosDiscountRules, PosDiscountTable, PosDiscountBodies, PosDiscountFresh, Every
<1>2. EditsFit(PosDiscountService)
  BY DEF EditsFit, PosDiscountService, PosDiscountColumns, PosDiscountBodies,
     PosDiscountApplied, PosDiscountKept, PosDiscountShown, PosDiscountPatched, Every
<1>3. MovesFit(PosDiscountService)
  BY DEF MovesFit, Missing, PosDiscountService, PosDiscountRules
<1>4. InsertsFit(PosDiscountService)
  BY DEF InsertsFit, PosDiscountService, PosDiscountTable, PosDiscountChecks,
     PosDiscountColumns
<1>5. ValuesFit(PosDiscountService)
  BY DEF ValuesFit, PosDiscountService, Missing, Every, PosDiscountColumns
<1>. QED BY <1>1, <1>2, <1>3, <1>4, <1>5 DEF Fits

LEMMA PosManagerPinFits == Fits(PosManagerPinService)
<1>1. RulesFit(PosManagerPinService)
  BY DEF RulesFit, PosManagerPinService, PosManagerPinColumns, PosManagerPinChecks,
     PosManagerPinRules, PosManagerPinTable, PosManagerPinBodies, PosManagerPinFresh,
     Every
<1>2. EditsFit(PosManagerPinService)
  BY DEF EditsFit, PosManagerPinService, PosManagerPinColumns, PosManagerPinBodies,
     PosManagerPinApplied, PosManagerPinKept, PosManagerPinShown, PosManagerPinPatched,
     Every
<1>3. MovesFit(PosManagerPinService)
  BY DEF MovesFit, Missing, PosManagerPinService, PosManagerPinRules, PinFailureWrites,
     PinSuccessWrites
<1>4. InsertsFit(PosManagerPinService)
  BY DEF InsertsFit, PosManagerPinService, PosManagerPinTable, PosManagerPinChecks,
     PosManagerPinColumns, PinInsert
<1>5. ValuesFit(PosManagerPinService)
  BY DEF ValuesFit, PosManagerPinService, Missing, Every, PosManagerPinColumns,
     PinInsert
<1>. QED BY <1>1, <1>2, <1>3, <1>4, <1>5 DEF Fits

LEMMA PosFloorPlanFits == Fits(PosFloorPlanService)
<1>1. RulesFit(PosFloorPlanService)
  BY DEF RulesFit, PosFloorPlanService, PosFloorPlanColumns, PosFloorPlanChecks,
     PosFloorPlanRules, PosFloorPlanTable, PosFloorPlanBodies, PosFloorPlanFresh, Every
<1>2. EditsFit(PosFloorPlanService)
  BY DEF EditsFit, PosFloorPlanService, PosFloorPlanColumns, PosFloorPlanBodies,
     PosFloorPlanApplied, PosFloorPlanKept, PosFloorPlanShown, PosFloorPlanPatched,
     Every
<1>3. MovesFit(PosFloorPlanService)
  BY DEF MovesFit, Missing, PosFloorPlanService, PosFloorPlanRules
<1>4. InsertsFit(PosFloorPlanService)
  BY DEF InsertsFit, PosFloorPlanService, PosFloorPlanTable, PosFloorPlanChecks,
     PosFloorPlanColumns
<1>5. ValuesFit(PosFloorPlanService)
  BY DEF ValuesFit, PosFloorPlanService, Missing, Every, PosFloorPlanColumns
<1>. QED BY <1>1, <1>2, <1>3, <1>4, <1>5 DEF Fits

LEMMA PosTableFits == Fits(PosTableService)
<1>1. RulesFit(PosTableService)
  BY DEF RulesFit, PosTableService, PosTableColumns, PosTableChecks, PosTableRules,
     PosTableTable, PosTableBodies, PosTableFresh, Every
<1>2. EditsFit(PosTableService)
  BY DEF EditsFit, PosTableService, PosTableColumns, PosTableBodies, PosTableApplied,
     PosTableKept, PosTableShown, PosTablePatched, Every
<1>3. MovesFit(PosTableService)
  BY DEF MovesFit, Missing, PosTableService, PosTableRules
<1>4. InsertsFit(PosTableService)
  BY DEF InsertsFit, PosTableService, PosTableTable, PosTableChecks, PosTableColumns
<1>5. ValuesFit(PosTableService)
  BY DEF ValuesFit, PosTableService, Missing, Every, PosTableColumns
<1>. QED BY <1>1, <1>2, <1>3, <1>4, <1>5 DEF Fits

LEMMA ModuleFits == \A e \in Entities : Fits(PosModule[e])
<1>1. Entities = {"profile", "opening_entry", "closing_entry", "invoice", "invoice_item",
                  "payment", "cash_movement", "discount", "manager_pin", "floor_plan",
                  "table"}
  BY DEF Entities, PosModule
<1>2. /\ PosModule["profile"] = PosProfileService
      /\ PosModule["opening_entry"] = PosOpeningEntryService
      /\ PosModule["closing_entry"] = PosClosingEntryService
      /\ PosModule["invoice"] = PosInvoiceService
      /\ PosModule["invoice_item"] = PosInvoiceItemService
      /\ PosModule["payment"] = PosPaymentService
      /\ PosModule["cash_movement"] = PosCashMovementService
      /\ PosModule["discount"] = PosDiscountService
      /\ PosModule["manager_pin"] = PosManagerPinService
      /\ PosModule["floor_plan"] = PosFloorPlanService
      /\ PosModule["table"] = PosTableService
  BY DEF PosModule
<1> QED
  BY <1>1, <1>2, PosProfileFits, PosOpeningEntryFits, PosClosingEntryFits, PosInvoiceFits,
     PosInvoiceItemFits, PosPaymentFits, PosCashMovementFits, PosDiscountFits,
     PosManagerPinFits, PosFloorPlanFits, PosTableFits

----------------------------------------------------------------------------
(* The generic surface over one row *)

Stores(c) == job[c].kind \in {"post", "put", "patch"}

Frozen == Is(Focus.rules.state) /\ Focus.verbs = {}

\* What a clerk is about to store was let pass, and is what an edit says it is.
JobStands(c) ==
  /\ job[c].kind \in Kinds
  /\ job[c].kind = "seen" => job[c].was # Missing
  /\ Stores(c) /\ job[c].before # job[c].after =>
       job[c].after \in Unruled \/ DbTakes(job[c].before, job[c].after)
  /\ job[c].kind \in {"put", "patch"} =>
       /\ cell # Missing /\ job[c].after # Missing
       /\ Frozen => job[c].after = cell
       /\ IF job[c].sent # "kept"
          THEN Is(Focus.kept.protected) \/ job[c].after = job[c].sent
          ELSE job[c].was \in {Missing, job[c].before} => job[c].after = job[c].before

RowsInv ==
  /\ focus.entity \in Entities /\ Is(Every(Focus.columns))
  /\ DbTakes(Missing, cell)
  /\ job = [c \in Clerks |-> job[c]]
  /\ \A c \in Clerks : JobStands(c)

\* How a column moves: the table takes what it comes to hold, no row goes away, and a
\* state moves as a verb moves it.
CellMoves ==
  /\ DbTakes(Missing, cell')
  /\ cell # Missing => cell' # Missing
  /\ Is(Focus.rules.state) /\ cell # Missing => cell' = cell \/ <<cell, cell'>> \in Focus.verbs

----------------------------------------------------------------------------
LEMMA SendableIs ==
  ASSUME Fits(Focus), NEW v \in Sendable
  PROVE  v \notin {Missing, "kept"} /\ (v = "null" => Is(Focus.columns.optional))
<1>1. v \in Good => v \notin {Missing, "kept", "null"}
  BY DEF Good, Is, Fits, ValuesFit, Missing
<1>2. v \in Bad => v \notin {Missing, "kept", "null"}
  BY DEF Bad, Missing
<1>3. v \in Nothing => v = "null" /\ Is(Focus.columns.optional)
  BY DEF Nothing
<1>4. v \in Unruled => v \notin {Missing, "kept", "null"}
  BY DEF Unruled, Missing
<1> QED BY <1>1, <1>2, <1>3, <1>4 DEF Sendable, Missing

LEMMA FilledIs == Fits(Focus) => Filled \notin {"null", Missing}
  BY DEF Filled, Is, Fits, ValuesFit, Missing

\* What the service lets pass the table takes, but for what no rule looks at.
LEMMA PassesIsTaken ==
  ASSUME Fits(Focus), NEW before, NEW after, before # after, Passes(before, after),
         after = "null" /\ Is(Focus.table.notnull) =>
           Is(Focus.columns.optional) \/ Is(Focus.rules.required)
  PROVE  after \in Unruled \/ DbTakes(before, after)
<1>1. Meets(Focus.rules, after) /\ (Is(Focus.rules.state) => before = Missing)
  BY DEF Passes
<1>2. Meets(Focus.checks, after)
  BY <1>1 DEF Meets, Fits, RulesFit, Is
<1>3. Is(Focus.table.notnull) /\ after = "null" => Is(Focus.rules.required)
  BY DEF Fits, RulesFit, Is
<1>4. Is(Focus.table.notnull) => after # "null"
  BY <1>1, <1>3 DEF Meets
<1> QED BY <1>1, <1>2, <1>4 DEF DbTakes

LEMMA InsertsAreTaken ==
  ASSUME Fits(Focus), NEW i \in Focus.inserts, NEW v \in VerbInserts(i)
  PROVE  v \in Unruled \/ DbTakes(Missing, v)
<1>1. /\ Is(Focus.table.notnull) \/ Is(Focus.checks.required) =>
           Is(i.columns) \/ Is(Focus.table.defaulted)
      /\ i.status \notin {"null", "blank", "beyond"}
  BY DEF Fits, InsertsFit, Is
<1>2. v \in Unruled \/ v \notin {"blank", "beyond"}
  BY <1>1 DEF VerbInserts
<1>3. v \in Unruled \/ (v = "null" => ~Is(i.columns) /\ ~Is(Focus.table.defaulted))
  BY <1>1 DEF VerbInserts
<1> QED BY <1>1, <1>2, <1>3 DEF DbTakes, Meets

LEMMA FocusFits == focus.entity \in Entities => Fits(Focus)
  BY ModuleFits DEF Focus

LEMMA RowsInitHolds == RowsInit => RowsInv
<1> SUFFICES ASSUME RowsInit PROVE RowsInv
  OBVIOUS
<1>1. PICK e \in Entities :
        focus \in [entity : {e}, column : Every(PosModule[e].columns), mount : Mounts]
  BY DEF RowsInit
<1>2. focus.entity = e /\ focus.column \in Every(PosModule[e].columns)
  BY <1>1
<1>3. focus.entity \in Entities /\ Is(Every(Focus.columns))
  BY <1>2 DEF Is, Focus, Column
<1>4. DbTakes(Missing, cell)
  BY DEF RowsInit, DbTakes, Missing, Meets, Unruled
<1>5. \A c \in Clerks : JobStands(c)
  BY DEF RowsInit, JobStands, Stores, NoJob, Kinds
<1> QED BY <1>3, <1>4, <1>5 DEF RowsInv, RowsInit

----------------------------------------------------------------------------
\* The steps that prepare a job.

LEMMA JobPut ==
  ASSUME RowsInv, NEW c \in Clerks, NEW j, job' = [job EXCEPT ![c] = j],
         UNCHANGED <<focus, cell>>, JobStands(c)'
  PROVE  RowsInv'
<1>1. \A d \in Clerks \ {c} : job'[d] = job[d]
  BY DEF RowsInv
<1>2. ASSUME NEW d \in Clerks \ {c} PROVE JobStands(d)'
  <2>1. JobStands(d) /\ job'[d] = job[d]
    BY <1>1 DEF RowsInv
  <2>2. (Stores(d) /\ job[d].before # job[d].after =>
           job[d].after \in Unruled \/ DbTakes(job[d].before, job[d].after))'
    BY <2>1 DEF JobStands, Stores, DbTakes, Meets, Unruled, Key, Is, Focus, Column
  <2> QED BY <2>1, <2>2 DEF JobStands, Stores, Frozen, Is, Focus, Column
<1>3. (focus.entity \in Entities /\ Is(Every(Focus.columns)) /\ DbTakes(Missing, cell))'
  BY DEF RowsInv, DbTakes, Meets, Unruled, Key, Is, Focus, Column
<1> QED BY <1>2, <1>3 DEF RowsInv

LEMMA CellPut ==
  ASSUME RowsInv, CellMoves, focus' = focus, job' = [c \in Clerks |-> job'[c]],
         \A c \in Clerks : job'[c] \in {job[c], NoJob}
  PROVE  RowsInv'
<1>1. ASSUME NEW c \in Clerks, job'[c] = NoJob PROVE JobStands(c)'
  BY <1>1 DEF JobStands, Stores, NoJob, Kinds
<1>2. ASSUME NEW c \in Clerks, job'[c] = job[c] PROVE JobStands(c)'
  <2>1. JobStands(c)
    BY DEF RowsInv
  <2>2. (Stores(c) /\ job[c].before # job[c].after =>
           job[c].after \in Unruled \/ DbTakes(job[c].before, job[c].after))'
    BY <2>1, <1>2 DEF JobStands, Stores, DbTakes, Meets, Unruled, Key, Is, Focus, Column
  <2>3. job[c].kind \in {"put", "patch"} /\ Frozen => job[c].after = cell'
    BY <2>1 DEF JobStands, CellMoves, Frozen
  <2> QED
    BY <2>1, <2>2, <2>3, <1>2 DEF JobStands, Stores, CellMoves, Frozen, Is, Focus, Column
<1>3. (focus.entity \in Entities /\ Is(Every(Focus.columns)) /\ DbTakes(Missing, cell))'
  BY DEF RowsInv, CellMoves, DbTakes, Meets, Unruled, Key, Is, Focus, Column
<1> QED BY <1>1, <1>2, <1>3 DEF RowsInv

LEMMA PostHolds == ASSUME RowsInv, NEW c \in Clerks, Post(c) PROVE RowsInv'
<1>0. Fits(Focus)
  BY FocusFits DEF RowsInv
<1>1. PICK v \in IF Is(Focus.bodies.post)
                   THEN Sendable \cup (IF Is(Focus.bodies.spared) THEN {Filled} ELSE {})
                 ELSE IF Is(Focus.fresh.filled) THEN {Filled} ELSE {"null"} :
       Start(c, [kind |-> "post", sent |-> v, was |-> Missing, before |-> Missing,
                 after |-> v])
  BY DEF Post
<1>2. v = "null" /\ Is(Focus.table.notnull) =>
        Is(Focus.columns.optional) \/ Is(Focus.rules.required)
  <2>1. CASE Is(Focus.bodies.post)
    BY <2>1, <1>0, <1>1, SendableIs, FilledIs
  <2>2. CASE ~Is(Focus.bodies.post) /\ Is(Focus.fresh.filled)
    BY <2>2, <1>0, <1>1, FilledIs
  <2>3. CASE ~Is(Focus.bodies.post) /\ ~Is(Focus.fresh.filled)
    BY <2>3, <1>0 DEF Fits, RulesFit, Is
  <2> QED BY <2>1, <2>2, <2>3
<1>3. Passes(Missing, v)
  BY <1>1 DEF Start
<1>4. Missing # v => v \in Unruled \/ DbTakes(Missing, v)
  BY <1>0, <1>2, <1>3, PassesIsTaken
<1>5. PICK j : j = [kind |-> "post", sent |-> v, was |-> Missing, before |-> Missing,
                    after |-> v]
  OBVIOUS
<1>6. job' = [job EXCEPT ![c] = j] /\ UNCHANGED <<focus, cell>>
  BY <1>1, <1>5 DEF Start
<1>7. job'[c] = j
  BY <1>6 DEF RowsInv
<1>8. JobStands(c)'
  BY <1>4, <1>5, <1>6, <1>7
     DEF JobStands, Stores, Kinds, DbTakes, Meets, Unruled, Key, Is, Focus, Column
<1> QED BY <1>6, <1>8, JobPut

\* An edit that was let pass changes no state, and comes to what it says.
LEMMA RowEditHolds ==
  ASSUME RowsInv, Fits(Focus), NEW c \in Clerks, cell # Missing,
         NEW j, j = [kind |-> j.kind, sent |-> j.sent, before |-> cell, was |-> j.was,
                     after |-> j.after],
         j.kind \in {"put", "patch"}, Start(c, j), j.after # Missing,
         j.after = "null" /\ j.after # cell => Is(Focus.columns.optional),
         IF j.sent # "kept" THEN Is(Focus.kept.protected) \/ j.after = j.sent
         ELSE j.was \in {Missing, cell} => j.after = cell
  PROVE  RowsInv'
<1>1. j.before = cell
  OBVIOUS
<1>2. PICK after : after = j.after
  OBVIOUS
<1>3. Passes(cell, after)
  BY <1>1, <1>2 DEF Start
<1>4. cell # after => after \in Unruled \/ DbTakes(cell, after)
  BY <1>2, <1>3, PassesIsTaken
<1>5. Frozen => after = cell
  BY <1>3 DEF Passes, Frozen
<1>6. job' = [job EXCEPT ![c] = j] /\ UNCHANGED <<focus, cell>>
  BY DEF Start
<1>7. job'[c] = j
  BY <1>6 DEF RowsInv
<1>8. JobStands(c)'
  BY <1>1, <1>2, <1>4, <1>5, <1>6, <1>7
     DEF JobStands, Stores, Frozen, Kinds, DbTakes, Meets, Unruled, Key, Is, Focus, Column
<1> QED BY <1>6, <1>8, JobPut

LEMMA PutHolds == ASSUME RowsInv, NEW c \in Clerks, Put(c) PROVE RowsInv'
<1>0. Fits(Focus) /\ JobStands(c) /\ cell # Missing /\ Is(Every(Focus.columns))
  BY FocusFits DEF RowsInv, Put
<1> DEFINE taken == Is(Focus.bodies.put) /\ Is(Focus.applied) /\ ~Is(Focus.kept.protected)
<1>1. PICK v \in (IF Is(Focus.bodies.put) THEN Sendable ELSE {})
                 \cup (IF job[c].kind = "seen" THEN {"kept"} ELSE {}) :
        LET body == IF v = "kept" THEN Read(c) ELSE v
        IN /\ Is(Focus.bodies.put) /\ Is(Focus.columns.needed) => body # "null"
           /\ Start(c, [kind |-> "put", sent |-> v, before |-> cell,
                        was |-> IF v = "kept" THEN job[c].was ELSE Missing,
                        after |-> IF taken THEN body ELSE cell])
  BY DEF Put
<1> DEFINE body == IF v = "kept" THEN Read(c) ELSE v
<1>2. PICK j : j = [kind |-> "put", sent |-> v, before |-> cell,
                    was |-> IF v = "kept" THEN job[c].was ELSE Missing,
                    after |-> IF taken THEN body ELSE cell]
  OBVIOUS
<1>3. v = "kept" => job[c].kind = "seen" /\ job[c].was # Missing
  BY <1>0, <1>1, SendableIs DEF JobStands
<1>4. v # "kept" => v \in Sendable /\ v # Missing /\ Is(Focus.bodies.put)
  BY <1>0, <1>1, SendableIs
<1>5. body # Missing
  BY <1>1, <1>3, <1>4 DEF Read, Missing
<1>6. taken /\ body = "null" => Is(Focus.columns.optional)
  BY <1>0, <1>1 DEF Every, Is
<1>7. taken /\ v = "kept" => body = job[c].was
  BY <1>0, <1>1 DEF Read, Fits, EditsFit, Is
<1>8. v # "kept" => Is(Focus.kept.protected) \/ taken
  BY <1>0, <1>4 DEF Fits, EditsFit, Is
<1>9. IF j.sent # "kept" THEN Is(Focus.kept.protected) \/ j.after = j.sent
      ELSE j.was \in {Missing, cell} => j.after = cell
  BY <1>1, <1>2, <1>3, <1>7, <1>8
<1>10. j.after # Missing /\ (j.after = "null" /\ j.after # cell => Is(Focus.columns.optional))
  BY <1>0, <1>2, <1>5, <1>6
<1>11. /\ j = [kind |-> j.kind, sent |-> j.sent, before |-> cell, was |-> j.was,
               after |-> j.after]
       /\ j.kind \in {"put", "patch"}
  BY <1>2
<1>12. Start(c, j)
  BY <1>1, <1>2
<1> QED BY <1>0, <1>9, <1>10, <1>11, <1>12, RowEditHolds

LEMMA PatchHolds == ASSUME RowsInv, NEW c \in Clerks, Patch(c) PROVE RowsInv'
<1>0. Fits(Focus) /\ cell # Missing /\ Is(Every(Focus.columns))
  BY FocusFits DEF RowsInv, Patch
<1>1. PICK v \in Sendable \cup {"kept"}, taken \in BOOLEAN :
        /\ taken <=> v # "kept" /\ Is(Focus.patched) /\ ~Is(Focus.kept.protected)
        /\ Start(c, [kind |-> "patch", sent |-> v, was |-> Missing, before |-> cell,
                     after |-> IF taken THEN v ELSE cell])
  BY DEF Patch
<1>2. PICK j : j = [kind |-> "patch", sent |-> v, was |-> Missing, before |-> cell,
                    after |-> IF taken THEN v ELSE cell]
  OBVIOUS
<1>3. v # "kept" => v # Missing /\ (v = "null" => Is(Focus.columns.optional))
  BY <1>0, <1>1, SendableIs
<1>4. v # "kept" => Is(Focus.kept.protected) \/ taken
  BY <1>0, <1>1 DEF Fits, EditsFit, Is
<1>5. IF j.sent # "kept" THEN Is(Focus.kept.protected) \/ j.after = j.sent
      ELSE j.was \in {Missing, cell} => j.after = cell
  BY <1>1, <1>2, <1>4
<1>6. j.after # Missing /\ (j.after = "null" /\ j.after # cell => Is(Focus.columns.optional))
  BY <1>0, <1>1, <1>2, <1>3
<1>7. /\ j = [kind |-> j.kind, sent |-> j.sent, before |-> cell, was |-> j.was,
              after |-> j.after]
      /\ j.kind \in {"put", "patch"}
  BY <1>2
<1>8. Start(c, j)
  BY <1>1, <1>2
<1> QED BY <1>0, <1>5, <1>6, <1>7, <1>8, RowEditHolds

LEMMA GetHolds == ASSUME RowsInv, NEW c \in Clerks, Get(c) PROVE RowsInv'
<1>1. PICK j : j = [kind |-> "seen", was |-> cell]
  OBVIOUS
<1>2. job' = [job EXCEPT ![c] = j] /\ UNCHANGED <<focus, cell>> /\ cell # Missing
  BY <1>1 DEF Get
<1>3. job'[c] = j
  BY <1>2 DEF RowsInv
<1>4. JobStands(c)'
  BY <1>1, <1>2, <1>3 DEF JobStands, Stores, Kinds
<1> QED BY <1>2, <1>4, JobPut

LEMMA GiveUpHolds == ASSUME RowsInv, NEW c \in Clerks, GiveUp(c) PROVE RowsInv'
<1>1. job' = [job EXCEPT ![c] = NoJob] /\ UNCHANGED <<focus, cell>>
  BY DEF GiveUp
<1>2. job'[c] = NoJob
  BY <1>1 DEF RowsInv
<1>3. JobStands(c)'
  BY <1>2 DEF JobStands, Stores, Kinds, NoJob
<1> QED BY <1>1, <1>3, JobPut

----------------------------------------------------------------------------
\* The steps that write the column.

LEMMA StoreMoves ==
  ASSUME RowsInv, NEW c \in Clerks, Store(c)
  PROVE  /\ CellMoves /\ focus' = focus /\ job' = [d \in Clerks |-> job'[d]]
         /\ \A d \in Clerks : job'[d] \in {job[d], NoJob}
<1>0. Fits(Focus) /\ JobStands(c)
  BY FocusFits DEF RowsInv
<1>1. PICK after : after = job[c].after
  OBVIOUS
<1>2. DbTakes(cell, after) /\ cell' = after
  BY <1>1 DEF Store
<1>3. DbTakes(Missing, after)
  BY <1>2 DEF DbTakes
<1>4. cell # Missing => after # Missing /\ (Frozen => after = cell)
  BY <1>0, <1>1 DEF Store, JobStands
<1>5. Is(Focus.rules.state) /\ cell # Missing => after = cell \/ <<cell, after>> \in Focus.moves
  BY <1>2 DEF DbTakes
<1>6. Is(Focus.rules.state) /\ cell # Missing => after = cell \/ <<cell, after>> \in Focus.verbs
  BY <1>0, <1>4, <1>5 DEF Fits, MovesFit, Frozen
<1> QED BY <1>2, <1>3, <1>4, <1>6 DEF CellMoves, Store, RowsInv

LEMMA VerbMoveMoves == ASSUME RowsInv, VerbMove PROVE CellMoves
<1>0. Fits(Focus)
  BY FocusFits DEF RowsInv
<1>1. PICK m \in Focus.verbs : cell = m[1] /\ DbTakes(cell, m[2]) /\ cell' = m[2]
  BY DEF VerbMove
<1>2. m = <<m[1], m[2]>> /\ m[2] # Missing
  BY <1>0 DEF Fits, MovesFit
<1>3. <<cell, cell'>> \in Focus.verbs
  BY <1>1, <1>2
<1>4. DbTakes(Missing, cell')
  BY <1>1 DEF DbTakes
<1> QED BY <1>1, <1>2, <1>3, <1>4 DEF CellMoves

LEMMA VerbWriteMoves == ASSUME RowsInv, VerbWrite PROVE CellMoves
<1>0. Fits(Focus)
  BY FocusFits DEF RowsInv
<1>1. ~Is(Focus.rules.state)
  BY <1>0 DEF VerbWrite, Fits, MovesFit, Is
<1> QED BY <1>1 DEF VerbWrite, CellMoves, DbTakes, Meets, Missing, Unruled

LEMMA RowsStepHolds ==
  ASSUME RowsInv, [RowsNext]_rowVars PROVE RowsInv' /\ (CellMoves \/ cell' = cell)
<1>1. ASSUME NEW c \in Clerks, Post(c) \/ Get(c) \/ Put(c) \/ Patch(c) \/ GiveUp(c)
      PROVE  RowsInv' /\ cell' = cell
  <2>1. RowsInv'
    BY <1>1, PostHolds, GetHolds, PutHolds, PatchHolds, GiveUpHolds
  <2> QED BY <1>1, <2>1 DEF Post, Get, Put, Patch, GiveUp, Start
<1>2. ASSUME NEW c \in Clerks, Store(c) PROVE RowsInv' /\ CellMoves
  BY <1>2, StoreMoves, CellPut
<1>3. CASE Build \/ VerbInsert
  <2>1. CellMoves /\ focus' = focus /\ job' = job
    BY <1>3 DEF Build, VerbInsert, CellMoves
  <2> QED BY <2>1, CellPut DEF RowsInv
<1>4. CASE VerbMove \/ VerbWrite
  <2>1. CellMoves /\ focus' = focus /\ job' = job
    BY <1>4, VerbMoveMoves, VerbWriteMoves DEF VerbMove, VerbWrite
  <2> QED BY <2>1, CellPut DEF RowsInv
<1>5. CASE UNCHANGED rowVars
  <2>1. focus' = focus /\ cell' = cell /\ job' = job
    BY <1>5 DEF rowVars
  <2>2. CellMoves
    BY <2>1 DEF CellMoves, RowsInv
  <2> QED BY <2>1, <2>2, CellPut DEF RowsInv
<1> QED BY <1>1, <1>2, <1>3, <1>4, <1>5 DEF RowsNext

(***************************************************************************)
(* For every entity, column and mount and any number of clerks, a table    *)
(* refuses what the service let pass, and what a verb inserts, only for a  *)
(* key another row holds, a reference to no row or a number of too many    *)
(* digits: the rules of the generated services agree with the CHECKs, the  *)
(* NOT NULLs and the triggers of the tables.                               *)
(***************************************************************************)
THEOREM RulesAgreeWithTables == RowsSpec => []RulesCoverTheChecks
<1>1. ASSUME RowsInv PROVE RulesCoverTheChecks
  <2>0. Fits(Focus)
    BY <1>1, FocusFits DEF RowsInv
  <2>1. ASSUME NEW c \in Clerks, job[c].kind \in {"post", "put", "patch"},
               job[c].before = cell
        PROVE  job[c].after \in Unruled \/ DbTakes(cell, job[c].after)
    <3>1. CASE job[c].after = cell
      BY <3>1, <1>1 DEF RowsInv, DbTakes
    <3>2. CASE job[c].after # cell
      BY <3>2, <2>1, <1>1 DEF RowsInv, JobStands, Stores
    <3> QED BY <3>1, <3>2
  <2>2. ASSUME NEW i \in Focus.inserts, NEW v \in VerbInserts(i)
        PROVE  v \in Unruled \/ DbTakes(Missing, v)
    BY <2>0, <2>2, InsertsAreTaken
  <2> QED BY <2>1, <2>2 DEF RulesCoverTheChecks
<1> QED BY <1>1, RowsInitHolds, RowsStepHolds, PTL DEF RowsSpec

(***************************************************************************)
(* An edit that was let pass stores what it sent in a column that may be   *)
(* edited, and leaves a column it did not send as the clerk read it, for   *)
(* every entity, column and mount: what a PUT carries is what a GET shows  *)
(* and apply_update assigns.                                               *)
(***************************************************************************)
THEOREM EditsAreKept == RowsSpec => []EditsDoWhatTheySay
<1>1. RowsInv => EditsDoWhatTheySay
  BY DEF RowsInv, JobStands, EditsDoWhatTheySay
<1> QED BY <1>1, RowsInitHolds, RowsStepHolds, PTL DEF RowsSpec

(***************************************************************************)
(* A ticket, a session and a register change their status only as a verb   *)
(* does, whoever stores a row read long ago: the service refuses to edit a *)
(* status, and the trigger of the table refuses the move back.             *)
(***************************************************************************)
THEOREM StatesMoveForward == RowsSpec => StateMovesForward
<1>1. RowsInv /\ [RowsNext]_rowVars =>
        [Is(Focus.rules.state) /\ cell # Missing => <<cell, cell'>> \in Focus.verbs]_cell
  BY RowsStepHolds DEF CellMoves
<1> QED BY <1>1, RowsInitHolds, RowsStepHolds, PTL DEF RowsSpec, StateMovesForward

----------------------------------------------------------------------------
\* What the column and the jobs hold.
RowsTyped ==
  /\ cell \in Cells
  /\ \A c \in Clerks :
       /\ job[c].kind = "seen" => job[c].was \in Cells
       /\ Stores(c) => job[c].after \in Cells \ {Missing}

LEMMA CellsStay == focus' = focus => Cells' = Cells
  BY DEF Cells, Sendable, Good, Bad, Nothing, Unruled, Key, Filled, Is, Focus, Column

LEMMA CellsAre ==
  /\ Sendable \subseteq Cells /\ Good \subseteq Cells
  /\ {Filled, "null", "made", Missing} \subseteq Cells
  BY DEF Cells, Sendable

LEMMA JobTyped ==
  ASSUME RowsInv, RowsTyped, NEW c \in Clerks, NEW j, job' = [job EXCEPT ![c] = j],
         UNCHANGED <<focus, cell>>, j.kind = "seen" => j.was \in Cells,
         j.kind \in {"post", "put", "patch"} => j.after \in Cells \ {Missing}
  PROVE  RowsTyped'
<1>1. job'[c] = j /\ \A d \in Clerks \ {c} : job'[d] = job[d]
  BY DEF RowsInv
<1> QED BY <1>1, CellsStay DEF RowsTyped, Stores

LEMMA CellTyped ==
  ASSUME RowsInv, RowsTyped, cell' \in Cells, focus' = focus,
         \A c \in Clerks : job'[c] \in {job[c], NoJob}
  PROVE  RowsTyped'
  BY CellsStay DEF RowsTyped, Stores, NoJob

LEMMA VerbInsertsAre ==
  ASSUME Fits(Focus), Is(Every(Focus.columns)), NEW i \in Focus.inserts,
         NEW v \in VerbInserts(i)
  PROVE  v \in Cells
<1>1. CASE Is({"status"})
  <2>1. Column = "status" /\ "status" \in Every(Focus.columns)
    BY <1>1 DEF Is
  <2>2. "status" \in DOMAIN Focus.enums /\ i.status \in Focus.enums["status"].values
    BY <2>1 DEF Fits, ValuesFit
  <2>3. i.status \in Good
    BY <2>1, <2>2 DEF Good, Is
  <2> QED BY <1>1, <2>3, CellsAre DEF VerbInserts
<1>2. CASE ~Is({"status"})
  <2>1. ~Is(i.columns) => Filled = "filled"
    BY DEF Filled, Is, Fits, ValuesFit
  <2>2. Unruled \subseteq Cells
    BY CellsAre DEF Sendable
  <2> QED BY <1>2, <2>1, <2>2, CellsAre DEF VerbInserts
<1> QED BY <1>1, <1>2

LEMMA RowsTypedStep == ASSUME RowsInv, RowsTyped, [RowsNext]_rowVars PROVE RowsTyped'
<1>0. Fits(Focus) /\ Is(Every(Focus.columns))
  BY FocusFits DEF RowsInv
<1>1. ASSUME NEW c \in Clerks, Post(c) PROVE RowsTyped'
  <2>1. PICK v \in Sendable \cup {Filled, "null"} :
         Start(c, [kind |-> "post", sent |-> v, was |-> Missing, before |-> Missing,
                   after |-> v])
    BY <1>1 DEF Post
  <2>2. v \in Cells \ {Missing}
    BY <2>1, <1>0, SendableIs, FilledIs, CellsAre DEF Missing
  <2> QED BY <2>1, <2>2, JobTyped DEF Start
<1>2. ASSUME NEW c \in Clerks, Get(c) PROVE RowsTyped'
  BY <1>2, JobTyped DEF Get, RowsTyped
<1>3. ASSUME NEW c \in Clerks, Put(c) PROVE RowsTyped'
  <2>1. PICK v \in (IF Is(Focus.bodies.put) THEN Sendable ELSE {})
                   \cup (IF job[c].kind = "seen" THEN {"kept"} ELSE {}) :
          Start(c, [kind |-> "put", sent |-> v, before |-> cell,
                    was |-> IF v = "kept" THEN job[c].was ELSE Missing,
                    after |-> IF Is(Focus.bodies.put) /\ Is(Focus.applied)
                                   /\ ~Is(Focus.kept.protected)
                                THEN IF v = "kept" THEN Read(c) ELSE v ELSE cell])
    BY <1>3 DEF Put
  <2>2. v = "kept" => job[c].kind = "seen"
    BY <1>0, <2>1, SendableIs
  <2>3. v = "kept" => Read(c) \in Cells \ {Missing}
    BY <2>2, CellsAre DEF Read, RowsTyped, RowsInv, JobStands, Missing
  <2>4. v # "kept" => v \in Cells \ {Missing}
    BY <1>0, <2>1, SendableIs, CellsAre
  <2>5. cell \in Cells \ {Missing}
    BY <1>3 DEF Put, RowsTyped
  <2>6. PICK j : j = [kind |-> "put", sent |-> v, before |-> cell,
                      was |-> IF v = "kept" THEN job[c].was ELSE Missing,
                      after |-> IF Is(Focus.bodies.put) /\ Is(Focus.applied)
                                     /\ ~Is(Focus.kept.protected)
                                  THEN IF v = "kept" THEN Read(c) ELSE v ELSE cell]
    OBVIOUS
  <2>7. j.kind = "put" /\ j.after \in Cells \ {Missing}
    BY <2>3, <2>4, <2>5, <2>6
  <2>8. job' = [job EXCEPT ![c] = j] /\ UNCHANGED <<focus, cell>>
    BY <2>1, <2>6 DEF Start
  <2> QED BY <2>7, <2>8, JobTyped
<1>4. ASSUME NEW c \in Clerks, Patch(c) PROVE RowsTyped'
  <2>1. PICK v \in Sendable \cup {"kept"}, after \in Sendable \cup {cell} :
         Start(c, [kind |-> "patch", sent |-> v, was |-> Missing, before |-> cell,
                   after |-> after])
    BY <1>4 DEF Patch
  <2>2. after \in Cells \ {Missing}
    BY <2>1, <1>0, <1>4, SendableIs, CellsAre DEF Patch, RowsTyped
  <2> QED BY <2>1, <2>2, JobTyped DEF Start
<1>5. ASSUME NEW c \in Clerks, GiveUp(c) PROVE RowsTyped'
  BY <1>5, JobTyped DEF GiveUp, NoJob
<1>6. ASSUME NEW c \in Clerks, Store(c) PROVE RowsTyped'
  <2>1. cell' \in Cells
    BY <1>6 DEF Store, RowsTyped, Stores
  <2> QED BY <1>6, <2>1, StoreMoves, CellTyped
<1>7. CASE Build
  BY <1>7, <1>0, CellsAre, CellTyped DEF Build
<1>8. CASE VerbInsert
  BY <1>8, <1>0, VerbInsertsAre, CellTyped DEF VerbInsert
<1>9. CASE VerbWrite
  BY <1>9, CellsAre, CellTyped DEF VerbWrite
<1>10. CASE VerbMove
  <2>1. PICK m \in Focus.verbs : cell' = m[2]
    BY <1>10 DEF VerbMove
  <2>2. Column = "status" /\ "status" \in Every(Focus.columns)
    BY <1>0, <1>10 DEF VerbMove, Is
  <2>3. "status" \in DOMAIN Focus.enums /\ m[2] \in Focus.enums["status"].values
    BY <1>0, <2>2 DEF Fits, ValuesFit
  <2>4. m[2] \in Good
    BY <2>2, <2>3 DEF Good, Is
  <2> QED BY <2>1, <2>4, <1>10, CellsAre, CellTyped DEF VerbMove
<1>11. CASE UNCHANGED rowVars
  BY <1>11, CellTyped DEF rowVars, RowsTyped
<1> QED
  BY <1>1, <1>2, <1>3, <1>4, <1>5, <1>6, <1>7, <1>8, <1>9, <1>10, <1>11 DEF RowsNext

LEMMA RowsTypedIs == RowsInv /\ RowsTyped => RowsTypeOK
  BY DEF RowsInv, RowsTyped, RowsTypeOK, JobStands, Stores

----------------------------------------------------------------------------
(* The seeders *)

SeedsInv ==
  /\ files \subseteq Entities /\ Complete(files)
  /\ seeded \subseteq files
  /\ seeder = [todo |-> seeder.todo, all |-> seeder.all, force |-> seeder.force,
               failed |-> seeder.failed]
  /\ seeder.todo \subseteq Entities
  /\ seeder.failed => seeder.todo = {}
  /\ seeder # NoRun /\ seeder.all /\ ~seeder.failed => files \ seeder.todo \subseteq seeded
  /\ SeedsFindTheirParents

\* The seeder of a parent runs first.
LEMMA ParentsGoFirst ==
  \A e \in Entities : \A p \in Parents(e) :
    p \in Entities /\ Order(e) \in Nat /\ Order(p) \in Nat /\ Order(p) < Order(e)
<1>1. Entities = {"profile", "opening_entry", "closing_entry", "invoice", "invoice_item",
                  "payment", "cash_movement", "discount", "manager_pin", "floor_plan",
                  "table"}
  BY DEF Entities, PosModule
<1>2. /\ Parents("profile") = {} /\ Parents("opening_entry") = {"profile"}
      /\ Parents("closing_entry") = {"opening_entry"}
  BY DEF Parents, PosModule, PosProfileService, PosProfileKept, PosOpeningEntryService,
     PosOpeningEntryKept, PosClosingEntryService, PosClosingEntryKept
<1>3. /\ Parents("invoice") \subseteq {"opening_entry", "profile"}
      /\ Parents("invoice_item") = {"invoice"} /\ Parents("payment") = {"invoice"}
      /\ Parents("cash_movement") = {"opening_entry"}
  BY DEF Parents, PosModule, PosInvoiceService, PosInvoiceKept, PosInvoiceItemService,
     PosInvoiceItemKept, PosPaymentService, PosPaymentKept, PosCashMovementService,
     PosCashMovementKept
<1>4. /\ Parents("discount") = {} /\ Parents("manager_pin") = {}
      /\ Parents("floor_plan") = {} /\ Parents("table") = {"floor_plan"}
  BY DEF Parents, PosModule, PosDiscountService, PosDiscountKept, PosManagerPinService,
     PosManagerPinKept, PosFloorPlanService, PosFloorPlanKept, PosTableService, PosTableKept
<1>5. /\ Order("profile") = 1 /\ Order("opening_entry") = 2 /\ Order("closing_entry") = 3
      /\ Order("invoice") = 4 /\ Order("invoice_item") = 5 /\ Order("payment") = 6
      /\ Order("cash_movement") = 7 /\ Order("floor_plan") = 10 /\ Order("table") = 11
  BY DEF Order, PosModule, PosProfileService, PosProfileSeed, PosOpeningEntryService,
     PosOpeningEntrySeed, PosClosingEntryService, PosClosingEntrySeed, PosInvoiceService,
     PosInvoiceSeed, PosInvoiceItemService, PosInvoiceItemSeed, PosPaymentService,
     PosPaymentSeed, PosCashMovementService, PosCashMovementSeed, PosFloorPlanService,
     PosFloorPlanSeed, PosTableService, PosTableSeed
<1> QED BY <1>1, <1>2, <1>3, <1>4, <1>5

LEMMA SeedsInitHolds == SeedsInit => SeedsInv
  BY DEF SeedsInit, SeedsInv, NoRun, SeedsFindTheirParents

\* A run over all the seeders that reaches a file has the rows of its parents.
LEMMA ParentsAreSeeded ==
  ASSUME SeedsInv, seeder.all, NEW e \in Entities, First(e), e \in files
  PROVE  Parents(e) \subseteq seeded
<1> SUFFICES ASSUME NEW p \in Parents(e), p \notin seeded PROVE FALSE
  OBVIOUS
<1>1. p \in files /\ p \in Entities /\ Order(p) < Order(e) /\ Order(p) \in Nat /\ Order(e) \in Nat
  BY ParentsGoFirst DEF SeedsInv, Complete
<1>2. seeder # NoRun /\ ~seeder.failed
  BY DEF First, SeedsInv, NoRun
<1>3. p \in seeder.todo
  BY <1>1, <1>2 DEF SeedsInv
<1>4. Order(e) <= Order(p)
  BY <1>3 DEF First
<1> QED BY <1>1, <1>4

LEMMA SeedsStepHolds == SeedsInv /\ [SeedsNext]_seedVars => SeedsInv'
<1> SUFFICES ASSUME SeedsInv, [SeedsNext]_seedVars PROVE SeedsInv'
  OBVIOUS
<1>1. ASSUME NEW filter \in Filters, NEW force \in BOOLEAN, Seed(filter, force)
      PROVE  SeedsInv'
  <2>1. filter \subseteq Entities
    BY DEF Filters, Entities, PosModule
  <2> QED BY <1>1, <2>1 DEF Seed, SeedsInv, Complete, SeedsFindTheirParents
<1>2. ASSUME NEW e \in Entities, First(e), Done(e), files' = files,
             seeded' \in {seeded, seeded \cup {e}}, seeded' \subseteq files,
             e \in files => e \in seeded'
      PROVE  SeedsInv'
  <2>1. /\ seeder'.todo = seeder.todo \ {e} /\ seeder'.all = seeder.all
        /\ seeder'.force = seeder.force /\ seeder'.failed = seeder.failed
        /\ seeder' = [todo |-> seeder'.todo, all |-> seeder'.all, force |-> seeder'.force,
                      failed |-> seeder'.failed]
    BY <1>2 DEF Done, SeedsInv
  <2>2. seeder # NoRun /\ ~seeder.failed
    BY <1>2 DEF First, SeedsInv, NoRun
  <2> QED BY <1>2, <2>1, <2>2 DEF SeedsInv, Complete, SeedsFindTheirParents
<1>3. ASSUME NEW e \in Entities, First(e), Fails, UNCHANGED <<files, seeded>>,
             seeder.force \/ ~seeder.all
      PROVE  SeedsInv'
  <2>1. seeder' = [todo |-> {}, all |-> seeder.all, force |-> seeder.force, failed |-> TRUE]
    BY <1>3 DEF Fails, SeedsInv
  <2> QED BY <1>3, <2>1 DEF SeedsInv, Complete, SeedsFindTheirParents
<1>4. ASSUME NEW e \in Entities, Skip(e) PROVE SeedsInv'
  BY <1>4, <1>2 DEF Skip, SeedsInv
<1>5. ASSUME NEW e \in Entities, Run(e) PROVE SeedsInv'
  <2>1. CASE e \in files /\ ~(Parents(e) \subseteq seeded)
    BY <2>1, <1>5, <1>3, ParentsAreSeeded DEF Run
  <2>2. CASE ~(e \in files /\ ~(Parents(e) \subseteq seeded))
    BY <2>2, <1>5, <1>2 DEF Run, SeedsInv
  <2> QED BY <2>1, <2>2
<1>6. ASSUME NEW e \in Entities, Repeat(e) PROVE SeedsInv'
  BY <1>6, <1>2, <1>3 DEF Repeat, SeedsInv
<1>7. CASE Stops
  BY <1>7 DEF Stops, NoRun, SeedsInv, Complete, SeedsFindTheirParents
<1>8. CASE UNCHANGED seedVars
  BY <1>8 DEF seedVars, SeedsInv, Complete, SeedsFindTheirParents
<1> QED BY <1>1, <1>4, <1>5, <1>6, <1>7, <1>8 DEF SeedsNext

(***************************************************************************)
(* A run over all the seeders never fails for want of a parent, whichever  *)
(* files a deployment filled in and whatever runs, filtered, forced,       *)
(* failed or cut short, came before it: the order of the seeders follows   *)
(* the references between the tables.                                      *)
(***************************************************************************)
THEOREM ParentsAreFound == SeedsSpec => []SeedsFindTheirParents
<1>1. SeedsInv => SeedsFindTheirParents
  BY DEF SeedsInv
<1> QED BY <1>1, SeedsInitHolds, SeedsStepHolds, PTL DEF SeedsSpec

----------------------------------------------------------------------------
(* What every part holds *)

ReceiptTyped ==
  ticket.lines \in Baskets \cup {0} /\ ticket.tenders \in TenderRows /\ due \in BOOLEAN

LEMMA ReceiptTypedStep ==
  ASSUME ReceiptInv, ReceiptTyped, [ReceiptNext]_receiptVars PROVE ReceiptTyped'
<1>1. ASSUME NEW b \in Baskets \cup {0}, NEW ts \in TenderRows, NEW s, NEW i,
             ticket' = Ticket(b, ts, s, i), due' = due
      PROVE  ReceiptTyped'
  BY <1>1 DEF Ticket, ReceiptTyped
<1>2. CASE Rings
  BY <1>1, <1>2 DEF Rings
<1>3. CASE Replaces
  BY <1>1, <1>3 DEF Replaces
<1>4. CASE Tendered
  <2>1. PICK c \in Coins :
          /\ Append(ticket.tenders, c) \in TenderRows
          /\ ticket' = Ticket(ticket.lines, Append(ticket.tenders, c), "draft", Invoiced)
    BY <1>4 DEF Tendered
  <2> QED BY <1>1, <1>4, <2>1 DEF Tendered, ReceiptTyped
<1>5. CASE Links \/ Flips \/ Returns
  BY <1>1, <1>5 DEF Links, Flips, Returns, Marked, ReceiptTyped
<1>6. CASE UNCHANGED ticket /\ due' \in {due, TRUE}
  BY <1>6 DEF ReceiptTyped
<1>7. CASE Due \/ ReadsOn \/ HandsOver \/ UNCHANGED receiptVars
  BY <1>6, <1>7 DEF Due, ReadsOn, HandsOver, receiptVars
<1> QED BY <1>2, <1>3, <1>4, <1>5, <1>7 DEF ReceiptNext

DesksStand ==
  /\ CloseInv /\ RowsInv /\ RowsTyped /\ SeedsInv /\ AlertInv
  /\ ReceiptInv /\ ReceiptTyped

LEMMA DesksInitHolds == BackOfficeInit => DesksStand
<1> SUFFICES ASSUME BackOfficeInit PROVE DesksStand
  OBVIOUS
<1>1. CloseInv /\ RowsInv /\ SeedsInv /\ AlertInv /\ ReceiptInv
  BY CloseInitHolds, RowsInitHolds, SeedsInitHolds, AlertInitHolds, ReceiptInitHolds
     DEF BackOfficeInit
<1>2. RowsTyped
  BY CellsAre DEF BackOfficeInit, RowsInit, RowsTyped, Stores, NoJob
<1>3. << >> \in TenderRows
  <2>1. << >> \in [1 .. 0 -> Coins] /\ 0 \in 0 .. MaxRows
    BY ReceiptAssumption
  <2> QED BY <2>1 DEF TenderRows
<1>4. ReceiptTyped
  BY <1>3 DEF BackOfficeInit, ReceiptInit, NoTicket, Ticket, ReceiptTyped
<1> QED BY <1>1, <1>2, <1>4 DEF DesksStand

LEMMA DesksStepHolds == DesksStand /\ [BackOfficeNext]_backOfficeVars => DesksStand'
<1> SUFFICES ASSUME DesksStand, [BackOfficeNext]_backOfficeVars PROVE DesksStand'
  OBVIOUS
<1>1. /\ [Next]_vars /\ [RowsNext]_rowVars /\ [SeedsNext]_seedVars
      /\ [AlertNext]_alertVars /\ [ReceiptNext]_receiptVars
  BY DEF BackOfficeNext, backOfficeVars, closeVars
<1>2. CloseInv' /\ SeedsInv' /\ AlertInv' /\ ReceiptInv'
  BY <1>1, CloseStepHolds, SeedsStepHolds, AlertStepHolds, ReceiptStepHolds DEF DesksStand
<1>3. RowsInv' /\ RowsTyped' /\ ReceiptTyped'
  BY <1>1, RowsStepHolds, RowsTypedStep, ReceiptTypedStep DEF DesksStand
<1> QED BY <1>2, <1>3 DEF DesksStand

(***************************************************************************)
(* Every part of the back office keeps its rows, requests and runs in      *)
(* shape: what a table, a job, a seeder, a run of the alert or a slip      *)
(* holds is what its code can put there, for any number of each.           *)
(***************************************************************************)
THEOREM DesksKeepTheirShape == BackOfficeSpec => []BackOfficeTypeOK
<1>1. ASSUME DesksStand PROVE BackOfficeTypeOK
  <2>1. TypeOK /\ AlertTypeOK /\ SeedsTypeOK
    BY <1>1 DEF DesksStand, CloseInv, AlertInv, SeedsInv, SeedsTypeOK
  <2>2. RowsTypeOK
    BY <1>1, RowsTypedIs DEF DesksStand
  <2>3. ReceiptTypeOK
    BY <1>1, ReadsAre DEF DesksStand, ReceiptInv, ReceiptTyped, ReadsCounted, Kept, ReceiptTypeOK
  <2> QED BY <2>1, <2>2, <2>3 DEF BackOfficeTypeOK
<1> QED BY <1>1, DesksInitHolds, DesksStepHolds, PTL DEF BackOfficeSpec
============================================================================
