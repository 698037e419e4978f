------------------------ MODULE PosManagerPinProofs ------------------------
(***************************************************************************)
(* Proofs of the lockout of PosManagerPin, for any number of requests,     *)
(* managers and PINs and any policy.                                       *)
(*                                                                         *)
(* Recording is the invariant of a request between its lockout check and   *)
(* its record: it holds the lock of the manager whose credential it        *)
(* checked, so the check still stands.  HistoryAgrees ties the counter and *)
(* the lock of a credential to the wrong guesses compared.                 *)
(***************************************************************************)
EXTENDS PosManagerPin, TLAPS

Named == \A w \in Workers :
  /\ pc[w] \in {"lock", "record"} => call[w].proof \in Managers
  /\ pc[w] \in {"write", "insert"} => call[w].target \in Managers

Recording == \A w \in Workers : pc[w] = "record" =>
  /\ call[w].cred \in Live(call[w].proof)
  /\ lock[call[w].proof] = w
  /\ call[w].now <= clock
  /\ cred[call[w].cred].until <= call[w].now

HistoryAgrees == \A c \in Creds :
  /\ Len(wrong[c]) = cred[c].failed
  /\ cred[c].failed >= MaxAttempts => cred[c].until = wrong[c][cred[c].failed] + Lockout

PinInv == TypeOK /\ Named /\ Recording /\ HistoryAgrees /\ GuessesAreSpaced

----------------------------------------------------------------------------
LEMMA PinInit == Init => PinInv
<1> SUFFICES ASSUME Init PROVE PinInv
  OBVIOUS
<1>1. \A c \in Creds :
        cred[c] \in [manager : Managers \cup {None}, pin : {None}, failed : {0}, until : {0}]
  BY DEF Init, NoCred
<1>2. \A c \in Creds : wrong[c] = <<>>
  BY DEF Init
<1>3. cred \in [Creds -> [manager : Managers \cup {None}, pin : Pins \cup {None},
                          failed : Nat, until : Nat]]
  <2>1. cred \in [Creds -> [manager : Managers \cup {None}, pin : {None}, failed : {0}, until : {0}]]
    BY DEF Init, NoCred
  <2> QED BY <2>1
<1>4. TypeOK
  BY <1>3, PolicyAssumption DEF Init, TypeOK, NoCall, Calls
<1>5. Named /\ Recording
  BY DEF Init, Named, Recording
<1>6. HistoryAgrees /\ GuessesAreSpaced
  BY <1>1, <1>2, PolicyAssumption DEF HistoryAgrees, GuessesAreSpaced
<1> QED BY <1>4, <1>5, <1>6 DEF PinInv

----------------------------------------------------------------------------
\* How a step may leave a credential: as it was, or written by a request entitled to it.
Untouched(c) == cred'[c] = cred[c] /\ wrong'[c] = wrong[c]

Cleared(c) ==
  /\ cred'[c].failed = 0 /\ cred'[c].until = 0 /\ wrong'[c] = <<>>
  /\ cred'[c].manager = cred[c].manager

\* The step is a record of w on the credential it has locked.
RecordedBy(w, c) ==
  /\ pc[w] = "record" /\ pc'[w] # "record" /\ c = call[w].cred
  /\ \/ Cleared(c)
     \/ /\ cred'[c] = Failed(c, call[w].now)
        /\ wrong'[c] = Append(wrong[c], call[w].now)

\* The step is a new PIN set by w.
ReplacedBy(w, c) ==
  /\ pc[w] = "write" /\ c \in Live(call[w].target) /\ lock[call[w].target] = None
  /\ Cleared(c) /\ cred'[c].pin = call[w].new

InsertedBy(w, c) ==
  /\ pc[w] = "insert" /\ cred[c] = NoCred
  /\ cred'[c] = [NoCred EXCEPT !.manager = call[w].target, !.pin = call[w].new]
  /\ wrong'[c] = wrong[c]
  /\ Composed => Live(call[w].target) = {}

\* Who may write a credential, and at most one is written.
LEMMA Writers ==
  ASSUME PinInv, [Next]_vars
  PROVE  \/ \A c \in Creds : Untouched(c)
         \/ \E w \in Workers, d \in Creds :
              /\ \A c \in Creds : c # d => Untouched(c)
              /\ RecordedBy(w, d) \/ ReplacedBy(w, d) \/ InsertedBy(w, d)
<1> DEFINE Goal == \/ \A c \in Creds : Untouched(c)
                   \/ \E w \in Workers, d \in Creds :
                        /\ \A c \in Creds : c # d => Untouched(c)
                        /\ RecordedBy(w, d) \/ ReplacedBy(w, d) \/ InsertedBy(w, d)
<1> SUFFICES Goal
  OBVIOUS
<1>1. ASSUME UNCHANGED <<cred, wrong>> PROVE Goal
  BY <1>1 DEF Untouched
<1>2. ASSUME NEW w \in Workers, RecordSuccess(w) PROVE Goal
  <2> DEFINE d == call[w].cred
  <2>1. d \in Creds
    BY <1>2 DEF PinInv, Recording, Live, RecordSuccess
  <2>2. RecordedBy(w, d) /\ \A c \in Creds : c # d => Untouched(c)
    BY <1>2, <2>1 DEF RecordSuccess, Unlocked, Verified, Goto, RecordedBy, Cleared, Untouched,
                      PinInv, TypeOK
  <2> QED BY <2>1, <2>2
<1>3. ASSUME NEW w \in Workers, RecordFailure(w) PROVE Goal
  <2> DEFINE d == call[w].cred
  <2>1. d \in Creds
    BY <1>3 DEF PinInv, Recording, Live, RecordFailure
  <2>2. RecordedBy(w, d) /\ \A c \in Creds : c # d => Untouched(c)
    BY <1>3, <2>1 DEF RecordFailure, End, Goto, RecordedBy, Untouched, PinInv, TypeOK
  <2> QED BY <2>1, <2>2
<1>4. ASSUME NEW w \in Workers, Replace(w) PROVE Goal
  <2>1. PICK d \in Live(call[w].target) :
          /\ cred' = [cred EXCEPT ![d] = Replaced(d, call[w].new)]
          /\ wrong' = [wrong EXCEPT ![d] = <<>>]
    BY <1>4 DEF Replace
  <2>2. d \in Creds
    BY DEF Live
  <2>3. cred'[d] = Replaced(d, call[w].new) /\ wrong'[d] = <<>>
    BY <2>1, <2>2 DEF PinInv, TypeOK
  <2>4. ReplacedBy(w, d)
    <3>1. cred[d] \in [manager : Managers \cup {None}, pin : Pins \cup {None},
                       failed : Nat, until : Nat]
      BY <2>2 DEF PinInv, TypeOK
    <3>2. Cleared(d) /\ cred'[d].pin = call[w].new
      BY <2>3, <3>1 DEF Cleared, Replaced
    <3>3. pc[w] = "write" /\ lock[call[w].target] = None
      BY <1>4 DEF Replace
    <3> QED BY <2>1, <3>2, <3>3 DEF ReplacedBy
  <2>5. \A c \in Creds : c # d => Untouched(c)
    BY <2>1, <2>2 DEF Untouched, PinInv, TypeOK
  <2> QED BY <2>2, <2>4, <2>5
<1>5. ASSUME NEW w \in Workers, Insert(w) PROVE Goal
  <2>1. CASE UNCHANGED cred
    BY <1>1, <1>5, <2>1 DEF Insert
  <2>2. CASE ~UNCHANGED cred
    <3>1. PICK d \in Creds :
            /\ cred[d] = NoCred
            /\ cred' = [cred EXCEPT ![d] = [NoCred EXCEPT !.manager = call[w].target,
                                                          !.pin = call[w].new]]
      BY <1>5, <2>2 DEF Insert
    <3>2. InsertedBy(w, d) /\ \A c \in Creds : c # d => Untouched(c)
      BY <1>5, <2>2, <3>1 DEF Insert, InsertedBy, Untouched, UniqueHolds, PinInv, TypeOK
    <3> QED BY <3>2
  <2> QED BY <2>1, <2>2
<1>6. ASSUME NEW w \in Workers, NEW caller \in Callers \cup {None}, NEW proof \in Managers,
             NEW pin \in Pins,
             \/ Verify(w, caller, proof, pin)
             \/ \E target \in Managers, new \in Pins : SetByProof(w, caller, proof, pin, target, new)
      PROVE  Goal
  BY <1>1, <1>6 DEF Verify, SetByProof, VerifyBegin
<1>7. ASSUME NEW w \in Workers, NEW target \in Managers, NEW new \in Pins, SetPin(w, target, new)
       PROVE  Goal
  BY <1>1, <1>7 DEF SetPin, SetAsAdmin
<1>8. ASSUME NEW w \in Workers, LockCredential(w) \/ Unreadable(w) \/ FindNone(w) \/ Abort(w)
      PROVE  Goal
  BY <1>1, <1>8 DEF LockCredential, Unreadable, FindNone, Abort
<1>9. CASE Tick \/ UNCHANGED vars
  BY <1>1, <1>9 DEF Tick, vars
<1> HIDE DEF Goal
<1>10. CASE Next
  <2>1. CASE \E w \in Workers : \E caller \in Callers \cup {None}, proof \in Managers, pin \in Pins :
               \/ Verify(w, caller, proof, pin)
               \/ \E target \in Managers, new \in Pins :
                    SetByProof(w, caller, proof, pin, target, new)
    BY <2>1, <1>6
  <2>2. CASE \E w \in Workers : \E target \in Managers, new \in Pins : SetPin(w, target, new)
    BY <2>2, <1>7
  <2>3. CASE \E w \in Workers :
               \/ LockCredential(w) \/ Unreadable(w) \/ RecordSuccess(w) \/ RecordFailure(w)
               \/ Replace(w) \/ FindNone(w) \/ Insert(w) \/ Abort(w)
    BY <2>3, <1>2, <1>3, <1>4, <1>5, <1>8
  <2> QED BY <1>10, <2>1, <2>2, <2>3, <1>9, Zenon DEF Next
<1> QED BY <1>9, <1>10

----------------------------------------------------------------------------
\* What a step does to the requests, leaving credentials aside.
Shapes ==
  /\ lock \in [Managers -> Workers \cup {None}]
  /\ pc \in [Workers -> {"idle", "lock", "record", "write", "insert"}]
  /\ call \in [Workers -> Calls]
  /\ Named

\* A request that goes from its lockout check to its record has locked the credential; one
\* that is there already keeps its lock and what it remembers.
Entering(v) ==
  /\ pc[v] = "lock"
  /\ call'[v].proof = call[v].proof
  /\ call'[v].cred \in Live(call[v].proof)
  /\ lock'[call[v].proof] = v
  /\ call'[v].now = clock /\ cred[call'[v].cred].until <= clock
  /\ UNCHANGED <<cred, clock>>

Staying(v) ==
  /\ pc[v] = "record" /\ call'[v] = call[v]
  /\ \A m \in Managers : lock[m] = v => lock'[m] = v

Enterings == Shapes' /\ \A v \in Workers : pc'[v] = "record" => Entering(v) \/ Staying(v)

LEMMA ReleaseShapes ==
  ASSUME PinInv, NEW w \in Workers, Release(w)
  PROVE  /\ lock' \in [Managers -> Workers \cup {None}]
         /\ \A m \in Managers, v \in Workers \ {w} : lock[m] = v => lock'[m] = v
  BY DEF PinInv, TypeOK, Release

\* A request that ends, or goes on to set a PIN, disturbs no other.
LEMMA LeavingEnters ==
  ASSUME PinInv, NEW w \in Workers, Release(w), NEW to \in {"idle", "write"}, NEW remembered \in Calls,
         Goto(w, to, remembered), to = "write" => remembered.target \in Managers
  PROVE  Enterings
<1>1. Shapes'
  BY ReleaseShapes DEF PinInv, TypeOK, Goto, Shapes, Named
<1>2. \A v \in Workers : pc'[v] = "record" => Staying(v)
  BY ReleaseShapes DEF PinInv, TypeOK, Goto, Staying
<1> QED BY <1>1, <1>2 DEF Enterings

LEMMA NoCallShape == NoCall \in Calls
  BY DEF NoCall, Calls

LEMMA EndEnters ==
  ASSUME PinInv, NEW w \in Workers, End(w)
  PROVE  Enterings
  BY LeavingEnters, NoCallShape DEF End

LEMMA VerifiedEnters ==
  ASSUME PinInv, NEW w \in Workers, pc[w] = "record", Verified(w)
  PROVE  Enterings
<1>1. call[w] \in Calls
  BY DEF PinInv, TypeOK
<1>2. CASE call[w].target = None
  BY <1>2, LeavingEnters, NoCallShape DEF Verified
<1>3. CASE call[w].target # None
  <2> DEFINE next == [NoCall EXCEPT !.target = call[w].target, !.new = call[w].new]
  <2>1. next \in Calls /\ next.target \in Managers
    BY <1>1, <1>3 DEF NoCall, Calls
  <2>2. Goto(w, "write", next) /\ Release(w)
    BY <1>3 DEF Verified
  <2> HIDE DEF next
  <2> QED BY <2>1, <2>2, LeavingEnters
<1> QED BY <1>2, <1>3

\* A request begins, or finds no credential to lock.
LEMMA BeginningEnters ==
  ASSUME PinInv, NEW w \in Workers, NEW to \in {"lock", "write", "insert"}, NEW remembered \in Calls,
         Goto(w, to, remembered), UNCHANGED lock,
         IF to = "lock" THEN remembered.proof \in Managers ELSE remembered.target \in Managers
  PROVE  Enterings
<1>1. Shapes'
  BY DEF PinInv, TypeOK, Goto, Shapes, Named
<1>2. \A v \in Workers : pc'[v] = "record" => Staying(v)
  BY DEF PinInv, TypeOK, Goto, Staying
<1> QED BY <1>1, <1>2 DEF Enterings

LEMMA LockingEnters ==
  ASSUME PinInv, NEW w \in Workers, LockCredential(w)
  PROVE  Enterings
<1> DEFINE m == call[w].proof
<1>1. pc[w] = "lock" /\ lock[m] = None /\ m \in Managers /\ call[w] \in Calls /\ clock \in Nat
  BY DEF LockCredential, PinInv, Named, TypeOK
<1>2. CASE End(w)
  BY <1>2, EndEnters
<1>3. CASE ~End(w)
  <2>1. PICK c \in Live(m) :
          /\ cred[c].until <= clock
          /\ lock' = [lock EXCEPT ![m] = w]
          /\ Goto(w, "record", [call[w] EXCEPT !.cred = c, !.now = clock])
    BY <1>3 DEF LockCredential
  <2> DEFINE next == [call[w] EXCEPT !.cred = c, !.now = clock]
  <2>2. c \in Creds /\ UNCHANGED <<cred, clock>>
    BY DEF Live, LockCredential
  <2>3. next \in Calls /\ next.proof = m /\ next.cred = c /\ next.now = clock
    BY <1>1, <2>2 DEF Calls
  <2>4. pc' = [pc EXCEPT ![w] = "record"] /\ call' = [call EXCEPT ![w] = next]
    BY <2>1 DEF Goto
  <2> HIDE DEF next
  <2>5. Shapes'
    BY <1>1, <2>1, <2>3, <2>4 DEF PinInv, TypeOK, Shapes, Named
  <2>6. Entering(w)
    BY <1>1, <2>1, <2>2, <2>3, <2>4 DEF PinInv, TypeOK, Entering
  <2>7. \A v \in Workers \ {w} : pc'[v] = "record" => Staying(v)
    BY <1>1, <2>1, <2>4, PolicyAssumption DEF PinInv, TypeOK, Staying
  <2> QED BY <2>5, <2>6, <2>7 DEF Enterings
<1> QED BY <1>2, <1>3

LEMMA StepEnters ==
  ASSUME PinInv, [Next]_vars
  PROVE  Enterings
<1>1. ASSUME NEW w \in Workers, NEW caller \in Callers \cup {None}, NEW proof \in Managers,
             NEW pin \in Pins, Verify(w, caller, proof, pin)
      PROVE  Enterings
  <2> DEFINE next == [NoCall EXCEPT !.proof = proof, !.pin = pin]
  <2>1. next \in Calls /\ next.proof \in Managers
    BY DEF NoCall, Calls
  <2>2. Goto(w, "lock", next) /\ UNCHANGED lock
    BY <1>1 DEF Verify, VerifyBegin
  <2> HIDE DEF next
  <2> QED BY <2>1, <2>2, BeginningEnters
<1>2. ASSUME NEW w \in Workers, NEW caller \in Callers \cup {None}, NEW proof \in Managers,
             NEW pin \in Pins, NEW target \in Managers, NEW new \in Pins,
             SetByProof(w, caller, proof, pin, target, new)
      PROVE  Enterings
  <2> DEFINE next == [NoCall EXCEPT !.proof = proof, !.pin = pin, !.target = target, !.new = new]
  <2>1. next \in Calls /\ next.proof \in Managers
    BY DEF NoCall, Calls
  <2>2. Goto(w, "lock", next) /\ UNCHANGED lock
    BY <1>2 DEF SetByProof, VerifyBegin
  <2> HIDE DEF next
  <2> QED BY <2>1, <2>2, BeginningEnters
<1>3. ASSUME NEW w \in Workers, NEW target \in Managers, NEW new \in Pins, SetPin(w, target, new)
      PROVE  Enterings
  <2> DEFINE next == [NoCall EXCEPT !.target = target, !.new = new]
  <2>1. next \in Calls /\ next.target \in Managers
    BY DEF NoCall, Calls
  <2>2. Goto(w, "write", next) /\ UNCHANGED lock
    BY <1>3 DEF SetPin, SetAsAdmin
  <2> HIDE DEF next
  <2> QED BY <2>1, <2>2, BeginningEnters
<1>4. ASSUME NEW w \in Workers, FindNone(w) PROVE Enterings
  <2>1. Goto(w, "insert", call[w]) /\ UNCHANGED lock /\ call[w] \in Calls /\ call[w].target \in Managers
    BY <1>4 DEF FindNone, PinInv, TypeOK, Named
  <2> QED BY <2>1, BeginningEnters
<1>5. ASSUME NEW w \in Workers,
             Unreadable(w) \/ RecordFailure(w) \/ Replace(w) \/ Insert(w) \/ Abort(w)
      PROVE  Enterings
  BY <1>5, EndEnters DEF Unreadable, RecordFailure, Replace, Insert, Abort
<1>6. ASSUME NEW w \in Workers, RecordSuccess(w) PROVE Enterings
  BY <1>6, VerifiedEnters DEF RecordSuccess
<1>7. ASSUME NEW w \in Workers, LockCredential(w) PROVE Enterings
  BY <1>7, LockingEnters
<1>8. CASE Tick \/ UNCHANGED vars
  BY <1>8 DEF Tick, vars, PinInv, TypeOK, Enterings, Shapes, Named, Staying
<1>9. CASE Next
  <2>1. CASE \E w \in Workers : \E caller \in Callers \cup {None}, proof \in Managers, pin \in Pins :
               \/ Verify(w, caller, proof, pin)
               \/ \E target \in Managers, new \in Pins :
                    SetByProof(w, caller, proof, pin, target, new)
    BY <2>1, <1>1, <1>2
  <2>2. CASE \E w \in Workers : \E target \in Managers, new \in Pins : SetPin(w, target, new)
    BY <2>2, <1>3
  <2>3. CASE \E w \in Workers :
               \/ LockCredential(w) \/ Unreadable(w) \/ RecordSuccess(w) \/ RecordFailure(w)
               \/ Replace(w) \/ FindNone(w) \/ Insert(w) \/ Abort(w)
    BY <2>3, <1>4, <1>5, <1>6, <1>7
  <2> QED BY <1>9, <2>1, <2>2, <2>3, <1>8, Zenon DEF Next
<1> QED BY <1>8, <1>9

----------------------------------------------------------------------------
Credentials ==
  [manager : Managers \cup {None}, pin : Pins \cup {None}, failed : Nat, until : Nat]

Tables ==
  /\ cred \in [Creds -> Credentials]
  /\ ring \in [Callers -> [start : Nat, count : 0..IpMax]]
  /\ clock \in Nat
  /\ wrong \in [Creds -> Seq(Nat)]

\* Nobody's budget is exceeded.
LEMMA BudgetKept ==
  ASSUME PinInv, NEW caller \in Callers \cup {None}, TakeBudget(caller)
  PROVE  ring' \in [Callers -> [start : Nat, count : 0..IpMax]]
<1>1. CASE caller = None
  BY <1>1 DEF PinInv, TypeOK, TakeBudget
<1>2. CASE caller # None
  <2> DEFINE fresh == ring[caller].count = 0 \/ clock - ring[caller].start >= Window
             next == IF fresh THEN [start |-> clock, count |-> 1]
                              ELSE [ring[caller] EXCEPT !.count = @ + 1]
  <2>1. caller \in Callers /\ ring[caller] \in [start : Nat, count : 0..IpMax] /\ clock \in Nat
    BY <1>2 DEF PinInv, TypeOK
  <2>2. fresh \/ ring[caller].count < IpMax
    BY <1>2 DEF TakeBudget
  <2>4. ring' = [ring EXCEPT ![caller] = next]
    BY <1>2, Zenon DEF TakeBudget
  <2>3. next \in [start : Nat, count : 0..IpMax]
    BY <2>1, <2>2, PolicyAssumption
  <2> HIDE DEF next
  <2> QED BY <2>1, <2>4, <2>3 DEF PinInv, TypeOK
<1> QED BY <1>1, <1>2

LEMMA EmptyHistory == <<>> \in Seq(Nat)
  OBVIOUS

LEMMA StepTables ==
  ASSUME PinInv, [Next]_vars
  PROVE  Tables' /\ clock' >= clock
<1> DEFINE Goal == Tables' /\ clock' >= clock
<1> SUFFICES Goal
  OBVIOUS
<1>0. Tables
  BY DEF PinInv, TypeOK, Tables, Credentials
<1>1. ASSUME UNCHANGED <<cred, wrong, clock>>,
             ring' \in [Callers -> [start : Nat, count : 0..IpMax]]
      PROVE  Goal
  BY <1>0, <1>1 DEF Tables
<1>2. ASSUME UNCHANGED <<ring, clock>>, cred' \in [Creds -> Credentials], wrong' \in [Creds -> Seq(Nat)]
      PROVE  Goal
  BY <1>0, <1>2 DEF Tables
<1>3. ASSUME UNCHANGED <<cred, wrong, ring, clock>> PROVE Goal
  BY <1>0, <1>3 DEF Tables
<1>11. CASE Tick
  BY <1>0, <1>11 DEF Tick, Tables
<1> HIDE DEF Goal
<1>4. ASSUME NEW w \in Workers, RecordSuccess(w) PROVE Goal
  <2>1. call[w].cred \in Creds
    BY <1>4 DEF PinInv, Recording, Live, RecordSuccess
  <2>3. Unlocked(call[w].cred) \in Credentials
    BY <1>0, <2>1 DEF Unlocked, Tables, Credentials
  <2>2. cred' \in [Creds -> Credentials]
    BY <1>0, <1>4, <2>3 DEF RecordSuccess, Tables
  <2>4. wrong' \in [Creds -> Seq(Nat)]
    BY <1>0, <1>4, EmptyHistory DEF RecordSuccess, Tables
  <2> QED BY <1>2, <1>4, <2>2, <2>4 DEF RecordSuccess
<1>5. ASSUME NEW w \in Workers, RecordFailure(w) PROVE Goal
  <2> DEFINE c == call[w].cred  now == call[w].now
  <2>1. c \in Creds /\ now \in Nat
    BY <1>5 DEF PinInv, TypeOK, Calls, Recording, Live, RecordFailure
  <2>2. Failed(c, now) \in Credentials
    <3> DEFINE until == IF cred[c].failed + 1 >= MaxAttempts THEN now + Lockout ELSE cred[c].until
    <3>1. cred[c] \in Credentials
      BY <1>0, <2>1 DEF Tables
    <3>2. cred[c].failed + 1 \in Nat /\ until \in Nat
      BY <2>1, <3>1, PolicyAssumption DEF Credentials
    <3>3. Failed(c, now) = [cred[c] EXCEPT !.failed = cred[c].failed + 1, !.until = until]
      BY Zenon DEF Failed
    <3> HIDE DEF until
    <3> QED BY <3>1, <3>2, <3>3 DEF Credentials
  <2>3. cred' = [cred EXCEPT ![c] = Failed(c, now)] /\ wrong' = [wrong EXCEPT ![c] = Append(@, now)]
    BY <1>5 DEF RecordFailure
  <2>4. cred' \in [Creds -> Credentials]
    BY <1>0, <2>2, <2>3 DEF Tables
  <2>5. wrong' \in [Creds -> Seq(Nat)]
    BY <1>0, <2>1, <2>3 DEF Tables
  <2> QED BY <1>2, <1>5, <2>4, <2>5 DEF RecordFailure
<1>6. ASSUME NEW w \in Workers, Replace(w) PROVE Goal
  <2>1. PICK d \in Live(call[w].target) :
          /\ cred' = [cred EXCEPT ![d] = Replaced(d, call[w].new)]
          /\ wrong' = [wrong EXCEPT ![d] = <<>>]
    BY <1>6 DEF Replace
  <2>2. call[w].new \in Pins \cup {None} /\ d \in Creds
    BY DEF PinInv, TypeOK, Calls, Live
  <2>4. Replaced(d, call[w].new) \in Credentials
    BY <1>0, <2>2 DEF Replaced, Tables, Credentials
  <2>3. cred' \in [Creds -> Credentials]
    BY <1>0, <2>1, <2>4 DEF Tables
  <2>5. wrong' \in [Creds -> Seq(Nat)]
    BY <1>0, <2>1, EmptyHistory DEF Tables
  <2> QED BY <1>2, <1>6, <2>3, <2>5 DEF Replace
<1>7. ASSUME NEW w \in Workers, Insert(w) PROVE Goal
  <2>1. CASE UNCHANGED cred
    BY <1>3, <1>7, <2>1 DEF Insert
  <2>2. CASE ~UNCHANGED cred
    <3> DEFINE row == [NoCred EXCEPT !.manager = call[w].target, !.pin = call[w].new]
    <3>1. \E d \in Creds : cred' = [cred EXCEPT ![d] = row]
      BY <1>7, <2>2 DEF Insert
    <3>2. row \in Credentials
      BY DEF PinInv, TypeOK, Calls, NoCred, Credentials
    <3> HIDE DEF row
    <3>3. cred' \in [Creds -> Credentials]
      BY <1>0, <3>1, <3>2 DEF Tables
    <3> QED BY <1>0, <1>2, <1>7, <3>3 DEF Insert, Tables
  <2> QED BY <2>1, <2>2
<1>8. ASSUME NEW w \in Workers, NEW caller \in Callers \cup {None}, NEW remembered,
             VerifyBegin(w, caller, remembered)
      PROVE  Goal
  BY <1>1, <1>8, BudgetKept DEF VerifyBegin
<1>9. ASSUME NEW w \in Workers, LockCredential(w) \/ Unreadable(w) \/ FindNone(w) \/ Abort(w)
      PROVE  Goal
  <2>1. UNCHANGED cred /\ UNCHANGED wrong /\ UNCHANGED ring /\ UNCHANGED clock
    BY <1>9, Zenon DEF LockCredential, Unreadable, FindNone, Abort
  <2> QED BY <1>3, <2>1
<1>10. ASSUME NEW w \in Workers, NEW target \in Managers, NEW new \in Pins, SetPin(w, target, new)
       PROVE  Goal
  BY <1>3, <1>10 DEF SetPin, SetAsAdmin
<1>12. CASE UNCHANGED vars
  BY <1>3, <1>12 DEF vars
<1>13. CASE Next
  <2>1. CASE \E w \in Workers : \E caller \in Callers \cup {None}, proof \in Managers, pin \in Pins :
               \/ Verify(w, caller, proof, pin)
               \/ \E target \in Managers, new \in Pins :
                    SetByProof(w, caller, proof, pin, target, new)
    BY <2>1, <1>8, Zenon DEF Verify, SetByProof
  <2>2. CASE \E w \in Workers : \E target \in Managers, new \in Pins : SetPin(w, target, new)
    BY <2>2, <1>10
  <2>3. CASE \E w \in Workers :
               \/ LockCredential(w) \/ Unreadable(w) \/ RecordSuccess(w) \/ RecordFailure(w)
               \/ Replace(w) \/ FindNone(w) \/ Insert(w) \/ Abort(w)
    BY <2>3, <1>4, <1>5, <1>6, <1>7, <1>9
  <2> QED BY <1>13, <2>1, <2>2, <2>3, <1>11, Zenon DEF Next
<1> QED BY <1>12, <1>13

----------------------------------------------------------------------------
\* The lock of a request that is about to record keeps every other writer away.
LEMMA LockKeepsWritersAway ==
  ASSUME PinInv, [Next]_vars, NEW v \in Workers, pc[v] = "record", pc'[v] = "record"
  PROVE  Untouched(call[v].cred)
<1> DEFINE c == call[v].cred  m == call[v].proof
<1>1. c \in Creds /\ cred[c].manager = m /\ m \in Managers /\ lock[m] = v
  BY DEF PinInv, Named, Recording, Live
<1>2. SUFFICES ASSUME NEW w \in Workers,
                      RecordedBy(w, c) \/ ReplacedBy(w, c) \/ InsertedBy(w, c)
               PROVE  FALSE
  BY <1>1, Writers
<1>3. CASE RecordedBy(w, c)
  BY <1>1, <1>3 DEF RecordedBy, PinInv, Recording, Live
<1>4. CASE ReplacedBy(w, c)
  BY <1>1, <1>4, PolicyAssumption DEF ReplacedBy, Live
<1>5. CASE InsertedBy(w, c)
  BY <1>1, <1>5, PolicyAssumption DEF InsertedBy, NoCred
<1> QED BY <1>2, <1>3, <1>4, <1>5

LEMMA RecordingKept ==
  ASSUME PinInv, [Next]_vars
  PROVE  Recording'
<1> SUFFICES ASSUME NEW v \in Workers, pc'[v] = "record"
             PROVE  /\ call'[v].cred \in Live(call[v].proof)' /\ call'[v].proof = call[v].proof
                    /\ lock'[call[v].proof] = v
                    /\ call'[v].now <= clock'
                    /\ cred'[call'[v].cred].until <= call'[v].now
  BY DEF Recording, Live
<1>1. Entering(v) \/ Staying(v)
  BY StepEnters DEF Enterings
<1>2. CASE Entering(v)
  BY <1>2 DEF Entering, Live, PinInv, TypeOK
<1>3. CASE Staying(v)
  <2> DEFINE c == call[v].cred  m == call[v].proof
  <2>1. /\ c \in Creds /\ cred[c].manager = m /\ m \in Managers /\ lock[m] = v
        /\ call[v].now <= clock /\ cred[c].until <= call[v].now
    BY <1>3 DEF Staying, PinInv, Named, Recording, Live
  <2>2. cred'[c] = cred[c] /\ call'[v] = call[v] /\ lock'[m] = v
    BY <1>3, <2>1, LockKeepsWritersAway DEF Staying, Untouched
  <2>3. clock' \in Nat /\ clock \in Nat /\ clock' >= clock /\ call[v].now \in Nat
    BY StepTables DEF Tables, PinInv, TypeOK, Calls
  <2> QED BY <2>1, <2>2, <2>3 DEF Live
<1> QED BY <1>1, <1>2, <1>3

----------------------------------------------------------------------------
Agrees(c) ==
  /\ Len(wrong[c]) = cred[c].failed
  /\ cred[c].failed >= MaxAttempts => cred[c].until = wrong[c][cred[c].failed] + Lockout

Spaced(c) == \A i \in MaxAttempts .. Len(wrong[c]) - 1 : wrong[c][i + 1] >= wrong[c][i] + Lockout

LEMMA AppendFacts ==
  ASSUME NEW seq \in Seq(Nat), NEW now \in Nat
  PROVE  /\ Len(Append(seq, now)) = Len(seq) + 1
         /\ Append(seq, now)[Len(seq) + 1] = now
         /\ \A i \in 1 .. Len(seq) : Append(seq, now)[i] = seq[i]
  OBVIOUS

\* A wrong guess is counted, and if a lock was set before it, that lock has passed.
LEMMA FailureSpaced ==
  ASSUME PinInv, NEW w \in Workers, NEW c \in Creds, pc[w] = "record", c = call[w].cred,
         cred'[c] = Failed(c, call[w].now), wrong'[c] = Append(wrong[c], call[w].now)
  PROVE  Agrees(c)' /\ Spaced(c)'
<1> DEFINE now == call[w].now  seq == wrong[c]  n == cred[c].failed
<1>1. now \in Nat /\ seq \in Seq(Nat) /\ n \in Nat /\ MaxAttempts \in Nat \ {0} /\ Lockout \in Nat
  BY PolicyAssumption DEF PinInv, TypeOK, Calls
<1>2. Len(seq) = n /\ (n >= MaxAttempts => cred[c].until = seq[n] + Lockout)
  BY DEF PinInv, HistoryAgrees
<1>3. cred[c].until <= now
  BY DEF PinInv, Recording
<1>4. \A i \in MaxAttempts .. n - 1 : seq[i + 1] >= seq[i] + Lockout
  BY <1>2 DEF PinInv, GuessesAreSpaced
<1>5. /\ cred'[c].failed = n + 1
      /\ n + 1 >= MaxAttempts => cred'[c].until = now + Lockout
  <2>1. cred[c] \in [manager : Managers \cup {None}, pin : Pins \cup {None}, failed : Nat, until : Nat]
    BY DEF PinInv, TypeOK
  <2>2. cred'[c].failed = n + 1
    BY <2>1 DEF Failed
  <2>3. ASSUME n + 1 >= MaxAttempts PROVE cred'[c].until = now + Lockout
    BY <2>1, <2>3 DEF Failed
  <2> QED BY <2>2, <2>3
<1> DEFINE longer == Append(seq, now)
<1>6. /\ wrong'[c] = longer /\ Len(longer) = n + 1 /\ longer[n + 1] = now
      /\ \A i \in 1 .. n : longer[i] = seq[i]
  <2>1. wrong'[c] = longer
    OBVIOUS
  <2>2. seq \in Seq(Nat) /\ now \in Nat /\ Len(seq) = n
    BY <1>1, <1>2
  <2> HIDE DEF now, seq, n
  <2>3. /\ Len(longer) = n + 1 /\ longer[n + 1] = now
        /\ \A i \in 1 .. n : longer[i] = seq[i]
    BY <2>2, AppendFacts
  <2> QED BY <2>1, <2>3
<1>7. Agrees(c)'
  BY <1>5, <1>6 DEF Agrees
<1> HIDE DEF longer, now, seq, n
<1>8. ASSUME NEW i \in MaxAttempts .. n
      PROVE  longer[i + 1] >= longer[i] + Lockout
  <2>1. CASE i = n
    <3>1. n \in 1 .. n /\ n >= MaxAttempts
      BY <1>1, <2>1
    <3>2. longer[n] = seq[n] /\ longer[n + 1] = now
      BY <1>6, <3>1
    <3>3. now >= seq[n] + Lockout
      BY <1>2, <1>3, <3>1
    <3> QED BY <2>1, <3>2, <3>3
  <2>2. CASE i # n
    <3>1. i \in 1 .. n /\ i + 1 \in 1 .. n /\ i \in MaxAttempts .. n - 1
      BY <1>1, <2>2
    <3>2. longer[i] = seq[i] /\ longer[i + 1] = seq[i + 1]
      BY <1>6, <3>1
    <3> QED BY <1>4, <3>1, <3>2
  <2> QED BY <2>1, <2>2
<1>9. Len(wrong'[c]) - 1 = n
  BY <1>1, <1>6
<1>10. Spaced(c)'
  BY <1>6, <1>8, <1>9 DEF Spaced
<1> QED BY <1>7, <1>10

LEMMA HistoryKept ==
  ASSUME PinInv, [Next]_vars, NEW c \in Creds
  PROVE  Agrees(c)' /\ Spaced(c)'
<1>1. Agrees(c) /\ Spaced(c) /\ MaxAttempts \in Nat \ {0} /\ cred[c].failed \in Nat
  BY PolicyAssumption DEF PinInv, TypeOK, HistoryAgrees, GuessesAreSpaced, Agrees, Spaced
<1>2. CASE Untouched(c)
  BY <1>1, <1>2 DEF Untouched, Agrees, Spaced
<1>3. ASSUME cred'[c].failed = 0, Len(wrong'[c]) = 0 PROVE Agrees(c)' /\ Spaced(c)'
  BY <1>1, <1>3 DEF Agrees, Spaced
<1>4. CASE Cleared(c)
  BY <1>3, <1>4 DEF Cleared
<1>5. ASSUME NEW w \in Workers, RecordedBy(w, c) PROVE Agrees(c)' /\ Spaced(c)'
  BY <1>4, <1>5, FailureSpaced DEF RecordedBy
<1>6. ASSUME NEW w \in Workers, InsertedBy(w, c) PROVE Agrees(c)' /\ Spaced(c)'
  BY <1>1, <1>3, <1>6 DEF InsertedBy, Agrees, NoCred
<1> QED BY <1>2, <1>4, <1>5, <1>6, Writers DEF ReplacedBy

LEMMA PinStep ==
  ASSUME PinInv, [Next]_vars
  PROVE  PinInv'
<1>1. TypeOK'
  BY StepEnters, StepTables DEF Enterings, Shapes, Tables, Credentials, TypeOK
<1>2. Named'
  BY StepEnters DEF Enterings, Shapes
<1>3. HistoryAgrees' /\ GuessesAreSpaced'
  BY HistoryKept DEF HistoryAgrees, GuessesAreSpaced, Agrees, Spaced
<1> QED BY <1>1, <1>2, <1>3, RecordingKept DEF PinInv

----------------------------------------------------------------------------
\* Credentials, locks, budgets and requests keep their shape, no budget is exceeded, and a
\* request that is about to record holds the credential it checked.
THEOREM PinInvariant == Spec => []PinInv
BY PinInit, PinStep, PTL DEF Spec

\* However many guesses run in parallel, after MaxAttempts wrong ones at most one is compared
\* for each lockout that passes.
THEOREM GuessingIsSlow == Spec => []GuessesAreSpaced
<1>1. PinInv => GuessesAreSpaced
  BY DEF PinInv
<1> QED BY <1>1, PinInvariant, PTL

\* A credential that is locked out changes only by a new PIN.
THEOREM LockIsRespected == Spec => LockoutHolds
<1> DEFINE Respected ==
      \A c \in Creds :
        (cred[c].until > clock /\ cred'[c] # cred[c]) =>
          \E w \in Workers : pc[w] = "write" /\ call[w].target = cred[c].manager
                             /\ cred'[c].pin = call[w].new
<1>1. PinInv /\ [Next]_vars => [Respected]_vars
  <2> SUFFICES ASSUME PinInv, [Next]_vars, NEW c \in Creds,
                      cred[c].until > clock, cred'[c] # cred[c]
               PROVE  \E w \in Workers : pc[w] = "write" /\ call[w].target = cred[c].manager
                                         /\ cred'[c].pin = call[w].new
    OBVIOUS
  <2>1. PICK w \in Workers : RecordedBy(w, c) \/ ReplacedBy(w, c) \/ InsertedBy(w, c)
    BY Writers DEF Untouched
  <2>2. ~RecordedBy(w, c)
    <3>1. ASSUME RecordedBy(w, c)
          PROVE  cred[c].until <= call[w].now /\ call[w].now <= clock
      BY <3>1 DEF RecordedBy, PinInv, Recording
    <3>2. cred[c].until \in Nat /\ call[w].now \in Nat /\ clock \in Nat
      BY DEF PinInv, TypeOK, Calls
    <3> QED BY <3>1, <3>2
  <2>3. ~InsertedBy(w, c)
    <3>1. clock \in Nat
      BY DEF PinInv, TypeOK
    <3> QED BY <3>1 DEF InsertedBy, NoCred
  <2> QED BY <2>1, <2>2, <2>3 DEF ReplacedBy, Live
<1> QED BY <1>1, PinInvariant, PTL DEF Spec, LockoutHolds

\* Where the service that composes the module has installed its unique, a manager has one
\* credential, however set_pin calls race.
THEOREM OneCredential == Composed => (Spec => []OneLiveCredential)
<1> SUFFICES ASSUME Composed PROVE Spec => []OneLiveCredential
  OBVIOUS
<1>1. Init => OneLiveCredential
  BY DEF Init, NoCred, OneLiveCredential
<1>2. PinInv /\ OneLiveCredential /\ [Next]_vars => OneLiveCredential'
  <2> SUFFICES ASSUME PinInv, OneLiveCredential, [Next]_vars
               PROVE  OneLiveCredential'
    OBVIOUS
  <2>1. CASE \A c \in Creds : Untouched(c)
    BY <2>1 DEF Untouched, OneLiveCredential
  <2>2. ASSUME NEW w \in Workers, NEW d \in Creds,
               \A c \in Creds : c # d => Untouched(c),
               RecordedBy(w, d) \/ ReplacedBy(w, d) \/ InsertedBy(w, d)
        PROVE  OneLiveCredential'
    <3>1. CASE cred'[d].manager = cred[d].manager
      BY <2>2, <3>1 DEF Untouched, OneLiveCredential
    <3>2. CASE InsertedBy(w, d)
      <4>1. cred'[d].manager = call[w].target /\ Live(call[w].target) = {}
        BY <3>2 DEF InsertedBy, NoCred
      <4> QED BY <2>2, <4>1 DEF Untouched, OneLiveCredential, Live
    <3>3. cred[d] \in [manager : Managers \cup {None}, pin : Pins \cup {None}, failed : Nat, until : Nat]
      BY DEF PinInv, TypeOK
    <3>4. RecordedBy(w, d) \/ ReplacedBy(w, d) => cred'[d].manager = cred[d].manager
      BY <3>3 DEF RecordedBy, ReplacedBy, Cleared, Failed
    <3> QED BY <2>2, <3>1, <3>2, <3>4
  <2> QED BY <2>1, <2>2, Writers
<1> QED BY <1>1, <1>2, PinInvariant, PTL DEF Spec

\* Requests, credentials and the throttle ring keep their shape under every policy.
THEOREM TypeCorrect == Spec => []TypeOK
<1>1. PinInv => TypeOK
  BY DEF PinInv
<1> QED BY <1>1, PinInvariant, PTL

=============================================================================
