--------------------------- MODULE PosManagerPin ---------------------------
(***************************************************************************)
(* Manager PINs: set_pin, and the verification every privileged verb calls.*)
(*                                                                         *)
(* A verification first takes from its caller's budget in a ring the       *)
(* process keeps, then locks the manager's credential, checks the lockout, *)
(* compares, counts and commits.  set_pin verifies its proof in a          *)
(* transaction of its own and then writes.  The unique that allows one     *)
(* live credential per manager is the composing service's: Composed says   *)
(* whether it is installed.                                                *)
(*                                                                         *)
(* wrong is a history variable: when each wrong PIN was compared since the *)
(* last success or new PIN.                                                *)
(***************************************************************************)
EXTENDS Integers, Sequences

CONSTANTS
  Workers, Managers, Callers, Pins,
  Creds,        \* ids a credential may be given
  MaxAttempts, Lockout, Window, IpMax,  \* the policy
  Composed,
  MaxTime,      \* bound on the clock
  None

ASSUME PolicyAssumption ==
  /\ MaxAttempts \in Nat \ {0} /\ Lockout \in Nat /\ Window \in Nat /\ IpMax \in Nat \ {0}
  /\ MaxTime \in Nat /\ Composed \in BOOLEAN
  /\ None \notin Workers \cup Managers \cup Callers \cup Pins \cup Creds

VARIABLES
  cred,     \* the credentials; a row that names no manager does not exist
  lock,     \* who holds a manager's live credential FOR UPDATE
  ring,     \* what each caller took of its window
  clock,
  wrong,
  pc, call  \* what each request does next and remembers

vars == <<cred, lock, ring, clock, wrong, pc, call>>

NoCred == [manager |-> None, pin |-> None, failed |-> 0, until |-> 0]
NoCall == [proof |-> None, pin |-> None, target |-> None, new |-> None, cred |-> None, now |-> 0]

Live(m) == {c \in Creds : cred[c].manager = m}

Goto(w, to, remembered) ==
  /\ pc' = [pc EXCEPT ![w] = to]
  /\ call' = [call EXCEPT ![w] = remembered]

\* The transaction ends and its locks are released.
Release(w) == lock' = [m \in Managers |-> IF lock[m] = w THEN None ELSE lock[m]]
End(w) == Goto(w, "idle", NoCall) /\ Release(w)

\* After the proof a set_pin goes on to its write.
Verified(w) ==
  /\ IF call[w].target = None
       THEN Goto(w, "idle", NoCall)
       ELSE Goto(w, "write", [NoCall EXCEPT !.target = call[w].target, !.new = call[w].new])
  /\ Release(w)

----------------------------------------------------------------------------
\* Mutant: the budget is compared after it was spent.
TakeBudgetLoose(caller) ==
  IF caller = None THEN UNCHANGED ring
  ELSE LET fresh == ring[caller].count = 0 \/ clock - ring[caller].start >= Window
       IN  /\ fresh \/ ring[caller].count <= IpMax
           /\ ring' = [ring EXCEPT ![caller] =
                IF fresh THEN [start |-> clock, count |-> 1]
                         ELSE [ring[caller] EXCEPT !.count = @ + 1]]

\* A window that is over is started anew; inside it every attempt is counted.
TakeBudget(caller) ==
  IF caller = None THEN UNCHANGED ring
  ELSE LET fresh == ring[caller].count = 0 \/ clock - ring[caller].start >= Window
       IN  /\ fresh \/ ring[caller].count < IpMax
           /\ ring' = [ring EXCEPT ![caller] =
                IF fresh THEN [start |-> clock, count |-> 1]
                         ELSE [ring[caller] EXCEPT !.count = @ + 1]]

\* A privileged verb verifies; set_pin verifies its proof.
VerifyBegin(w, caller, remembered) ==
  /\ pc[w] = "idle"
  /\ remembered.proof # None
  /\ TakeBudget(caller)
  /\ Goto(w, "lock", remembered)
  /\ UNCHANGED <<cred, lock, clock, wrong>>

\* A credential administrator sets a PIN without proof.
SetAsAdmin(w, remembered) ==
  /\ pc[w] = "idle"
  /\ Goto(w, "write", remembered)
  /\ UNCHANGED <<cred, lock, ring, clock, wrong>>

\* Mutant: the credential is read and not locked.
ReadCredential(w) ==
  LET m == call[w].proof IN
  /\ pc[w] = "lock"
  /\ \E c \in Live(m) :
       /\ cred[c].until <= clock
       /\ Goto(w, "record", [call[w] EXCEPT !.cred = c, !.now = clock])
  /\ UNCHANGED <<cred, lock, ring, clock, wrong>>

LockCredential(w) ==
  LET m == call[w].proof IN
  /\ pc[w] = "lock" /\ lock[m] = None
  /\ \/ \E c \in Live(m) :
          /\ cred[c].until <= clock
          /\ lock' = [lock EXCEPT ![m] = w]
          /\ Goto(w, "record", [call[w] EXCEPT !.cred = c, !.now = clock])
     \* none to be found, or locked out
     \/ /\ \/ Live(m) = {}
           \/ \E c \in Live(m) : cred[c].until > clock
        /\ End(w)
  /\ UNCHANGED <<cred, ring, clock, wrong>>

\* A hash nobody can verify authenticates nobody, and counts nothing.
Unreadable(w) ==
  /\ pc[w] = "record" /\ cred[call[w].cred].pin = None
  /\ End(w)
  /\ UNCHANGED <<cred, ring, clock, wrong>>

Unlocked(c) == [cred[c] EXCEPT !.failed = 0, !.until = 0]

RecordSuccess(w) ==
  LET c == call[w].cred IN
  /\ pc[w] = "record" /\ cred[c].pin = call[w].pin
  /\ cred' = [cred EXCEPT ![c] = Unlocked(c)]
  /\ wrong' = [wrong EXCEPT ![c] = <<>>]
  /\ Verified(w)
  /\ UNCHANGED <<ring, clock>>

\* Mutant: the counter starts over with every lock.
FailuresRestarted(c, now) ==
  IF cred[c].failed + 1 >= MaxAttempts
    THEN [cred[c] EXCEPT !.failed = 0, !.until = now + Lockout]
    ELSE [cred[c] EXCEPT !.failed = @ + 1]

\* The counter is not reset by a lock that passes: the next failure locks again.
Failed(c, now) ==
  [cred[c] EXCEPT !.failed = @ + 1,
                  !.until = IF cred[c].failed + 1 >= MaxAttempts THEN now + Lockout ELSE @]

RecordFailure(w) ==
  LET c == call[w].cred IN
  /\ pc[w] = "record" /\ cred[c].pin \notin {None, call[w].pin}
  /\ cred' = [cred EXCEPT ![c] = Failed(c, call[w].now)]
  /\ wrong' = [wrong EXCEPT ![c] = Append(@, call[w].now)]
  /\ End(w)
  /\ UNCHANGED <<ring, clock>>

Replaced(c, new) == [cred[c] EXCEPT !.pin = new, !.failed = 0, !.until = 0]

\* The live credential is locked, rewritten and committed.
Replace(w) ==
  LET m == call[w].target IN
  /\ pc[w] = "write" /\ lock[m] = None
  /\ \E c \in Live(m) :
       /\ cred' = [cred EXCEPT ![c] = Replaced(c, call[w].new)]
       /\ wrong' = [wrong EXCEPT ![c] = <<>>]
  /\ End(w)
  /\ UNCHANGED <<ring, clock>>

\* There is no credential to lock.
FindNone(w) ==
  /\ pc[w] = "write" /\ Live(call[w].target) = {}
  /\ Goto(w, "insert", call[w])
  /\ UNCHANGED <<cred, lock, ring, clock, wrong>>

\* Mutant: nothing refuses a second row.
UniqueDropped(m) == TRUE

UniqueHolds(m) == Composed => Live(m) = {}

Insert(w) ==
  LET m == call[w].target IN
  /\ pc[w] = "insert"
  /\ IF UniqueHolds(m)
       THEN \E c \in {d \in Creds : cred[d] = NoCred} :
              cred' = [cred EXCEPT ![c] = [NoCred EXCEPT !.manager = m, !.pin = call[w].new]]
       ELSE UNCHANGED cred
  /\ End(w)
  /\ UNCHANGED <<ring, clock, wrong>>

\* The connection is lost, or the client is gone: what is not committed did not happen.
Abort(w) ==
  /\ pc[w] # "idle"
  /\ End(w)
  /\ UNCHANGED <<cred, ring, clock, wrong>>

Tick ==
  /\ clock < MaxTime
  /\ clock' = clock + 1
  /\ UNCHANGED <<cred, lock, ring, wrong, pc, call>>

----------------------------------------------------------------------------
\* A manager has no credential, or one that cannot be verified: the generated create
\* endpoint writes a placeholder for the hash.
Init ==
  /\ cred \in {[c \in Creds |-> NoCred]} \cup
              {[c \in Creds |-> IF c = d THEN [NoCred EXCEPT !.manager = m] ELSE NoCred] :
                 d \in Creds, m \in Managers}
  /\ lock = [m \in Managers |-> None]
  /\ ring = [caller \in Callers |-> [start |-> 0, count |-> 0]]
  /\ clock = 0
  /\ wrong = [c \in Creds |-> <<>>]
  /\ pc = [w \in Workers |-> "idle"]
  /\ call = [w \in Workers |-> NoCall]

Verify(w, caller, proof, pin) ==
  VerifyBegin(w, caller, [NoCall EXCEPT !.proof = proof, !.pin = pin])

SetByProof(w, caller, proof, pin, target, new) ==
  VerifyBegin(w, caller,
    [NoCall EXCEPT !.proof = proof, !.pin = pin, !.target = target, !.new = new])

SetPin(w, target, new) == SetAsAdmin(w, [NoCall EXCEPT !.target = target, !.new = new])

Next ==
  \/ \E w \in Workers :
       \/ \E caller \in Callers \cup {None}, proof \in Managers, pin \in Pins :
            \/ Verify(w, caller, proof, pin)
            \/ \E target \in Managers, new \in Pins :
                 SetByProof(w, caller, proof, pin, target, new)
       \/ \E target \in Managers, new \in Pins : SetPin(w, target, new)
       \/ LockCredential(w) \/ Unreadable(w) \/ RecordSuccess(w) \/ RecordFailure(w)
       \/ Replace(w) \/ FindNone(w) \/ Insert(w) \/ Abort(w)
  \/ Tick

Spec == Init /\ [][Next]_vars

----------------------------------------------------------------------------
Calls ==
  [proof : Managers \cup {None}, pin : Pins \cup {None}, target : Managers \cup {None},
   new : Pins \cup {None}, cred : Creds \cup {None}, now : Nat]

\* Credentials, locks, budgets and requests keep their shape; nobody exceeds a budget.
TypeOK ==
  /\ cred \in [Creds -> [manager : Managers \cup {None}, pin : Pins \cup {None},
                         failed : Nat, until : Nat]]
  /\ lock \in [Managers -> Workers \cup {None}]
  /\ ring \in [Callers -> [start : Nat, count : 0..IpMax]]
  /\ clock \in Nat
  /\ wrong \in [Creds -> Seq(Nat)]
  /\ pc \in [Workers -> {"idle", "lock", "record", "write", "insert"}]
  /\ call \in [Workers -> Calls]

\* However many guesses run in parallel, MaxAttempts wrong ones are compared, and after that
\* one for each lockout that passes, until the PIN is presented or replaced.
GuessesAreSpaced ==
  \A c \in Creds : \A i \in MaxAttempts .. Len(wrong[c]) - 1 :
    wrong[c][i + 1] >= wrong[c][i] + Lockout

\* While a credential is locked out nothing changes it but a new PIN: no request that passed
\* the check before the lock was set is counted, or lifts it, afterwards.
LockoutHolds ==
  [][\A c \in Creds :
       (cred[c].until > clock /\ cred'[c] # cred[c]) =>
         \E w \in Workers : pc[w] = "write" /\ call[w].target = cred[c].manager
                            /\ cred'[c].pin = call[w].new]_vars

\* However set_pin calls race, a manager has one credential.
OneLiveCredential ==
  \A c, d \in Creds : (cred[c].manager # None /\ cred[c].manager = cred[d].manager) => c = d

=============================================================================
