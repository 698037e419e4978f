------------------------------ MODULE PosAlert ------------------------------
(***************************************************************************)
(* The old-session alert: alert_old_sessions, run by several hosts at once *)
(* over the sessions of one org unit.                                      *)
(*                                                                         *)
(* A run claims the stale open sessions nobody else holds, latches them    *)
(* and commits, and only then publishes one alert after another.  The      *)
(* latch is a key of the row's metadata: a generic edit of the session     *)
(* stores the metadata it knows and may drop it, which starts a new epoch. *)
(***************************************************************************)
EXTENDS Integers, FiniteSets
CONSTANTS Sessions,     \* sessions, numbered in the order they were opened
          Hosts,        \* hosts that run the job
          BatchLimit,   \* STALE_SESSION_BATCH_LIMIT
          MaxEdits      \* how often the latch of a session may be dropped
ASSUME AlertAssumption == Sessions \subseteq Nat /\ BatchLimit \in Nat /\ MaxEdits \in Nat

VARIABLES age,      \* of each session: open and young, open and stale, closed
          latched,  \* sessions whose metadata holds the latch
          busy,     \* sessions a request of a till holds a lock on
          phase,    \* where the run of each host is
          held,     \* what it claimed and has not published, with the epoch of the claim
          epoch,    \* how often each latch was dropped
          alerted,  \* the alerts that were published
          again     \* and those published more than once
alertVars == <<age, latched, busy, phase, held, epoch, alerted, again>>

Alerts == Sessions \X (0 .. MaxEdits)
SessionsOf(alerts) == {a[1] : a \in alerts}

\* The sessions a run has claimed are locked until it commits.
Claimed == UNION {SessionsOf(held[h]) : h \in {g \in Hosts : phase[g] = "claimed"}}
Locked == busy \cup Claimed
----------------------------------------------------------------------------
AlertInit ==
  /\ age = [s \in Sessions |-> "young"]
  /\ latched = {} /\ busy = {}
  /\ phase = [h \in Hosts |-> "idle"]
  /\ held = [h \in Hosts |-> {}]
  /\ epoch = [s \in Sessions |-> 0]
  /\ alerted = {} /\ again = {}

\* An open session outlives the threshold.
Ages(s) ==
  /\ age[s] = "young"
  /\ age' = [age EXCEPT ![s] = "stale"]
  /\ UNCHANGED <<latched, busy, phase, held, epoch, alerted, again>>

\* A request of the till takes a lock on the session's row, or lets go of it.
TillTakes(s) ==
  /\ s \notin Locked
  /\ busy' = busy \cup {s}
  /\ UNCHANGED <<age, latched, phase, held, epoch, alerted, again>>
TillLeaves(s) ==
  /\ s \in busy
  /\ busy' = busy \ {s}
  /\ UNCHANGED <<age, latched, phase, held, epoch, alerted, again>>

Closes(s) ==
  /\ age[s] # "closed" /\ s \notin Locked
  /\ age' = [age EXCEPT ![s] = "closed"]
  /\ UNCHANGED <<latched, busy, phase, held, epoch, alerted, again>>

\* A generic edit of the session drops the latch.
Edit(s) ==
  /\ s \in latched \ Locked
  /\ epoch[s] < MaxEdits
  /\ latched' = latched \ {s}
  /\ epoch' = [epoch EXCEPT ![s] = @ + 1]
  /\ UNCHANGED <<age, busy, phase, held, alerted, again>>

\* Mutant: the claim reads without FOR UPDATE SKIP LOCKED.
ClaimableUnlocked == {s \in Sessions \ latched : age[s] = "stale"}

\* What the claim may take: stale, open, not latched, locked by nobody.
Claimable == {s \in Sessions \ (latched \cup Locked) : age[s] = "stale"}

\* The claim takes the oldest, up to the batch limit.
Claim(h) ==
  /\ phase[h] = "idle"
  /\ \E C \in SUBSET Claimable :
       /\ C # {}
       /\ Cardinality(C) <= BatchLimit
       /\ Cardinality(C) = BatchLimit \/ C = Claimable
       /\ \A s \in C, t \in Claimable \ C : s < t
       /\ held' = [held EXCEPT ![h] = {<<s, epoch[s]>> : s \in C}]
  /\ phase' = [phase EXCEPT ![h] = "claimed"]
  /\ UNCHANGED <<age, latched, busy, epoch, alerted, again>>

\* The latch and the commit.
Latch(h) ==
  /\ phase[h] = "claimed"
  /\ latched' = latched \cup SessionsOf(held[h])
  /\ phase' = [phase EXCEPT ![h] = "latched"]
  /\ UNCHANGED <<age, busy, held, epoch, alerted, again>>

\* One alert is published.
Emit(h) ==
  /\ phase[h] = "latched"
  /\ \E a \in held[h] :
       /\ again' = IF a \in alerted THEN again \cup {a} ELSE again
       /\ alerted' = alerted \cup {a}
       /\ held' = [held EXCEPT ![h] = @ \ {a}]
  /\ UNCHANGED <<age, latched, busy, phase, epoch>>

\* The run ends, or the host dies: what it had not published is lost.
Ends(h) ==
  /\ phase[h] # "idle"
  /\ phase' = [phase EXCEPT ![h] = "idle"]
  /\ held' = [held EXCEPT ![h] = {}]
  /\ UNCHANGED <<age, latched, busy, epoch, alerted, again>>

AlertNext ==
  \/ \E s \in Sessions : Ages(s) \/ TillTakes(s) \/ TillLeaves(s) \/ Closes(s) \/ Edit(s)
  \/ \E h \in Hosts : Claim(h) \/ Latch(h) \/ Emit(h) \/ Ends(h)

AlertSpec == AlertInit /\ [][AlertNext]_alertVars
----------------------------------------------------------------------------
AlertTypeOK ==
  /\ age \in [Sessions -> {"young", "stale", "closed"}]
  /\ latched \subseteq Sessions /\ busy \subseteq Sessions
  /\ phase \in [Hosts -> {"idle", "claimed", "latched"}]
  /\ held \in [Hosts -> SUBSET Alerts]
  /\ epoch \in [Sessions -> 0 .. MaxEdits]
  /\ alerted \subseteq Alerts /\ again \subseteq Alerts

(***************************************************************************)
(* One alert per session and epoch, however many hosts drain the schedule, *)
(* whenever they die, and whatever the tills and the edits do meanwhile.   *)
(***************************************************************************)
AlertedOncePerEdit == again = {}
=============================================================================
