------------------------- MODULE ProviderScheduler -------------------------
(***************************************************************************)
(* The queue in front of the model provider: RoleProviderConcurrency       *)
(* (adapters/local/provider_scheduler.py) on ProviderConcurrency           *)
(* (adapters/local/provider_concurrency.py).                               *)
(*                                                                         *)
(* Threads of one run queue by role under one condition variable.  An      *)
(* attempt holds a slot from its admission to the end of its HTTP          *)
(* exchange; a 429 halves the number of slots, a long one defers           *)
(* everything, and a series of denials opens a circuit that stays open.    *)
(* Outcomes are written to one file each before the slot is given back,    *)
(* and are read again by the next process.                                 *)
(*                                                                         *)
(* Time is a flag: after an admission or a 429 the queue is cooling until  *)
(* the clock moves on.  Each section under the lock is one step.           *)
(***************************************************************************)
EXTENDS Integers, Sequences, FiniteSets

CONSTANTS
    Threads,
    Roles,          \* policy["roles"] as numbers, the first one is served first
    Workers,        \* slots at the start
    MaxBypass,      \* max_priority_bypass
    MaxDenials,     \* consecutive_denials
    MaxRestarts     \* bound: processes that die

ASSUME SchedulerAssumption ==
    /\ IsFiniteSet(Threads)
    /\ Roles \subseteq Nat
    /\ {Workers, MaxDenials} \subseteq Nat \ {0}
    /\ {MaxBypass, MaxRestarts} \subseteq Nat

VARIABLES
    queue,      \* tickets of all roles, oldest first
    pc, code,   \* where a thread is, and the outcome it has to record
    active,     \* slots taken
    limit,      \* slots
    cooling,    \* clock < max(not_before, http_not_before)
    deferred,
    seen,       \* consecutive_denials and circuit_open in memory
    disk,       \* the same, as replayed from the event files
    file,       \* what an event file that could not be written left behind
    restarts

vars == <<queue, pc, code, active, limit, cooling, deferred, seen, disk, file, restarts>>

Code == {"ok", "403", "429", "other"}
InSlot == {"admitted", "sent", "observe", "release"}
Ticket == [thread : Threads, role : Roles, bypass : Nat]
Circuit == [denials : 0 .. MaxDenials, open : BOOLEAN]
Closed == [denials |-> 0, open |-> FALSE]

Init ==
    /\ queue = <<>>
    /\ pc = [t \in Threads |-> "idle"]
    /\ code = [t \in Threads |-> "ok"]
    /\ active = 0
    /\ limit = Workers
    /\ cooling = FALSE /\ deferred = FALSE
    /\ seen = Closed /\ disk = Closed
    /\ file = "none"
    /\ restarts = 0

-----------------------------------------------------------------------------
(* The queue *)

Without(q, i) == [j \in 1 .. Len(q) - 1 |-> IF j < i THEN q[j] ELSE q[j + 1]]

Enqueue(t, r) ==
    /\ pc[t] = "idle"
    /\ pc' = [pc EXCEPT ![t] = "waiting"]
    /\ queue' = Append(queue, [thread |-> t, role |-> r, bypass |-> 0])
    /\ UNCHANGED <<code, active, limit, cooling, deferred, seen, disk, file, restarts>>

\* next_ticket: the oldest one once it was passed often enough, else the oldest of the
\* first role that has any.
FirstOfRoles(i) ==
    \A j \in DOMAIN queue :
        \/ queue[i].role < queue[j].role
        \/ queue[i].role = queue[j].role /\ i <= j

IsNextMutant(i) == FirstOfRoles(i)

IsNext(i) == IF queue[1].bypass >= MaxBypass THEN i = 1 ELSE FirstOfRoles(i)

\* dequeue counts the admission against everyone who still waits.
Passed(q) == [j \in DOMAIN q |-> [q[j] EXCEPT !.bypass = @ + 1]]

Admit(t) ==
    \E i \in DOMAIN queue :
        /\ queue[i].thread = t
        /\ ~seen.open /\ ~deferred
        /\ IsNext(i)
        /\ active < limit
        /\ ~cooling
        /\ queue' = Passed(Without(queue, i))
        /\ pc' = [pc EXCEPT ![t] = "admitted"]
        /\ active' = active + 1
        /\ cooling' = TRUE
        /\ UNCHANGED <<code, limit, deferred, seen, disk, file, restarts>>

\* ProviderCircuitOpen, ProviderAdmissionDeferred
Reject(t) ==
    \E i \in DOMAIN queue :
        /\ queue[i].thread = t
        /\ seen.open \/ deferred
        /\ queue' = Without(queue, i)
        /\ pc' = [pc EXCEPT ![t] = "idle"]
        /\ UNCHANGED <<code, active, limit, cooling, deferred, seen, disk, file,
                       restarts>>

ClockMoves ==
    /\ cooling
    /\ cooling' = FALSE
    /\ UNCHANGED <<queue, pc, code, active, limit, deferred, seen, disk, file, restarts>>

-----------------------------------------------------------------------------
(* An admitted attempt *)

\* pace_transport
Pace(t) ==
    /\ pc[t] = "admitted"
    /\ ~deferred
    /\ pc' = [pc EXCEPT ![t] = "sent"]
    /\ UNCHANGED <<queue, code, active, limit, cooling, deferred, seen, disk, file,
                   restarts>>

HalvedMutant == limit \div 2

Halved == IF limit \div 2 > 1 THEN limit \div 2 ELSE 1

\* A 429 of the provider, or the one pace_transport raises for a deferred run.
Throttle(t, long) ==
    /\ \/ pc[t] = "sent"
       \/ pc[t] = "admitted" /\ deferred /\ ~long
    /\ pc' = [pc EXCEPT ![t] = "observe"]
    /\ code' = [code EXCEPT ![t] = "429"]
    /\ limit' = Halved
    /\ deferred' = (deferred \/ long)
    /\ cooling' = (cooling \/ ~long)
    /\ UNCHANGED <<queue, active, seen, disk, file, restarts>>

\* Any other end of the attempt; one that was not sent ends with an error of its own.
Ends(t, c) ==
    /\ pc[t] = "sent" \/ (pc[t] = "admitted" /\ c = "other")
    /\ pc' = [pc EXCEPT ![t] = "observe"]
    /\ code' = [code EXCEPT ![t] = c]
    /\ UNCHANGED <<queue, active, limit, cooling, deferred, seen, disk, file, restarts>>

\* _observe
Observed(s, c) ==
    LET n == IF c # "403" THEN 0 ELSE IF s.denials < MaxDenials THEN s.denials + 1 ELSE s.denials
    IN  [denials |-> n, open |-> s.open \/ n >= MaxDenials]

\* observe: the event file first, then the counters.
ObserveMutant(t) ==
    /\ pc[t] = "observe"
    /\ seen' = Observed(seen, code[t])
    /\ \/ file = "none" /\ disk' = Observed(disk, code[t]) /\ UNCHANGED file
       \/ file = "none" /\ file' = "torn" /\ UNCHANGED disk
       \/ file # "none" /\ UNCHANGED <<disk, file>>
    /\ pc' = [pc EXCEPT ![t] = "release"]
    /\ UNCHANGED <<queue, code, active, limit, cooling, deferred, restarts>>

Observe(t) ==
    /\ pc[t] = "observe"
    /\ file = "none"
    /\ disk' = Observed(disk, code[t])
    /\ seen' = Observed(seen, code[t])
    /\ pc' = [pc EXCEPT ![t] = "release"]
    /\ UNCHANGED <<queue, code, active, limit, cooling, deferred, file, restarts>>

\* The write fails, and the file that was created stays: it is whole or it is not, the
\* counters do not move, and every later event fails on its name.
ObserveFails(t) ==
    /\ pc[t] = "observe"
    /\ \/ file = "none" /\ file' = "torn" /\ UNCHANGED disk
       \/ file = "none" /\ file' = "whole" /\ disk' = Observed(disk, code[t])
       \/ file # "none" /\ UNCHANGED <<disk, file>>
    /\ pc' = [pc EXCEPT ![t] = "release"]
    /\ UNCHANGED <<queue, code, active, limit, cooling, deferred, seen, restarts>>

ReleaseMutant(t) ==
    /\ pc[t] = "release"
    /\ pc' = [pc EXCEPT ![t] = "idle"]
    /\ code' = [code EXCEPT ![t] = "ok"]
    /\ active' = IF file = "none" THEN active - 1 ELSE active
    /\ UNCHANGED <<queue, limit, cooling, deferred, seen, disk, file, restarts>>

Release(t) ==
    /\ pc[t] = "release"
    /\ pc' = [pc EXCEPT ![t] = "idle"]
    /\ code' = [code EXCEPT ![t] = "ok"]
    /\ active' = active - 1
    /\ UNCHANGED <<queue, limit, cooling, deferred, seen, disk, file, restarts>>

\* The process dies and the next one replays the files; a torn one stops it.
Restart ==
    /\ restarts < MaxRestarts
    /\ file # "torn"
    /\ restarts' = restarts + 1
    /\ queue' = <<>>
    /\ pc' = [t \in Threads |-> "idle"]
    /\ code' = [t \in Threads |-> "ok"]
    /\ active' = 0
    /\ limit' = Workers
    /\ cooling' = FALSE /\ deferred' = FALSE
    /\ seen' = disk
    /\ file' = "none"
    /\ UNCHANGED disk

-----------------------------------------------------------------------------
\* What a thread does once it asked for a slot.
Proceed(t) ==
    \/ Pace(t)
    \/ \E long \in BOOLEAN : Throttle(t, long)
    \/ \E c \in {"ok", "403", "other"} : Ends(t, c)
    \/ Observe(t) \/ ObserveFails(t)
    \/ Release(t)

Next ==
    \/ \E t \in Threads : \/ \E r \in Roles : Enqueue(t, r)
                          \/ Admit(t) \/ Reject(t) \/ Proceed(t)
    \/ ClockMoves
    \/ Restart

Spec == Init /\ [][Next]_vars

\* A waiting thread looks again every 50 ms, HTTP exchanges have time limits, cool-downs
\* are bounded by max_cooldown_seconds, and nothing else blocks.
FairSpec ==
    /\ Spec
    /\ \A t \in Threads : WF_vars(Admit(t)) /\ WF_vars(Reject(t)) /\ WF_vars(Proceed(t))
    /\ WF_vars(ClockMoves)

-----------------------------------------------------------------------------
(* Properties *)

SchedulerTypeOK ==
    /\ queue \in Seq(Ticket)
    /\ pc \in [Threads -> {"idle", "waiting"} \cup InSlot]
    /\ code \in [Threads -> Code]
    /\ active \in Nat /\ limit \in 1 .. Workers
    /\ cooling \in BOOLEAN /\ deferred \in BOOLEAN
    /\ seen \in Circuit /\ disk \in Circuit
    /\ file \in {"none", "torn", "whole"}
    /\ restarts \in Nat

\* next_ticket and dequeue: priority cannot starve a role.  The i-th oldest attempt is
\* passed at most MaxBypass times and then only by those that are older, whatever arrives.
BoundedBypass ==
    \A i \in DOMAIN queue : queue[i].bypass + i <= MaxBypass + Cardinality(Threads)

Busy == {t \in Threads : pc[t] \in InSlot}

\* attempt: a slot is taken and given back exactly once on every path, also when recording
\* the outcome raises, and a halved limit never brings more than Workers into flight.
SlotsBalance ==
    /\ active = Cardinality(Busy)
    /\ active <= Workers

\* observe: an open circuit stays open, also for the process that replays the files, and
\* although a file may fail to be written.
CircuitForGood == [][seen.open => seen'.open]_vars

\* attempt: everyone who waits is admitted or turned away, although arrivals never stop and
\* limits shrink.
NobodyStarves == \A t \in Threads : pc[t] = "waiting" ~> pc[t] # "waiting"
=============================================================================
