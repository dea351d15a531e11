---------------------- MODULE ProviderSchedulerProofs ----------------------
(***************************************************************************)
(* Proofs about ProviderScheduler, for any number of threads, roles, slots *)
(* and any bypass limit.                                                   *)
(*                                                                         *)
(* The bound on bypass is not inductive by itself.  It rests on two facts: *)
(* an older ticket has been passed at least as often as a younger one, so  *)
(* while the oldest one is below the limit everyone is, and a thread has   *)
(* at most one ticket, so the queue is no longer than there are threads.   *)
(***************************************************************************)
EXTENDS ProviderScheduler, FiniteSetTheorems, TLAPS

N == Cardinality(Threads)

\* A waiting thread has one ticket, and only a waiting thread has one.
OneTicket ==
    /\ \A i \in DOMAIN queue : pc[queue[i].thread] = "waiting"
    /\ \A i, j \in DOMAIN queue : queue[i].thread = queue[j].thread => i = j

\* Everything that passes a younger ticket passes the older one too.
OlderPassedMore ==
    \A i, j \in DOMAIN queue : i <= j => queue[j].bypass <= queue[i].bypass

\* Memory and files differ only when an event could not be recorded, and an open circuit
\* is always on file.
CircuitOnFile ==
    /\ file = "none" => seen = disk
    /\ seen.open => disk.open

SchedulerInv ==
    /\ SchedulerTypeOK
    /\ OneTicket
    /\ OlderPassedMore
    /\ BoundedBypass
    /\ SlotsBalance
    /\ CircuitOnFile

-----------------------------------------------------------------------------
\* What SchedulerAssumption says of the numbers.
LEMMA Numbers ==
    /\ N \in Nat
    /\ Workers \in Nat /\ Workers >= 1 /\ MaxDenials \in Nat /\ MaxDenials >= 1
    /\ MaxBypass \in Nat
  BY SchedulerAssumption, FS_CardinalityType DEF N

\* What stands in a queue is a ticket.
LEMMA TicketAt ==
    ASSUME NEW q \in Seq(Ticket), NEW i \in DOMAIN q
    PROVE  q[i] \in Ticket /\ q[i].thread \in Threads /\ q[i].bypass \in Nat
  <1>1. q[i] \in Ticket
    OBVIOUS
  <1> QED
    BY <1>1 DEF Ticket

\* The queue never outgrows the set of threads, before or after an arrival.
LEMMA QueueFits ==
    ASSUME NEW q \in Seq(Ticket),
           \A i, j \in DOMAIN q : q[i].thread = q[j].thread => i = j
    PROVE  Len(q) <= N
  <1> DEFINE f == [i \in 1 .. Len(q) |-> q[i].thread]
  <1>1. f \in [1 .. Len(q) -> Threads]
    BY TicketAt
  <1>2. f \in Injection(1 .. Len(q), Threads)
    BY <1>1 DEF Injection, IsInjective
  <1>3. Cardinality(1 .. Len(q)) = Len(q)
    <2>1. \A n \in Nat : Cardinality(1 .. n) = n
      BY FS_Interval
    <2>2. Len(q) \in Nat
      OBVIOUS
    <2> QED
      BY <2>1, <2>2
  <1> QED
    BY <1>2, <1>3, FS_Injection, SchedulerAssumption DEF N

\* A step that moves a thread within the slots, or outside of them.
LEMMA SameSlots ==
    ASSUME SchedulerTypeOK, SlotsBalance, NEW t \in Threads, NEW p, pc' = [pc EXCEPT ![t] = p],
           pc[t] \in InSlot <=> p \in InSlot, active' = active
    PROVE  SlotsBalance'
  <1>1. Busy' = Busy
    BY DEF SchedulerTypeOK, Busy
  <1> QED
    BY <1>1 DEF SlotsBalance

\* What remains when a ticket is taken out, in the old order.
LEMMA WithoutType ==
    ASSUME NEW q \in Seq(Ticket), NEW i \in DOMAIN q
    PROVE  /\ Without(q, i) \in Seq(Ticket)
           /\ Len(Without(q, i)) = Len(q) - 1
           /\ \A j \in 1 .. Len(q) - 1 :
                Without(q, i)[j] = q[IF j < i THEN j ELSE j + 1]
  <1>1. Len(q) - 1 \in Nat
    OBVIOUS
  <1>2. \A j \in 1 .. Len(q) - 1 : Without(q, i)[j] \in Ticket
    BY DEF Without
  <1> QED
    BY <1>1, <1>2 DEF Without

\* Being passed keeps the tickets and their order and counts once for each.
LEMMA PassedType ==
    ASSUME NEW q \in Seq(Ticket)
    PROVE  /\ Passed(q) \in Seq(Ticket)
           /\ Len(Passed(q)) = Len(q)
           /\ \A j \in DOMAIN q : /\ Passed(q)[j].thread = q[j].thread
                                  /\ Passed(q)[j].bypass = q[j].bypass + 1
  <1>1. \A j \in DOMAIN q : q[j] \in Ticket
    OBVIOUS
  <1>2. \A j \in DOMAIN q : [q[j] EXCEPT !.bypass = @ + 1] \in Ticket
    BY <1>1 DEF Ticket
  <1> QED
    BY <1>1, <1>2 DEF Passed, Ticket

\* Recording an outcome never closes an open circuit.
LEMMA ObservedType ==
    ASSUME NEW s \in Circuit, NEW c
    PROVE  Observed(s, c) \in Circuit /\ (s.open => Observed(s, c).open)
  BY Numbers DEF Observed, Circuit

\* A halved limit is a limit.
LEMMA HalvedType == limit \in 1 .. Workers => Halved \in 1 .. Workers
  BY Numbers DEF Halved

\* Slots after one thread enters or leaves one.
LEMMA SlotTaken ==
    ASSUME SchedulerTypeOK, NEW t \in Threads, NEW p, p \in {"idle", "waiting"} \cup InSlot,
           pc' = [pc EXCEPT ![t] = p]
    PROVE  /\ IsFiniteSet(Busy) /\ Cardinality(Busy) \in Nat
           /\ t \notin Busy /\ p \in InSlot => Cardinality(Busy') = Cardinality(Busy) + 1
           /\ t \in Busy /\ p \notin InSlot => Cardinality(Busy') = Cardinality(Busy) - 1
           /\ (t \in Busy) = (p \in InSlot) => Busy' = Busy
  <1>1. IsFiniteSet(Busy) /\ Cardinality(Busy) \in Nat
    BY FS_Subset, FS_CardinalityType, SchedulerAssumption DEF Busy
  <1>2. p \in InSlot => Busy' = Busy \cup {t}
    BY DEF SchedulerTypeOK, Busy
  <1>3. p \notin InSlot => Busy' = Busy \ {t}
    BY DEF SchedulerTypeOK, Busy
  <1>4. t \notin Busy /\ p \in InSlot => Cardinality(Busy') = Cardinality(Busy) + 1
    BY <1>1, <1>2, FS_AddElement
  <1>5. t \in Busy /\ p \notin InSlot => Cardinality(Busy') = Cardinality(Busy) - 1
    BY <1>1, <1>3, FS_RemoveElement
  <1>6. (t \in Busy) = (p \in InSlot) => Busy' = Busy
    BY <1>2, <1>3
  <1> QED
    BY <1>1, <1>4, <1>5, <1>6

\* The invariant holds at the start.
LEMMA SchedulerInit == Init => SchedulerInv
  <1> SUFFICES ASSUME Init PROVE SchedulerInv
    OBVIOUS
  <1> USE Numbers DEF Init
  <1>1. SchedulerTypeOK
    <2>1. queue \in Seq(Ticket)
      OBVIOUS
    <2>2. Closed \in Circuit
      BY DEF Closed, Circuit
    <2>3. cooling \in BOOLEAN /\ deferred \in BOOLEAN
      BY Zenon
    <2>4. pc \in [Threads -> {"idle", "waiting"} \cup InSlot] /\ code \in [Threads -> Code]
      BY DEF InSlot, Code
    <2> QED
      BY <2>1, <2>2, <2>3, <2>4 DEF SchedulerTypeOK
  <1>2. OneTicket /\ OlderPassedMore /\ BoundedBypass
    BY DEF OneTicket, OlderPassedMore, BoundedBypass
  <1>3. SlotsBalance
    <2>1. Busy = {}
      BY DEF InSlot, Busy
    <2>2. Cardinality({}) = 0
      BY FS_EmptySet
    <2> QED
      BY <2>1, <2>2 DEF SlotsBalance
  <1>4. CircuitOnFile
    BY DEF CircuitOnFile, Closed
  <1> QED
    BY <1>1, <1>2, <1>3, <1>4 DEF SchedulerInv

-----------------------------------------------------------------------------
\* Enqueue keeps the invariant.
LEMMA EnqueueStep ==
    ASSUME SchedulerInv, NEW t \in Threads, NEW r \in Roles, Enqueue(t, r)
    PROVE  SchedulerInv'
  <1> USE Numbers DEF SchedulerInv
  <1> DEFINE k == [thread |-> t, role |-> r, bypass |-> 0]
  <1>1. k \in Ticket
    BY DEF Ticket
  <1>2. SchedulerTypeOK'
    BY <1>1 DEF SchedulerTypeOK, Enqueue, InSlot
  <1>3. /\ Len(queue') = Len(queue) + 1 /\ queue'[Len(queue) + 1] = k
        /\ \A i \in DOMAIN queue : queue'[i] = queue[i] /\ queue[i] \in Ticket
        /\ queue \in Seq(Ticket)
    BY <1>1 DEF SchedulerTypeOK, Enqueue
  <1>4. \A i \in DOMAIN queue : queue[i].thread # t
    BY DEF OneTicket, Enqueue
  <1>5. OneTicket'
    BY <1>3, <1>4 DEF OneTicket, Enqueue, SchedulerTypeOK, Ticket
  <1>6. OlderPassedMore'
    BY <1>3 DEF OlderPassedMore, Ticket
  <1>7. Len(queue) + 1 <= N
    BY <1>2, <1>3, <1>5, QueueFits DEF OneTicket, SchedulerTypeOK
  <1>8. BoundedBypass'
    BY <1>3, <1>7 DEF BoundedBypass, N
  <1>9. SlotsBalance'
    BY SameSlots DEF Enqueue, InSlot
  <1>10. CircuitOnFile'
    BY DEF CircuitOnFile, Enqueue
  <1> QED
    BY <1>2, <1>5, <1>6, <1>8, <1>9, <1>10

\* The heart of the matter: an admission adds one to every ticket that stays; the ticket
\* either moves up by one place or was below the limit.
LEMMA AdmitStep ==
    ASSUME SchedulerInv, NEW t \in Threads, Admit(t)
    PROVE  SchedulerInv'
  <1> USE Numbers DEF SchedulerInv
  <1>1. PICK i \in DOMAIN queue :
            /\ queue[i].thread = t
            /\ IsNext(i)
            /\ active < limit
            /\ queue' = Passed(Without(queue, i))
            /\ pc' = [pc EXCEPT ![t] = "admitted"]
            /\ active' = active + 1
            /\ cooling' = TRUE
            /\ UNCHANGED <<code, limit, deferred, seen, disk, file, restarts>>
    BY DEF Admit
  <1> DEFINE from(j) == IF j < i THEN j ELSE j + 1
  <1>2. /\ queue \in Seq(Ticket) /\ queue' \in Seq(Ticket) /\ Len(queue') = Len(queue) - 1
        /\ \A j \in DOMAIN queue' : /\ from(j) \in DOMAIN queue /\ from(j) # i
                                    /\ queue'[j].thread = queue[from(j)].thread
                                    /\ queue'[j].bypass = queue[from(j)].bypass + 1
                                    /\ queue[from(j)].bypass \in Nat
    <2>1. queue \in Seq(Ticket)
      BY DEF SchedulerTypeOK
    <2>2. \A j \in DOMAIN queue : queue[j].bypass \in Nat
      BY <2>1, TicketAt
    <2> DEFINE w == Without(queue, i)
    <2>3. /\ w \in Seq(Ticket) /\ Len(w) = Len(queue) - 1
          /\ \A j \in 1 .. Len(queue) - 1 : w[j] = queue[from(j)]
      BY <2>1, WithoutType
    <2>4. /\ queue' \in Seq(Ticket) /\ Len(queue') = Len(w)
          /\ \A j \in DOMAIN w : /\ queue'[j].thread = w[j].thread
                                 /\ queue'[j].bypass = w[j].bypass + 1
      BY <1>1, <2>3, PassedType
    <2>5. DOMAIN queue' = 1 .. Len(queue) - 1 /\ DOMAIN w = 1 .. Len(queue) - 1
      BY <2>3, <2>4
    <2>6. \A j \in 1 .. Len(queue) - 1 : from(j) \in DOMAIN queue /\ from(j) # i
      BY <2>1
    <2> HIDE DEF w, from
    <2> QED
      BY <2>1, <2>2, <2>3, <2>4, <2>5, <2>6
  <1>3. SchedulerTypeOK'
    BY <1>1, <1>2 DEF SchedulerTypeOK, InSlot
  <1>4. OneTicket'
    <2>1. \A j \in DOMAIN queue' : queue[from(j)].thread # t
      BY <1>1, <1>2 DEF OneTicket
    <2>2. \A j \in DOMAIN queue' : pc'[queue'[j].thread] = "waiting"
      <3>1. \A j \in DOMAIN queue' : queue[from(j)].thread \in Threads
        BY <1>2, TicketAt
      <3>2. \A u \in Threads \ {t} : pc'[u] = pc[u]
        BY <1>1 DEF SchedulerTypeOK
      <3> QED
        BY <1>2, <2>1, <3>1, <3>2 DEF OneTicket
    <2>3. ASSUME NEW j \in DOMAIN queue', NEW k \in DOMAIN queue',
                 queue'[j].thread = queue'[k].thread
          PROVE  j = k
      <3>1. from(j) = from(k)
        BY <1>2, <2>3 DEF OneTicket
      <3> QED
        BY <1>2, <3>1
    <2> QED
      BY <2>2, <2>3 DEF OneTicket
  <1>5. OlderPassedMore'
    <2>1. ASSUME NEW j \in DOMAIN queue', NEW k \in DOMAIN queue', j <= k
          PROVE  queue'[k].bypass <= queue'[j].bypass
      <3>1. from(j) <= from(k)
        BY <1>2, <2>1
      <3>2. queue[from(k)].bypass <= queue[from(j)].bypass
        BY <1>2, <3>1 DEF OlderPassedMore
      <3> QED
        BY <1>2, <3>2
    <2> QED
      BY <2>1 DEF OlderPassedMore
  <1>6. Len(queue) <= N
    BY <1>2, QueueFits DEF OneTicket
  <1>7. BoundedBypass'
    <2>1. CASE queue[1].bypass >= MaxBypass
      <3>1. i = 1
        BY <1>1, <2>1 DEF IsNext
      <3>2. ASSUME NEW j \in DOMAIN queue'
            PROVE  queue'[j].bypass + j <= MaxBypass + N
        <4>1. queue[j + 1].bypass + (j + 1) <= MaxBypass + N
          BY <1>2, <3>1 DEF BoundedBypass, N
        <4> QED
          BY <1>2, <3>1, <4>1
      <3> QED
        BY <3>2 DEF BoundedBypass, N
    <2>2. CASE ~(queue[1].bypass >= MaxBypass)
      <3>1. ASSUME NEW j \in DOMAIN queue'
            PROVE  queue'[j].bypass + j <= MaxBypass + N
        <4>1. queue[from(j)].bypass <= queue[1].bypass /\ queue[1].bypass \in Nat
          <5>1. 1 \in DOMAIN queue /\ from(j) \in DOMAIN queue /\ 1 <= from(j)
            BY <1>2
          <5> QED
            BY <1>2, <5>1, TicketAt DEF OlderPassedMore
        <4>2. queue'[j].bypass <= MaxBypass
          BY <1>2, <2>2, <4>1
        <4> QED
          BY <1>2, <1>6, <4>2
      <3> QED
        BY <3>1 DEF BoundedBypass, N
    <2> QED
      BY <2>1, <2>2
  <1>8. SlotsBalance'
    <2>1. pc[t] = "waiting"
      BY <1>1 DEF OneTicket
    <2>2. t \notin Busy
      BY <2>1 DEF Busy, InSlot
    <2>3. "admitted" \in InSlot
      BY DEF InSlot
    <2>4. Cardinality(Busy') = Cardinality(Busy) + 1
      BY <1>1, <2>2, <2>3, SlotTaken
    <2>5. active' <= Workers
      BY <1>1 DEF SchedulerTypeOK
    <2> QED
      BY <1>1, <2>4, <2>5 DEF SlotsBalance
  <1>9. CircuitOnFile'
    BY <1>1 DEF CircuitOnFile
  <1> QED
    BY <1>3, <1>4, <1>5, <1>7, <1>8, <1>9

\* Reject keeps the invariant.
LEMMA RejectStep ==
    ASSUME SchedulerInv, NEW t \in Threads, Reject(t)
    PROVE  SchedulerInv'
  <1> USE Numbers DEF SchedulerInv
  <1>1. PICK i \in DOMAIN queue :
            /\ queue[i].thread = t
            /\ queue' = Without(queue, i)
            /\ pc' = [pc EXCEPT ![t] = "idle"]
            /\ UNCHANGED <<code, active, limit, cooling, deferred, seen, disk, file, restarts>>
    BY DEF Reject
  <1> DEFINE from(j) == IF j < i THEN j ELSE j + 1
  <1>2. /\ queue \in Seq(Ticket) /\ queue' \in Seq(Ticket) /\ Len(queue') = Len(queue) - 1
        /\ \A j \in DOMAIN queue' : /\ from(j) \in DOMAIN queue /\ from(j) # i /\ j <= from(j)
                                    /\ queue'[j] = queue[from(j)]
                                    /\ queue[from(j)].bypass \in Nat
    <2>1. queue \in Seq(Ticket)
      BY DEF SchedulerTypeOK
    <2>2. \A j \in DOMAIN queue : queue[j].bypass \in Nat
      BY <2>1, TicketAt
    <2>3. /\ queue' \in Seq(Ticket) /\ Len(queue') = Len(queue) - 1
          /\ \A j \in 1 .. Len(queue) - 1 : queue'[j] = queue[from(j)]
      BY <1>1, <2>1, WithoutType
    <2>4. DOMAIN queue' = 1 .. Len(queue) - 1
      BY <2>3
    <2>5. \A j \in 1 .. Len(queue) - 1 : /\ from(j) \in DOMAIN queue
                                         /\ from(j) # i /\ j <= from(j)
      BY <2>1
    <2> HIDE DEF from
    <2> QED
      BY <2>1, <2>2, <2>3, <2>4, <2>5
  <1>3. SchedulerTypeOK'
    BY <1>1, <1>2 DEF SchedulerTypeOK, InSlot
  <1>4. OneTicket'
    BY <1>1, <1>2 DEF OneTicket, SchedulerTypeOK
  <1>5. OlderPassedMore'
    BY <1>2 DEF OlderPassedMore
  <1>6. BoundedBypass'
    <2>1. ASSUME NEW j \in DOMAIN queue'
          PROVE  queue'[j].bypass + j <= MaxBypass + N
      <3>1. queue[from(j)].bypass + from(j) <= MaxBypass + N
        BY <1>2 DEF BoundedBypass, N
      <3> QED
        BY <1>2, <3>1
    <2> QED
      BY <2>1 DEF BoundedBypass, N
  <1>7. SlotsBalance'
    <2>1. pc[t] = "waiting"
      BY <1>1 DEF OneTicket
    <2> QED
      BY <1>1, <2>1, SameSlots DEF InSlot
  <1>8. CircuitOnFile'
    BY <1>1 DEF CircuitOnFile
  <1> QED
    BY <1>3, <1>4, <1>5, <1>6, <1>7, <1>8

\* An attempt that is in a slot has no ticket, so its steps leave the queue alone.
LEMMA InSlotStep ==
    ASSUME SchedulerInv, NEW t \in Threads, pc[t] \in InSlot, queue' = queue,
           NEW p \in {"idle"} \cup InSlot, pc' = [pc EXCEPT ![t] = p]
    PROVE  OneTicket' /\ OlderPassedMore' /\ BoundedBypass'
  BY DEF SchedulerInv, OneTicket, OlderPassedMore, BoundedBypass, InSlot, SchedulerTypeOK

\* An exchange under way keeps the invariant until its slot is released.
LEMMA ProceedStep ==
    ASSUME SchedulerInv, NEW t \in Threads, Proceed(t)
    PROVE  SchedulerInv'
  <1> USE Numbers DEF SchedulerInv
  <1>1. CASE Pace(t)
    <2>1. SchedulerTypeOK'
      BY <1>1 DEF Pace, SchedulerTypeOK, InSlot
    <2>2. OneTicket' /\ OlderPassedMore' /\ BoundedBypass'
      BY <1>1, InSlotStep DEF Pace, InSlot
    <2>3. SlotsBalance'
      BY <1>1, SameSlots DEF Pace, InSlot
    <2> QED
      BY <1>1, <2>1, <2>2, <2>3 DEF Pace, CircuitOnFile
  <1>2. ASSUME NEW long \in BOOLEAN, Throttle(t, long) PROVE SchedulerInv'
    <2>1. SchedulerTypeOK'
      BY <1>2, HalvedType DEF Throttle, SchedulerTypeOK, InSlot, Code
    <2>2. OneTicket' /\ OlderPassedMore' /\ BoundedBypass'
      BY <1>2, InSlotStep DEF Throttle, InSlot
    <2>3. SlotsBalance'
      BY <1>2, SameSlots DEF Throttle, InSlot
    <2> QED
      BY <1>2, <2>1, <2>2, <2>3 DEF Throttle, CircuitOnFile
  <1>3. ASSUME NEW c \in {"ok", "403", "other"}, Ends(t, c) PROVE SchedulerInv'
    <2>1. SchedulerTypeOK'
      BY <1>3 DEF Ends, SchedulerTypeOK, InSlot, Code
    <2>2. OneTicket' /\ OlderPassedMore' /\ BoundedBypass'
      BY <1>3, InSlotStep DEF Ends, InSlot
    <2>3. SlotsBalance'
      BY <1>3, SameSlots DEF Ends, InSlot
    <2> QED
      BY <1>3, <2>1, <2>2, <2>3 DEF Ends, CircuitOnFile
  <1>4. CASE Observe(t)
    <2>1. SchedulerTypeOK'
      BY <1>4, ObservedType DEF Observe, SchedulerTypeOK, InSlot
    <2>2. OneTicket' /\ OlderPassedMore' /\ BoundedBypass'
      BY <1>4, InSlotStep DEF Observe, InSlot
    <2>3. SlotsBalance'
      BY <1>4, SameSlots DEF Observe, InSlot
    <2>4. CircuitOnFile'
      BY <1>4 DEF Observe, CircuitOnFile
    <2> QED
      BY <2>1, <2>2, <2>3, <2>4
  <1>5. CASE ObserveFails(t)
    <2>1. SchedulerTypeOK'
      BY <1>5, ObservedType DEF ObserveFails, SchedulerTypeOK, InSlot
    <2>2. OneTicket' /\ OlderPassedMore' /\ BoundedBypass'
      BY <1>5, InSlotStep DEF ObserveFails, InSlot
    <2>3. SlotsBalance'
      BY <1>5, SameSlots DEF ObserveFails, InSlot
    <2>4. CircuitOnFile'
      BY <1>5, ObservedType DEF ObserveFails, CircuitOnFile, SchedulerTypeOK
    <2> QED
      BY <2>1, <2>2, <2>3, <2>4
  <1>6. CASE Release(t)
    <2>1. t \in Busy /\ Cardinality(Busy') = Cardinality(Busy) - 1 /\ Cardinality(Busy') \in Nat
      <3>1. t \in Busy /\ "idle" \notin InSlot
        BY <1>6 DEF Release, Busy, InSlot
      <3>2. IsFiniteSet(Busy')
        BY FS_Subset, SchedulerAssumption DEF Busy
      <3> QED
        BY <1>6, <3>1, <3>2, SlotTaken, FS_CardinalityType DEF Release
    <2>2. SlotsBalance'
      BY <1>6, <2>1 DEF Release, SlotsBalance, Busy, SchedulerTypeOK
    <2>3. SchedulerTypeOK'
      BY <1>6, <2>1, <2>2 DEF Release, SchedulerTypeOK, SlotsBalance, Busy, InSlot, Code
    <2>4. OneTicket' /\ OlderPassedMore' /\ BoundedBypass'
      BY <1>6, InSlotStep DEF Release, InSlot
    <2> QED
      BY <1>6, <2>2, <2>3, <2>4 DEF Release, CircuitOnFile
  <1> QED
    BY <1>1, <1>2, <1>3, <1>4, <1>5, <1>6 DEF Proceed

\* Restart keeps the invariant.
LEMMA RestartStep ==
    ASSUME SchedulerInv, Restart
    PROVE  SchedulerInv'
  <1> USE Numbers DEF SchedulerInv, Restart
  <1>1. SchedulerTypeOK'
    <2>1. queue' \in Seq(Ticket) /\ disk \in Circuit /\ restarts \in Nat
      BY DEF SchedulerTypeOK
    <2>2. cooling' \in BOOLEAN /\ deferred' \in BOOLEAN
      BY Zenon
    <2>3. pc' \in [Threads -> {"idle", "waiting"} \cup InSlot] /\ code' \in [Threads -> Code]
      BY DEF InSlot, Code
    <2> QED
      BY <2>1, <2>2, <2>3 DEF SchedulerTypeOK
  <1>2. OneTicket' /\ OlderPassedMore' /\ BoundedBypass'
    BY DEF OneTicket, OlderPassedMore, BoundedBypass
  <1>3. SlotsBalance'
    <2>1. Busy' = {}
      BY DEF InSlot, Busy
    <2>2. Cardinality({}) = 0
      BY FS_EmptySet
    <2> QED
      BY <2>1, <2>2 DEF SlotsBalance
  <1>4. CircuitOnFile'
    BY DEF CircuitOnFile
  <1> QED
    BY <1>1, <1>2, <1>3, <1>4

\* Every step keeps the invariant.
LEMMA SchedulerNext == SchedulerInv /\ [Next]_vars => SchedulerInv'
  <1> SUFFICES ASSUME SchedulerInv, [Next]_vars PROVE SchedulerInv'
    OBVIOUS
  <1>1. CASE ClockMoves
    BY <1>1 DEF ClockMoves, SchedulerInv, SchedulerTypeOK, OneTicket, OlderPassedMore,
                BoundedBypass, SlotsBalance, Busy, CircuitOnFile
  <1>2. CASE UNCHANGED vars
    BY <1>2 DEF vars, SchedulerInv, SchedulerTypeOK, OneTicket, OlderPassedMore,
                BoundedBypass, SlotsBalance, Busy, CircuitOnFile
  <1> QED
    BY <1>1, <1>2, EnqueueStep, AdmitStep, RejectStep, ProceedStep, RestartStep DEF Next

\* The inductive invariant of the queue, the slots and the circuit holds in every state.
THEOREM SchedulerInductive == Spec => []SchedulerInv
  BY SchedulerInit, SchedulerNext, PTL DEF Spec

\* next_ticket and dequeue bound how often a ticket is passed, for any number of threads
\* and roles and any max_priority_bypass, whatever arrives.
THEOREM BypassIsBounded == Spec => []BoundedBypass
  <1>1. SchedulerInv => BoundedBypass
    BY DEF SchedulerInv
  <1> QED
    BY <1>1, SchedulerInductive, PTL

\* attempt gives every slot back exactly once and never has more than Workers in flight.
THEOREM SlotsAreBalanced == Spec => []SlotsBalance
  <1>1. SchedulerInv => SlotsBalance
    BY DEF SchedulerInv
  <1> QED
    BY <1>1, SchedulerInductive, PTL

\* observe and the replay of its files: an open circuit is open for good.
THEOREM CircuitStaysOpen == Spec => CircuitForGood
  <1>1. ASSUME SchedulerInv, [Next]_vars PROVE [seen.open => seen'.open]_vars
    <2>1. seen \in Circuit
      BY <1>1 DEF SchedulerInv, SchedulerTypeOK
    <2>2. CASE \E t \in Threads : Observe(t)
      BY <2>1, <2>2, ObservedType DEF Observe
    <2>3. CASE Restart
      BY <1>1, <2>3 DEF Restart, SchedulerInv, CircuitOnFile
    <2>4. CASE UNCHANGED seen
      BY <2>4
    <2>5. (\E t \in Threads : Observe(t)) \/ Restart \/ UNCHANGED seen
      BY <1>1 DEF Next, Proceed, Enqueue, Admit, Reject, ClockMoves, Pace, Throttle, Ends,
                  ObserveFails, Release, vars
    <2> QED
      BY <2>2, <2>3, <2>4, <2>5
  <1>2. SchedulerInv /\ [Next]_vars => [seen.open => seen'.open]_vars
    BY <1>1
  <1> QED
    BY <1>2, SchedulerInductive, PTL DEF Spec, CircuitForGood
=============================================================================
