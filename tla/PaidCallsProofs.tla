-------------------------- MODULE PaidCallsProofs --------------------------
(***************************************************************************)
(* Proofs about PaidCalls: both ledgers count every charge, a response is  *)
(* asked for by one request at a time, and what is reused is settled.      *)
(*                                                                         *)
(* The properties are not inductive: whether a row may be settled to zero  *)
(* depends on what the thread that holds the request has sent so far, and  *)
(* nobody else may touch that request.  PaidInv adds these facts.          *)
(***************************************************************************)
EXTENDS PaidCalls, SumsProofs

\* The request of a row without a receipt is fenced by its own pending marker.
Unanswered(q) == probe[q].state = "row" /\ probe[q].receipt = "null"
Marked(q) == cache[KeyOf[q]] = [state |-> "pending", owner |-> q]

\* What the tables say of one request, whoever works on it.
RequestInv(q) ==
    /\ charge[q].state = "none" => charge[q].exposure = 0 /\ probe[q].state = "none"
    /\ charge[q].state \in {"reserved", "uncertain"} => charge[q].exposure = Bound
    /\ charge[q].state = "settled" =>
          charge[q].exposure = probe[q].committed /\ ~Unanswered(q)
    /\ probe[q].state = "none" =>
          probe[q].committed = 0 /\ probe[q].receipt = "null" /\ real[q] = 0 /\ tries[q] = {}
    /\ Unanswered(q) =>
          probe[q].committed = Reservation /\ real[q] <= Reservation /\ Marked(q)
    /\ probe[q].receipt # "null" => probe[q].committed = real[q] /\ real[q] <= Reservation

\* What a thread knows of its request at each point of the call.
ThreadInv(t) ==
    /\ At(t, "idle") <=> Q(t) = NoRequest
    /\ ~At(t, "idle") => charge[Q(t)].state = "reserved"
    /\ th[t].pc \in {"claim", "reserve"} => probe[Q(t)].state = "none"
    /\ th[t].pc \in {"reserve", "transport", "sent", "publish", "release"} => Marked(Q(t))
    /\ th[t].pc \in {"transport", "sent"} =>
          /\ Unanswered(Q(t))
          /\ real[Q(t)] = th[t].spent + th[t].cost
          /\ th[t].attempt = 0 => th[t].spent = 0
          /\ th[t].attempt = 1 => th[t].spent <= MaxCost /\ "response_received" \in tries[Q(t)]
    /\ At(t, "transport") => th[t].cost = 0
    /\ At(t, "sent") => th[t].cost <= MaxCost
    /\ At(t, "publish") => probe[Q(t)].receipt = "valid"

\* Two threads never work on the same request.
Exclusive == \A t, u \in Threads : Q(t) = Q(u) /\ Q(t) # NoRequest => t = u

PublishedInv ==
    \A k \in Keys : cache[k].state = "published" =>
        cache[k].owner \in Requests /\ probe[cache[k].owner].receipt = "valid"

PaidInv ==
    /\ PaidTypeOK
    /\ \A q \in Requests : RequestInv(q)
    /\ \A t \in Threads : ThreadInv(t)
    /\ Exclusive
    /\ PublishedInv

-----------------------------------------------------------------------------
\* The numbers, without the rest of the assumption.
LEMMA Constants ==
    /\ NoRequest \notin Requests
    /\ Bound \in Nat /\ Reservation \in Nat /\ MaxCost \in Nat
    /\ 2 * MaxCost <= Reservation /\ Reservation <= Bound
  BY PaidAssumption

\* What Goto does to the thread and to nobody else.
LEMMA Control ==
    ASSUME PaidTypeOK, NEW t \in Threads, NEW pc \in Pc, Goto(t, pc)
    PROVE  /\ th' \in [Threads -> ThreadRecord]
           /\ th'[t].pc = pc /\ th'[t].req = Q(t) /\ th'[t].attempt = 0
           /\ th'[t].spent = 0 /\ th'[t].cost = 0
           /\ \A u \in Threads \ {t} : th'[u] = th[u]
  <1>1. Q(t) \in Requests \cup {NoRequest}
    BY DEF PaidTypeOK, ThreadRecord, Q
  <1>2. [IdleThread EXCEPT !.pc = pc, !.req = Q(t)] \in ThreadRecord
    BY <1>1 DEF ThreadRecord, IdleThread
  <1> QED
    BY <1>2 DEF Goto, PaidTypeOK, IdleThread

\* A request that a thread works on is a request.
LEMMA Busy ==
    ASSUME PaidInv, NEW t \in Threads, ~At(t, "idle")
    PROVE  Q(t) \in Requests /\ KeyOf[Q(t)] \in Keys
  BY DEF PaidInv, PaidTypeOK, ThreadInv, ThreadRecord, Q, At, Keys

\* The invariant holds before any call.
LEMMA PaidInit == Init => PaidInv
  <1> SUFFICES ASSUME Init PROVE PaidInv
    OBVIOUS
  <1> USE Constants DEF Init
  <1>1. PaidTypeOK
    BY DEF PaidTypeOK, ThreadRecord, IdleThread, ChargeRecord, NoCharge, ProbeRecord, NoRow,
           CacheRecord, NoEntry, Pc
  <1>2. \A q \in Requests : RequestInv(q)
    BY DEF RequestInv, NoCharge, NoRow, Unanswered
  <1>3. \A t \in Threads : ThreadInv(t)
    BY DEF ThreadInv, IdleThread, At, Q
  <1>4. Exclusive
    BY DEF Exclusive, IdleThread, Q
  <1>5. PublishedInv
    BY DEF PublishedInv, NoEntry
  <1> QED
    BY <1>1, <1>2, <1>3, <1>4, <1>5 DEF PaidInv

\* Nothing about request r changes, except that its marker may be inserted.
SameRows(r) ==
    /\ charge'[r] = charge[r] /\ probe'[r] = probe[r]
    /\ tries'[r] = tries[r] /\ real'[r] = real[r]
    /\ Marked(r) => Marked(r)'

\* A request whose rows are left alone keeps its part of the invariant.
LEMMA FrameRequest ==
    ASSUME NEW r \in Requests, RequestInv(r), SameRows(r)
    PROVE  RequestInv(r)'
  BY DEF RequestInv, SameRows, Unanswered

\* So does a thread when it and the rows of its request are left alone.
LEMMA FrameThread ==
    ASSUME NEW u \in Threads, ThreadInv(u), th'[u] = th[u],
           Q(u) # NoRequest => SameRows(Q(u))
    PROVE  ThreadInv(u)'
  <1>1. CASE Q(u) = NoRequest
    BY <1>1 DEF ThreadInv, Q, At
  <1>2. CASE Q(u) # NoRequest
    BY <1>2 DEF ThreadInv, SameRows, Unanswered, Q, At
  <1> QED
    BY <1>1, <1>2

\* A thread in the finally of the guard relies on its reservation only.
LEMMA Finally ==
    ASSUME NEW t \in Threads, NEW q \in Requests,
           th'[t].pc = "finally", th'[t].req = q, charge'[q].state = "reserved"
    PROVE  ThreadInv(t)'
  BY Constants DEF ThreadInv, Q, At

\* A step of thread t on its request q leaves every other request and thread alone.
LEMMA Local ==
    ASSUME PaidInv, NEW t \in Threads, NEW q \in Requests,
           Q(t) \in {q, NoRequest}, th'[t].req \in {q, NoRequest},
           Q(t) = q \/ \A u \in Threads : Q(u) # q,
           \A u \in Threads \ {t} : th'[u] = th[u],
           \A r \in Requests \ {q} : SameRows(r),
           PaidTypeOK', RequestInv(q)', ThreadInv(t)', PublishedInv'
    PROVE  PaidInv'
  <1>1. \A u \in Threads \ {t} : Q(u) \in (Requests \ {q}) \cup {NoRequest}
    BY PaidAssumption DEF PaidInv, PaidTypeOK, ThreadRecord, Exclusive, Q
  <1>2. ASSUME NEW r \in Requests PROVE RequestInv(r)'
    BY FrameRequest DEF PaidInv
  <1>3. ASSUME NEW u \in Threads PROVE ThreadInv(u)'
    BY <1>1, FrameThread DEF PaidInv
  <1>4. Exclusive'
    BY <1>1 DEF PaidInv, Exclusive, Q
  <1> QED
    BY <1>2, <1>3, <1>4 DEF PaidInv

\* GuardSettle keeps the invariant.
LEMMA GuardSettleStep ==
    ASSUME PaidInv, NEW t \in Threads, GuardSettle(t)
    PROVE  PaidInv'
  <1> USE Constants
  <1>1. PICK q \in Requests : Q(t) = q /\ ~At(t, "idle") /\ KeyOf[q] \in Keys
    BY Busy DEF GuardSettle, At
  <1>a. th[t] \in ThreadRecord
    BY DEF PaidInv, PaidTypeOK
  <1>b. IdleThread \in ThreadRecord
    BY <1>1, <1>a DEF ThreadRecord, Pc, IdleThread, Q
  <1>c. th' = [th EXCEPT ![t] = IdleThread]
    BY DEF GuardSettle, Return, Q
  <1>2. th'[t] = IdleThread
    BY <1>a, <1>c DEF PaidInv, PaidTypeOK, ThreadRecord, IdleThread, Q
  <1>3. th' \in [Threads -> ThreadRecord] /\ \A u \in Threads \ {t} : th'[u] = th[u]
    BY <1>b, <1>c DEF PaidInv, PaidTypeOK
  <1>4. PaidTypeOK'
    BY <1>1, <1>2, <1>3 DEF PaidInv, PaidTypeOK, ChargeRecord, ProbeRecord, CacheRecord,
       TryState, Q, At, ThreadRecord, GuardSettle, SettledCharge
  <1>5. \A r \in Requests \ {q} : SameRows(r)
    BY <1>1, <1>2 DEF PaidInv, PaidTypeOK, ChargeRecord, ProbeRecord, CacheRecord,
       TryState, ThreadInv, SameRows, Marked, Q, At, GuardSettle, SettledCharge
  <1>6. RequestInv(q)'
    BY <1>1, <1>2, <1>3 DEF PaidInv, PaidTypeOK, ChargeRecord, ProbeRecord, CacheRecord,
       TryState, ThreadRecord, RequestInv, ThreadInv, Unanswered, Marked, Q, At,
       GuardSettle, SettledCharge
  <1>7. ThreadInv(t)'
    BY <1>1, <1>2, <1>3 DEF PaidInv, PaidTypeOK, ChargeRecord, ProbeRecord, CacheRecord,
       TryState, ThreadRecord, RequestInv, ThreadInv, Unanswered, Marked, Q, At,
       GuardSettle, SettledCharge, IdleThread
  <1>8. PublishedInv'
    BY <1>1, <1>2 DEF PaidInv, PaidTypeOK, ChargeRecord, ProbeRecord, CacheRecord,
       TryState, RequestInv, ThreadInv, PublishedInv, Unanswered, Marked, Q, At,
       GuardSettle, SettledCharge
  <1> QED
    BY <1>1, <1>2, <1>3, <1>4, <1>5, <1>6, <1>7, <1>8, Local DEF Q, IdleThread

\* ClaimRefused keeps the invariant.
LEMMA ClaimRefusedStep ==
    ASSUME PaidInv, NEW t \in Threads, ClaimRefused(t)
    PROVE  PaidInv'
  <1> USE Constants
  <1>1. PICK q \in Requests : Q(t) = q /\ ~At(t, "idle") /\ KeyOf[q] \in Keys
    BY Busy DEF ClaimRefused, At
  <1>2. Goto(t, "finally")
    BY DEF ClaimRefused
  <1>3. /\ th' \in [Threads -> ThreadRecord]
        /\ th'[t].pc = "finally" /\ th'[t].req = Q(t) /\ th'[t].attempt = 0
        /\ th'[t].spent = 0 /\ th'[t].cost = 0
        /\ \A u \in Threads \ {t} : th'[u] = th[u]
    BY <1>2, Control DEF Pc, PaidInv
  <1>4. PaidTypeOK'
    BY <1>1, <1>2, <1>3 DEF PaidInv, PaidTypeOK, ChargeRecord, ProbeRecord, CacheRecord,
       TryState, Q, At, ThreadRecord, ClaimRefused
  <1>5. \A r \in Requests \ {q} : SameRows(r)
    BY <1>1, <1>2 DEF PaidInv, PaidTypeOK, ChargeRecord, ProbeRecord, CacheRecord,
       TryState, ThreadInv, SameRows, Marked, Q, At, ClaimRefused
  <1>6. RequestInv(q)'
    BY <1>1, <1>2, <1>3 DEF PaidInv, PaidTypeOK, ChargeRecord, ProbeRecord, CacheRecord,
       TryState, ThreadRecord, RequestInv, ThreadInv, Unanswered, Marked, Q, At,
       ClaimRefused
  <1>7. ThreadInv(t)'
    BY <1>1, <1>3, Finally DEF PaidInv, ThreadInv, ClaimRefused
  <1>8. PublishedInv'
    BY <1>1, <1>2 DEF PaidInv, PaidTypeOK, ChargeRecord, ProbeRecord, CacheRecord,
       TryState, RequestInv, ThreadInv, PublishedInv, Unanswered, Marked, Q, At,
       ClaimRefused
  <1> QED
    BY <1>1, <1>2, <1>3, <1>4, <1>5, <1>6, <1>7, <1>8, Local DEF Q

\* Claim keeps the invariant.
LEMMA ClaimStep ==
    ASSUME PaidInv, NEW t \in Threads, Claim(t)
    PROVE  PaidInv'
  <1> USE Constants
  <1>1. PICK q \in Requests : Q(t) = q /\ ~At(t, "idle") /\ KeyOf[q] \in Keys
    BY Busy DEF Claim, At
  <1>2. Goto(t, "reserve")
    BY DEF Claim
  <1>3. /\ th' \in [Threads -> ThreadRecord]
        /\ th'[t].pc = "reserve" /\ th'[t].req = Q(t) /\ th'[t].attempt = 0
        /\ th'[t].spent = 0 /\ th'[t].cost = 0
        /\ \A u \in Threads \ {t} : th'[u] = th[u]
    BY <1>2, Control DEF Pc, PaidInv
  <1>4. PaidTypeOK'
    BY <1>1, <1>2, <1>3 DEF PaidInv, PaidTypeOK, ChargeRecord, ProbeRecord, CacheRecord,
       TryState, Q, At, ThreadRecord, Claim
  <1>5. \A r \in Requests \ {q} : SameRows(r)
    BY <1>1, <1>2 DEF PaidInv, PaidTypeOK, ChargeRecord, ProbeRecord, CacheRecord,
       TryState, ThreadInv, SameRows, Marked, Q, At, Claim
  <1>6. RequestInv(q)'
    BY <1>1, <1>2, <1>3 DEF PaidInv, PaidTypeOK, ChargeRecord, ProbeRecord, CacheRecord,
       TryState, ThreadRecord, RequestInv, ThreadInv, Unanswered, Marked, Q, At, Claim
  <1>7. ThreadInv(t)'
    BY <1>1, <1>2, <1>3 DEF PaidInv, PaidTypeOK, ChargeRecord, ProbeRecord, CacheRecord,
       TryState, ThreadRecord, RequestInv, ThreadInv, Unanswered, Marked, Q, At, Claim
  <1>8. PublishedInv'
    BY <1>1, <1>2 DEF PaidInv, PaidTypeOK, ChargeRecord, ProbeRecord, CacheRecord,
       TryState, RequestInv, ThreadInv, PublishedInv, Unanswered, Marked, Q, At, Claim
  <1> QED
    BY <1>1, <1>2, <1>3, <1>4, <1>5, <1>6, <1>7, <1>8, Local DEF Q

\* Reuse keeps the invariant.
LEMMA ReuseStep ==
    ASSUME PaidInv, NEW t \in Threads, Reuse(t)
    PROVE  PaidInv'
  <1> USE Constants
  <1>1. PICK q \in Requests : Q(t) = q /\ ~At(t, "idle") /\ KeyOf[q] \in Keys
    BY Busy DEF Reuse, At
  <1>2. Goto(t, "finally")
    BY DEF Reuse
  <1>3. /\ th' \in [Threads -> ThreadRecord]
        /\ th'[t].pc = "finally" /\ th'[t].req = Q(t) /\ th'[t].attempt = 0
        /\ th'[t].spent = 0 /\ th'[t].cost = 0
        /\ \A u \in Threads \ {t} : th'[u] = th[u]
    BY <1>2, Control DEF Pc, PaidInv
  <1>4. PaidTypeOK'
    BY <1>1, <1>2, <1>3 DEF PaidInv, PaidTypeOK, ChargeRecord, ProbeRecord, CacheRecord,
       TryState, Q, At, ThreadRecord, Reuse, Row
  <1>5. \A r \in Requests \ {q} : SameRows(r)
    BY <1>1, <1>2 DEF PaidInv, PaidTypeOK, ChargeRecord, ProbeRecord, CacheRecord,
       TryState, ThreadInv, SameRows, Marked, Q, At, Reuse, Row
  <1>6. RequestInv(q)'
    <2>1. probe'[q].state = "row" /\ probe'[q].receipt = "reused" /\ probe'[q].committed = 0
      BY <1>1 DEF Reuse, Row, PaidInv, PaidTypeOK
    <2>2. real[q] = 0 /\ charge[q].state = "reserved" /\ charge[q].exposure = Bound
      BY <1>1 DEF Reuse, PaidInv, RequestInv, ThreadInv, Q
    <2> QED
      BY <2>1, <2>2 DEF RequestInv, Unanswered, Reuse
  <1>7. ThreadInv(t)'
    BY <1>1, <1>3, Finally DEF PaidInv, ThreadInv, Reuse
  <1>8. PublishedInv'
    BY <1>1, <1>2 DEF PaidInv, PaidTypeOK, ChargeRecord, ProbeRecord, CacheRecord,
       TryState, RequestInv, ThreadInv, PublishedInv, Unanswered, Marked, Q, At, Reuse, Row
  <1> QED
    BY <1>1, <1>2, <1>3, <1>4, <1>5, <1>6, <1>7, <1>8, Local DEF Q

\* Publish keeps the invariant.
LEMMA PublishStep ==
    ASSUME PaidInv, NEW t \in Threads, Publish(t)
    PROVE  PaidInv'
  <1> USE Constants
  <1>1. PICK q \in Requests : Q(t) = q /\ ~At(t, "idle") /\ KeyOf[q] \in Keys
    BY Busy DEF Publish, At
  <1>2. Goto(t, "finally")
    BY DEF Publish
  <1>3. /\ th' \in [Threads -> ThreadRecord]
        /\ th'[t].pc = "finally" /\ th'[t].req = Q(t) /\ th'[t].attempt = 0
        /\ th'[t].spent = 0 /\ th'[t].cost = 0
        /\ \A u \in Threads \ {t} : th'[u] = th[u]
    BY <1>2, Control DEF Pc, PaidInv
  <1>4. PaidTypeOK'
    BY <1>1, <1>2, <1>3 DEF PaidInv, PaidTypeOK, ChargeRecord, ProbeRecord, CacheRecord,
       TryState, Q, At, ThreadRecord, Publish
  <1>5. \A r \in Requests \ {q} : SameRows(r)
    BY <1>1, <1>2 DEF PaidInv, PaidTypeOK, ChargeRecord, ProbeRecord, CacheRecord,
       TryState, ThreadInv, SameRows, Marked, Q, At, Publish
  <1>6. RequestInv(q)'
    BY <1>1, <1>2, <1>3 DEF PaidInv, PaidTypeOK, ChargeRecord, ProbeRecord, CacheRecord,
       TryState, ThreadRecord, RequestInv, ThreadInv, Unanswered, Marked, Q, At, Publish
  <1>7. ThreadInv(t)'
    BY <1>1, <1>3, Finally DEF PaidInv, ThreadInv, Publish
  <1>8. PublishedInv'
    BY <1>1, <1>2 DEF PaidInv, PaidTypeOK, ChargeRecord, ProbeRecord, CacheRecord,
       TryState, RequestInv, ThreadInv, PublishedInv, Unanswered, Marked, Q, At, Publish
  <1> QED
    BY <1>1, <1>2, <1>3, <1>4, <1>5, <1>6, <1>7, <1>8, Local DEF Q

\* PublishRaises keeps the invariant.
LEMMA PublishRaisesStep ==
    ASSUME PaidInv, NEW t \in Threads, PublishRaises(t)
    PROVE  PaidInv'
  <1> USE Constants
  <1>1. PICK q \in Requests : Q(t) = q /\ ~At(t, "idle") /\ KeyOf[q] \in Keys
    BY Busy DEF PublishRaises, At
  <1>2. Goto(t, "release")
    BY DEF PublishRaises
  <1>3. /\ th' \in [Threads -> ThreadRecord]
        /\ th'[t].pc = "release" /\ th'[t].req = Q(t) /\ th'[t].attempt = 0
        /\ th'[t].spent = 0 /\ th'[t].cost = 0
        /\ \A u \in Threads \ {t} : th'[u] = th[u]
    BY <1>2, Control DEF Pc, PaidInv
  <1>4. PaidTypeOK'
    BY <1>1, <1>2, <1>3 DEF PaidInv, PaidTypeOK, ChargeRecord, ProbeRecord, CacheRecord,
       TryState, Q, At, ThreadRecord, PublishRaises
  <1>5. \A r \in Requests \ {q} : SameRows(r)
    BY <1>1, <1>2 DEF PaidInv, PaidTypeOK, ChargeRecord, ProbeRecord, CacheRecord,
       TryState, ThreadInv, SameRows, Marked, Q, At, PublishRaises
  <1>6. RequestInv(q)'
    BY <1>1, <1>2, <1>3 DEF PaidInv, PaidTypeOK, ChargeRecord, ProbeRecord, CacheRecord,
       TryState, ThreadRecord, RequestInv, ThreadInv, Unanswered, Marked, Q, At,
       PublishRaises
  <1>7. ThreadInv(t)'
    BY <1>1, <1>2, <1>3 DEF PaidInv, PaidTypeOK, ChargeRecord, ProbeRecord, CacheRecord,
       TryState, ThreadRecord, RequestInv, ThreadInv, Unanswered, Marked, Q, At,
       PublishRaises
  <1>8. PublishedInv'
    BY <1>1, <1>2 DEF PaidInv, PaidTypeOK, ChargeRecord, ProbeRecord, CacheRecord,
       TryState, RequestInv, ThreadInv, PublishedInv, Unanswered, Marked, Q, At,
       PublishRaises
  <1> QED
    BY <1>1, <1>2, <1>3, <1>4, <1>5, <1>6, <1>7, <1>8, Local DEF Q

\* Release keeps the invariant.
LEMMA ReleaseStep ==
    ASSUME PaidInv, NEW t \in Threads, Release(t)
    PROVE  PaidInv'
  <1> USE Constants
  <1>1. PICK q \in Requests : Q(t) = q /\ ~At(t, "idle") /\ KeyOf[q] \in Keys
    BY Busy DEF Release, At
  <1>2. Goto(t, "finally")
    BY DEF Release
  <1>3. /\ th' \in [Threads -> ThreadRecord]
        /\ th'[t].pc = "finally" /\ th'[t].req = Q(t) /\ th'[t].attempt = 0
        /\ th'[t].spent = 0 /\ th'[t].cost = 0
        /\ \A u \in Threads \ {t} : th'[u] = th[u]
    BY <1>2, Control DEF Pc, PaidInv
  <1>4. PaidTypeOK'
    BY <1>1, <1>2, <1>3 DEF PaidInv, PaidTypeOK, ChargeRecord, ProbeRecord, CacheRecord,
       TryState, Q, At, ThreadRecord, Release, NoEntry, UnsentOrInvalid
  <1>5. ASSUME NEW r \in Requests \ {q} PROVE SameRows(r)
    <2>1. cache[KeyOf[q]].owner = q
      <3>1. Marked(Q(t))
        BY DEF PaidInv, ThreadInv, At, Release
      <3> QED
        BY <1>1, <3>1 DEF Marked
    <2>2. Marked(r) => KeyOf[r] # KeyOf[q]
      BY <2>1 DEF Marked
    <2>3. Marked(r) => cache'[KeyOf[r]] = cache[KeyOf[r]]
      BY <1>1, <2>2 DEF Release, PaidInv, PaidTypeOK, Keys
    <2> QED
      BY <2>3 DEF SameRows, Marked, Release
  <1>6. RequestInv(q)'
    BY <1>1, <1>2, <1>3 DEF PaidInv, PaidTypeOK, ChargeRecord, ProbeRecord, CacheRecord,
       TryState, ThreadRecord, RequestInv, ThreadInv, Unanswered, Marked, Q, At, Release,
       NoEntry, UnsentOrInvalid
  <1>7. ThreadInv(t)'
    BY <1>1, <1>3, Finally DEF PaidInv, ThreadInv, Release
  <1>8. PublishedInv'
    BY <1>1, <1>2 DEF PaidInv, PaidTypeOK, ChargeRecord, ProbeRecord, CacheRecord,
       TryState, RequestInv, ThreadInv, PublishedInv, Unanswered, Marked, Q, At, Release,
       NoEntry, UnsentOrInvalid
  <1> QED
    BY <1>1, <1>2, <1>3, <1>4, <1>5, <1>6, <1>7, <1>8, Local DEF Q

\* Reserve keeps the invariant.
LEMMA ReserveStep ==
    ASSUME PaidInv, NEW t \in Threads, Reserve(t)
    PROVE  PaidInv'
  <1> USE Constants
  <1>1. PICK q \in Requests : Q(t) = q /\ ~At(t, "idle") /\ KeyOf[q] \in Keys
    BY Busy DEF Reserve, At
  <1>2. PICK pc \in {"transport", "release"} :
            /\ Goto(t, pc)
            /\ pc = "transport" => probe' = [probe EXCEPT ![Q(t)] = Row(Reservation, "null")]
            /\ pc = "release" => probe' = probe
    BY DEF Reserve
  <1>3. /\ th' \in [Threads -> ThreadRecord]
        /\ th'[t].pc = pc /\ th'[t].req = Q(t) /\ th'[t].attempt = 0
        /\ th'[t].spent = 0 /\ th'[t].cost = 0
        /\ \A u \in Threads \ {t} : th'[u] = th[u]
    BY <1>2, Control DEF Pc, PaidInv
  <1>4. PaidTypeOK'
    BY <1>1, <1>2, <1>3 DEF PaidInv, PaidTypeOK, ChargeRecord, ProbeRecord, CacheRecord,
       TryState, Q, At, ThreadRecord, Reserve, Row
  <1>5. \A r \in Requests \ {q} : SameRows(r)
    BY <1>1, <1>2 DEF PaidInv, PaidTypeOK, ChargeRecord, ProbeRecord, CacheRecord,
       TryState, ThreadInv, SameRows, Marked, Q, At, Reserve, Row
  <1>6. RequestInv(q)'
    BY <1>1, <1>2, <1>3 DEF PaidInv, PaidTypeOK, ChargeRecord, ProbeRecord, CacheRecord,
       TryState, ThreadRecord, RequestInv, ThreadInv, Unanswered, Marked, Q, At, Reserve,
       Row
  <1>7. ThreadInv(t)'
    BY <1>1, <1>2, <1>3 DEF PaidInv, PaidTypeOK, ChargeRecord, ProbeRecord, CacheRecord,
       TryState, ThreadRecord, RequestInv, ThreadInv, Unanswered, Marked, Q, At, Reserve,
       Row
  <1>8. PublishedInv'
    <2>1. probe[q].receipt = "null" /\ cache' = cache
      BY <1>1 DEF Reserve, PaidInv, RequestInv, ThreadInv, Q, At
    <2>2. \A r \in Requests \ {q} : probe'[r] = probe[r]
      BY <1>5 DEF SameRows
    <2> QED
      BY <2>1, <2>2 DEF PaidInv, PublishedInv
  <1> QED
    BY <1>1, <1>2, <1>3, <1>4, <1>5, <1>6, <1>7, <1>8, Local DEF Q

\* ConnectAgain keeps the invariant.
LEMMA ConnectAgainStep ==
    ASSUME PaidInv, NEW t \in Threads, ConnectAgain(t)
    PROVE  PaidInv'
  <1> USE Constants
  <1>1. PICK q \in Requests : Q(t) = q /\ ~At(t, "idle") /\ KeyOf[q] \in Keys
    BY Busy DEF ConnectAgain, At
  <1>2. /\ th' \in [Threads -> ThreadRecord]
        /\ th'[t].pc \in {"transport", "release"} /\ th'[t].req = q
        /\ th'[t].pc = "transport" => /\ th'[t].cost = th[t].cost
                                      /\ th'[t].attempt = th[t].attempt
                                      /\ th'[t].spent = th[t].spent
        /\ \A u \in Threads \ {t} : th'[u] = th[u]
    <2>1. CASE Goto(t, "release")
      BY <1>1, <2>1, Control DEF PaidInv, Pc
    <2>2. CASE th' = [th EXCEPT ![t].retried = TRUE]
      <3>1. th[t] \in ThreadRecord /\ th[t].pc = "transport"
        BY DEF PaidInv, PaidTypeOK, ConnectAgain, At
      <3>2. [th[t] EXCEPT !.retried = TRUE] \in ThreadRecord
        BY <3>1 DEF ThreadRecord
      <3> QED
        BY <1>1, <2>2, <3>1, <3>2 DEF PaidInv, PaidTypeOK, ThreadRecord, Q
    <2> QED
      BY <2>1, <2>2 DEF ConnectAgain
  <1>4. PaidTypeOK'
    BY <1>1, <1>2 DEF PaidInv, PaidTypeOK, ChargeRecord, ProbeRecord, CacheRecord,
       TryState, Q, At, ThreadRecord, ConnectAgain, Finish
  <1>5. \A r \in Requests \ {q} : SameRows(r)
    BY <1>1, <1>2 DEF PaidInv, PaidTypeOK, ChargeRecord, ProbeRecord, CacheRecord,
       TryState, ThreadInv, SameRows, Marked, Q, At, ConnectAgain, Finish
  <1>6. RequestInv(q)'
    BY <1>1, <1>2 DEF PaidInv, PaidTypeOK, ChargeRecord, ProbeRecord, CacheRecord,
       TryState, ThreadRecord, RequestInv, ThreadInv, Unanswered, Marked, Q, At,
       ConnectAgain, Finish
  <1>7. ThreadInv(t)'
    BY <1>1, <1>2 DEF PaidInv, PaidTypeOK, ChargeRecord, ProbeRecord, CacheRecord,
       TryState, ThreadRecord, RequestInv, ThreadInv, Unanswered, Marked, Q, At,
       ConnectAgain, Finish
  <1>8. PublishedInv'
    BY <1>1, <1>2 DEF PaidInv, PaidTypeOK, ChargeRecord, ProbeRecord, CacheRecord,
       TryState, RequestInv, ThreadInv, PublishedInv, Unanswered, Marked, Q, At,
       ConnectAgain, Finish
  <1> QED
    BY <1>1, <1>2, <1>4, <1>5, <1>6, <1>7, <1>8, Local DEF Q

\* PricesExpired keeps the invariant.
LEMMA PricesExpiredStep ==
    ASSUME PaidInv, NEW t \in Threads, PricesExpired(t)
    PROVE  PaidInv'
  <1> USE Constants
  <1>1. PICK q \in Requests : Q(t) = q /\ ~At(t, "idle") /\ KeyOf[q] \in Keys
    BY Busy DEF PricesExpired, At
  <1>2. Goto(t, "release")
    BY DEF PricesExpired
  <1>3. /\ th' \in [Threads -> ThreadRecord]
        /\ th'[t].pc = "release" /\ th'[t].req = Q(t) /\ th'[t].attempt = 0
        /\ th'[t].spent = 0 /\ th'[t].cost = 0
        /\ \A u \in Threads \ {t} : th'[u] = th[u]
    BY <1>2, Control DEF Pc, PaidInv
  <1>4. PaidTypeOK'
    BY <1>1, <1>2, <1>3 DEF PaidInv, PaidTypeOK, ChargeRecord, ProbeRecord, CacheRecord,
       TryState, Q, At, ThreadRecord, PricesExpired
  <1>5. \A r \in Requests \ {q} : SameRows(r)
    BY <1>1, <1>2 DEF PaidInv, PaidTypeOK, ChargeRecord, ProbeRecord, CacheRecord,
       TryState, ThreadInv, SameRows, Marked, Q, At, PricesExpired
  <1>6. RequestInv(q)'
    BY <1>1, <1>2, <1>3 DEF PaidInv, PaidTypeOK, ChargeRecord, ProbeRecord, CacheRecord,
       TryState, ThreadRecord, RequestInv, ThreadInv, Unanswered, Marked, Q, At,
       PricesExpired
  <1>7. ThreadInv(t)'
    BY <1>1, <1>2, <1>3 DEF PaidInv, PaidTypeOK, ChargeRecord, ProbeRecord, CacheRecord,
       TryState, ThreadRecord, RequestInv, ThreadInv, Unanswered, Marked, Q, At,
       PricesExpired
  <1>8. PublishedInv'
    BY <1>1, <1>2 DEF PaidInv, PaidTypeOK, ChargeRecord, ProbeRecord, CacheRecord,
       TryState, RequestInv, ThreadInv, PublishedInv, Unanswered, Marked, Q, At,
       PricesExpired
  <1> QED
    BY <1>1, <1>2, <1>3, <1>4, <1>5, <1>6, <1>7, <1>8, Local DEF Q

\* NotSent keeps the invariant.
LEMMA NotSentStep ==
    ASSUME PaidInv, NEW t \in Threads,
           NEW why \in {"denied", "connect", "lost", "signal"}, NotSent(t, why)
    PROVE  PaidInv'
  <1> USE Constants
  <1>1. PICK q \in Requests : Q(t) = q /\ ~At(t, "idle") /\ KeyOf[q] \in Keys
    BY Busy DEF NotSent, At
  <1>2. PICK pc \in {"finally", "release"} : Goto(t, pc)
    BY DEF NotSent
  <1>3. /\ th' \in [Threads -> ThreadRecord]
        /\ th'[t].pc = pc /\ th'[t].req = Q(t) /\ th'[t].attempt = 0
        /\ th'[t].spent = 0 /\ th'[t].cost = 0
        /\ \A u \in Threads \ {t} : th'[u] = th[u]
    BY <1>2, Control DEF Pc, PaidInv
  <1>4. PaidTypeOK'
    BY <1>1, <1>2, <1>3 DEF PaidInv, PaidTypeOK, ChargeRecord, ProbeRecord, CacheRecord,
       TryState, Q, At, ThreadRecord, NotSent, Finish, ProvenUnsent, Row
  <1>5. \A r \in Requests \ {q} : SameRows(r)
    BY <1>1, <1>2 DEF PaidInv, PaidTypeOK, ChargeRecord, ProbeRecord, CacheRecord,
       TryState, ThreadInv, SameRows, Marked, Q, At, NotSent, Finish, ProvenUnsent, Row
  <1>6. RequestInv(q)'
    BY <1>1, <1>2, <1>3 DEF PaidInv, PaidTypeOK, ChargeRecord, ProbeRecord, CacheRecord,
       TryState, ThreadRecord, RequestInv, ThreadInv, Unanswered, Marked, Q, At, NotSent,
       Finish, ProvenUnsent, Row
  <1>7. ThreadInv(t)'
    BY <1>1, <1>2, <1>3 DEF PaidInv, PaidTypeOK, ChargeRecord, ProbeRecord, CacheRecord,
       TryState, ThreadRecord, RequestInv, ThreadInv, Unanswered, Marked, Q, At, NotSent,
       Finish, ProvenUnsent, Row
  <1>8. PublishedInv'
    BY <1>1, <1>2 DEF PaidInv, PaidTypeOK, ChargeRecord, ProbeRecord, CacheRecord,
       TryState, RequestInv, ThreadInv, PublishedInv, Unanswered, Marked, Q, At, NotSent,
       Finish, ProvenUnsent, Row
  <1> QED
    BY <1>1, <1>2, <1>3, <1>4, <1>5, <1>6, <1>7, <1>8, Local DEF Q

\* Send keeps the invariant.
LEMMA SendStep ==
    ASSUME PaidInv, NEW t \in Threads, NEW amount \in 0 .. MaxCost, Send(t, amount)
    PROVE  PaidInv'
  <1> USE Constants
  <1>1. PICK q \in Requests : Q(t) = q /\ ~At(t, "idle") /\ KeyOf[q] \in Keys
    BY Busy DEF Send, At
  <1>a. th[t] \in ThreadRecord
    BY DEF PaidInv, PaidTypeOK
  <1>b. [th[t] EXCEPT !.pc = "sent", !.cost = amount] \in ThreadRecord
    <2>1. amount \in Nat
      OBVIOUS
    <2> QED
      BY <1>a, <2>1 DEF ThreadRecord, Pc
  <1>c. th' = [th EXCEPT ![t] = [th[t] EXCEPT !.pc = "sent", !.cost = amount]]
    BY DEF Send, Return, Q
  <1>2. /\ th'[t].pc = "sent" /\ th'[t].req = Q(t) /\ th'[t].cost = amount
        /\ th'[t].attempt = th[t].attempt /\ th'[t].spent = th[t].spent
    BY <1>a, <1>c DEF PaidInv, PaidTypeOK, ThreadRecord, IdleThread, Q
  <1>3. th' \in [Threads -> ThreadRecord] /\ \A u \in Threads \ {t} : th'[u] = th[u]
    BY <1>b, <1>c DEF PaidInv, PaidTypeOK
  <1>4. PaidTypeOK'
    BY <1>1, <1>2, <1>3 DEF PaidInv, PaidTypeOK, ChargeRecord, ProbeRecord, CacheRecord,
       TryState, Q, At, ThreadRecord, Send
  <1>5. \A r \in Requests \ {q} : SameRows(r)
    BY <1>1, <1>2 DEF PaidInv, PaidTypeOK, ChargeRecord, ProbeRecord, CacheRecord,
       TryState, ThreadInv, SameRows, Marked, Q, At, Send
  <1>6. RequestInv(q)'
    BY <1>1, <1>2, <1>3 DEF PaidInv, PaidTypeOK, ChargeRecord, ProbeRecord, CacheRecord,
       TryState, ThreadRecord, RequestInv, ThreadInv, Unanswered, Marked, Q, At, Send
  <1>7. ThreadInv(t)'
    BY <1>1, <1>2, <1>3 DEF PaidInv, PaidTypeOK, ChargeRecord, ProbeRecord, CacheRecord,
       TryState, ThreadRecord, RequestInv, ThreadInv, Unanswered, Marked, Q, At, Send
  <1>8. PublishedInv'
    BY <1>1, <1>2 DEF PaidInv, PaidTypeOK, ChargeRecord, ProbeRecord, CacheRecord,
       TryState, RequestInv, ThreadInv, PublishedInv, Unanswered, Marked, Q, At, Send
  <1> QED
    BY <1>1, <1>2, <1>3, <1>4, <1>5, <1>6, <1>7, <1>8, Local DEF Q

\* Unsettled keeps the invariant.
LEMMA UnsettledStep ==
    ASSUME PaidInv, NEW t \in Threads,
           NEW state \in {"unknown", "response_received"}, Unsettled(t, state)
    PROVE  PaidInv'
  <1> USE Constants
  <1>1. PICK q \in Requests : Q(t) = q /\ ~At(t, "idle") /\ KeyOf[q] \in Keys
    BY Busy DEF Unsettled, At
  <1>2. Goto(t, "release")
    BY DEF Unsettled
  <1>3. /\ th' \in [Threads -> ThreadRecord]
        /\ th'[t].pc = "release" /\ th'[t].req = Q(t) /\ th'[t].attempt = 0
        /\ th'[t].spent = 0 /\ th'[t].cost = 0
        /\ \A u \in Threads \ {t} : th'[u] = th[u]
    BY <1>2, Control DEF Pc, PaidInv
  <1>4. PaidTypeOK'
    BY <1>1, <1>2, <1>3 DEF PaidInv, PaidTypeOK, ChargeRecord, ProbeRecord, CacheRecord,
       TryState, Q, At, ThreadRecord, Unsettled, Finish
  <1>5. \A r \in Requests \ {q} : SameRows(r)
    BY <1>1, <1>2 DEF PaidInv, PaidTypeOK, ChargeRecord, ProbeRecord, CacheRecord,
       TryState, ThreadInv, SameRows, Marked, Q, At, Unsettled, Finish
  <1>6. RequestInv(q)'
    BY <1>1, <1>2, <1>3 DEF PaidInv, PaidTypeOK, ChargeRecord, ProbeRecord, CacheRecord,
       TryState, ThreadRecord, RequestInv, ThreadInv, Unanswered, Marked, Q, At, Unsettled,
       Finish
  <1>7. ThreadInv(t)'
    BY <1>1, <1>2, <1>3 DEF PaidInv, PaidTypeOK, ChargeRecord, ProbeRecord, CacheRecord,
       TryState, ThreadRecord, RequestInv, ThreadInv, Unanswered, Marked, Q, At, Unsettled,
       Finish
  <1>8. PublishedInv'
    BY <1>1, <1>2 DEF PaidInv, PaidTypeOK, ChargeRecord, ProbeRecord, CacheRecord,
       TryState, RequestInv, ThreadInv, PublishedInv, Unanswered, Marked, Q, At, Unsettled,
       Finish
  <1> QED
    BY <1>1, <1>2, <1>3, <1>4, <1>5, <1>6, <1>7, <1>8, Local DEF Q

\* AskAgain keeps the invariant.
LEMMA AskAgainStep ==
    ASSUME PaidInv, NEW t \in Threads, AskAgain(t)
    PROVE  PaidInv'
  <1> USE Constants
  <1>1. PICK q \in Requests : Q(t) = q /\ ~At(t, "idle") /\ KeyOf[q] \in Keys
    BY Busy DEF AskAgain, At
  <1>a. th[t] \in ThreadRecord
    BY DEF PaidInv, PaidTypeOK
  <1>b. [th[t] EXCEPT !.pc = "transport", !.attempt = 1,
                     !.spent = th[t].spent + th[t].cost, !.cost = 0] \in ThreadRecord
    <2>1. th[t].spent + th[t].cost \in Nat
      BY <1>a DEF ThreadRecord
    <2> QED
      BY <1>a, <2>1 DEF ThreadRecord, Pc
  <1>c. th' = [th EXCEPT ![t] = [th[t] EXCEPT !.pc = "transport", !.attempt = 1,
                                 !.spent = th[t].spent + th[t].cost, !.cost = 0]]
    BY DEF AskAgain, Return, Q
  <1>2. /\ th'[t].pc = "transport" /\ th'[t].req = Q(t) /\ th'[t].cost = 0
        /\ th'[t].attempt = 1 /\ th'[t].spent = th[t].spent + th[t].cost
    BY <1>a, <1>c DEF PaidInv, PaidTypeOK, ThreadRecord, IdleThread, Q
  <1>3. th' \in [Threads -> ThreadRecord] /\ \A u \in Threads \ {t} : th'[u] = th[u]
    BY <1>b, <1>c DEF PaidInv, PaidTypeOK
  <1>4. PaidTypeOK'
    BY <1>1, <1>2, <1>3 DEF PaidInv, PaidTypeOK, ChargeRecord, ProbeRecord, CacheRecord,
       TryState, Q, At, ThreadRecord, AskAgain, Finish
  <1>5. \A r \in Requests \ {q} : SameRows(r)
    BY <1>1, <1>2 DEF PaidInv, PaidTypeOK, ChargeRecord, ProbeRecord, CacheRecord,
       TryState, ThreadInv, SameRows, Marked, Q, At, AskAgain, Finish
  <1>6. RequestInv(q)'
    BY <1>1, <1>2, <1>3 DEF PaidInv, PaidTypeOK, ChargeRecord, ProbeRecord, CacheRecord,
       TryState, ThreadRecord, RequestInv, ThreadInv, Unanswered, Marked, Q, At, AskAgain,
       Finish
  <1>7. ThreadInv(t)'
    BY <1>1, <1>2, <1>3 DEF PaidInv, PaidTypeOK, ChargeRecord, ProbeRecord, CacheRecord,
       TryState, ThreadRecord, RequestInv, ThreadInv, Unanswered, Marked, Q, At, AskAgain,
       Finish
  <1>8. PublishedInv'
    BY <1>1, <1>2 DEF PaidInv, PaidTypeOK, ChargeRecord, ProbeRecord, CacheRecord,
       TryState, RequestInv, ThreadInv, PublishedInv, Unanswered, Marked, Q, At, AskAgain,
       Finish
  <1> QED
    BY <1>1, <1>2, <1>3, <1>4, <1>5, <1>6, <1>7, <1>8, Local DEF Q

\* Settle keeps the invariant.
LEMMA SettleStep ==
    ASSUME PaidInv, NEW t \in Threads, NEW valid \in BOOLEAN, Settle(t, valid)
    PROVE  PaidInv'
  <1> USE Constants
  <1>1. PICK q \in Requests : Q(t) = q /\ ~At(t, "idle") /\ KeyOf[q] \in Keys
    BY Busy DEF Settle, At
  <1>2. PICK pc \in {"publish", "release"} : Goto(t, pc) /\ (pc = "publish" => valid)
    BY DEF Settle
  <1>3. /\ th' \in [Threads -> ThreadRecord]
        /\ th'[t].pc = pc /\ th'[t].req = Q(t) /\ th'[t].attempt = 0
        /\ th'[t].spent = 0 /\ th'[t].cost = 0
        /\ \A u \in Threads \ {t} : th'[u] = th[u]
    BY <1>2, Control DEF Pc, PaidInv
  <1>4. PaidTypeOK'
    BY <1>1, <1>2, <1>3 DEF PaidInv, PaidTypeOK, ChargeRecord, ProbeRecord, CacheRecord,
       TryState, Q, At, ThreadRecord, Settle, Finish, Row
  <1>5. \A r \in Requests \ {q} : SameRows(r)
    BY <1>1, <1>2 DEF PaidInv, PaidTypeOK, ChargeRecord, ProbeRecord, CacheRecord,
       TryState, ThreadInv, SameRows, Marked, Q, At, Settle, Finish, Row
  <1>6. RequestInv(q)'
    BY <1>1, <1>2, <1>3 DEF PaidInv, PaidTypeOK, ChargeRecord, ProbeRecord, CacheRecord,
       TryState, ThreadRecord, RequestInv, ThreadInv, Unanswered, Marked, Q, At, Settle,
       Finish, Row
  <1>7. ThreadInv(t)'
    BY <1>1, <1>2, <1>3 DEF PaidInv, PaidTypeOK, ChargeRecord, ProbeRecord, CacheRecord,
       TryState, ThreadRecord, RequestInv, ThreadInv, Unanswered, Marked, Q, At, Settle,
       Finish, Row
  <1>8. PublishedInv'
    BY <1>1, <1>2 DEF PaidInv, PaidTypeOK, ChargeRecord, ProbeRecord, CacheRecord,
       TryState, RequestInv, ThreadInv, PublishedInv, Unanswered, Marked, Q, At, Settle,
       Finish, Row
  <1> QED
    BY <1>1, <1>2, <1>3, <1>4, <1>5, <1>6, <1>7, <1>8, Local DEF Q

\* Crash keeps the invariant.
LEMMA CrashStep ==
    ASSUME PaidInv, NEW t \in Threads, Crash(t)
    PROVE  PaidInv'
  <1> USE Constants
  <1>1. PICK q \in Requests : Q(t) = q /\ ~At(t, "idle") /\ KeyOf[q] \in Keys
    BY Busy DEF Crash, At
  <1>a. th[t] \in ThreadRecord
    BY DEF PaidInv, PaidTypeOK
  <1>b. IdleThread \in ThreadRecord
    BY <1>1, <1>a DEF ThreadRecord, Pc, IdleThread, Q
  <1>c. th' = [th EXCEPT ![t] = IdleThread]
    BY DEF Crash, Return, Q
  <1>2. th'[t] = IdleThread
    BY <1>a, <1>c DEF PaidInv, PaidTypeOK, ThreadRecord, IdleThread, Q
  <1>3. th' \in [Threads -> ThreadRecord] /\ \A u \in Threads \ {t} : th'[u] = th[u]
    BY <1>b, <1>c DEF PaidInv, PaidTypeOK
  <1>4. PaidTypeOK'
    BY <1>1, <1>2, <1>3 DEF PaidInv, PaidTypeOK, ChargeRecord, ProbeRecord, CacheRecord,
       TryState, Q, At, ThreadRecord, Crash
  <1>5. \A r \in Requests \ {q} : SameRows(r)
    BY <1>1, <1>2 DEF PaidInv, PaidTypeOK, ChargeRecord, ProbeRecord, CacheRecord,
       TryState, ThreadInv, SameRows, Marked, Q, At, Crash
  <1>6. RequestInv(q)'
    BY <1>1, <1>2, <1>3 DEF PaidInv, PaidTypeOK, ChargeRecord, ProbeRecord, CacheRecord,
       TryState, ThreadRecord, RequestInv, ThreadInv, Unanswered, Marked, Q, At, Crash
  <1>7. ThreadInv(t)'
    BY <1>1, <1>2, <1>3 DEF PaidInv, PaidTypeOK, ChargeRecord, ProbeRecord, CacheRecord,
       TryState, ThreadRecord, RequestInv, ThreadInv, Unanswered, Marked, Q, At, Crash,
       IdleThread
  <1>8. PublishedInv'
    BY <1>1, <1>2 DEF PaidInv, PaidTypeOK, ChargeRecord, ProbeRecord, CacheRecord,
       TryState, RequestInv, ThreadInv, PublishedInv, Unanswered, Marked, Q, At, Crash
  <1> QED
    BY <1>1, <1>2, <1>3, <1>4, <1>5, <1>6, <1>7, <1>8, Local DEF Q, IdleThread

\* A caller delivers a request nobody works on.
LEMMA GuardReserveStep ==
    ASSUME PaidInv, NEW t \in Threads, NEW q \in Requests, GuardReserve(t, q)
    PROVE  PaidInv'
  <1> USE Constants
  <1>1. Q(t) = NoRequest /\ \A u \in Threads : Q(u) # q
    BY DEF PaidInv, ThreadInv, GuardReserve, At, Q
  <1>2. [IdleThread EXCEPT !.pc = "claim", !.req = q] \in ThreadRecord
    BY DEF ThreadRecord, IdleThread, Pc
  <1>3. /\ th' \in [Threads -> ThreadRecord]
        /\ th'[t].pc = "claim" /\ th'[t].req = q
        /\ \A u \in Threads \ {t} : th'[u] = th[u]
    BY <1>2 DEF GuardReserve, PaidInv, PaidTypeOK, IdleThread
  <1>4. PaidTypeOK'
    BY <1>3 DEF GuardReserve, PaidInv, PaidTypeOK, ChargeRecord
  <1>5. \A r \in Requests \ {q} : SameRows(r)
    BY DEF GuardReserve, PaidInv, PaidTypeOK, SameRows, Marked
  <1>6. /\ charge'[q].state = "reserved" /\ charge'[q].exposure = Bound
        /\ probe'[q].state = "none"
    BY DEF GuardReserve, PaidInv, PaidTypeOK, RequestInv
  <1>7. RequestInv(q)'
    BY <1>6 DEF GuardReserve, PaidInv, RequestInv, Unanswered
  <1>8. ThreadInv(t)'
    BY <1>3, <1>6 DEF ThreadInv, At, Q
  <1>9. PublishedInv'
    BY DEF GuardReserve, PaidInv, PublishedInv
  <1> QED
    BY <1>1, <1>3, <1>4, <1>5, <1>7, <1>8, <1>9, Local DEF Q

-----------------------------------------------------------------------------
\* Every step keeps the invariant.
LEMMA PaidNext == PaidInv /\ [Next]_vars => PaidInv'
  <1> SUFFICES ASSUME PaidInv, [Next]_vars PROVE PaidInv'
    OBVIOUS
  <1>1. ASSUME NEW t \in Threads, Step(t) PROVE PaidInv'
    BY <1>1, GuardReserveStep, GuardSettleStep, ClaimRefusedStep, ClaimStep, ReuseStep,
       PublishStep, PublishRaisesStep, ReleaseStep, ReserveStep, ConnectAgainStep,
       PricesExpiredStep, NotSentStep, SendStep, UnsettledStep, AskAgainStep, SettleStep,
       CrashStep DEF Step
  <1>2. CASE UNCHANGED vars
    BY <1>2 DEF vars, PaidInv, PaidTypeOK, RequestInv, ThreadInv, Exclusive, PublishedInv,
                Unanswered, Marked, At, Q
  <1> QED
    BY <1>1, <1>2 DEF Next

\* The inductive invariant of the three databases and the threads holds in every state.
THEOREM PaidInductive == Spec => []PaidInv
  BY PaidInit, PaidNext, PTL DEF Spec

\* Rows and threads keep their types, for any number of threads, requests and amounts.
THEOREM PaidTypeCorrect == Spec => []PaidTypeOK
  <1>1. PaidInv => PaidTypeOK
    BY DEF PaidInv
  <1> QED
    BY <1>1, PaidInductive, PTL

\* _complete_reserved, _settle_never_sent and guarded never release money the provider has
\* charged, whatever is refused, retried, lost or killed.
THEOREM NoChargeEscapes == Spec => []ChargesCovered
  <1>1. ASSUME PaidInv, NEW q \in Requests
        PROVE  /\ real[q] <= probe[q].committed
               /\ real[q] <= charge[q].exposure
               /\ probe[q].receipt # "null" => probe[q].committed = real[q]
    <2>1. RequestInv(q) /\ charge[q] \in ChargeRecord /\ probe[q] \in ProbeRecord
          /\ real[q] \in Nat
      BY <1>1 DEF PaidInv, PaidTypeOK
    <2> QED
      BY <2>1, Constants DEF RequestInv, Unanswered, ChargeRecord, ProbeRecord
  <1>2. PaidInv => ChargesCovered
    BY <1>1 DEF ChargesCovered
  <1> QED
    BY <1>2, PaidInductive, PTL

\* claim, release_unsent_or_invalid and the row without a receipt: of the requests with one
\* cache key at most one is at the provider without an answer.
THEOREM OneFlight == Spec => []SingleFlight
  <1>1. ASSUME PaidInv, NEW q \in Requests, Unanswered(q)
        PROVE  cache[KeyOf[q]].owner = q
    <2>1. Marked(q)
      BY <1>1 DEF PaidInv, RequestInv
    <2> QED
      BY <2>1 DEF Marked
  <1>2. PaidInv => SingleFlight
    BY <1>1 DEF Unanswered, SingleFlight
  <1> QED
    BY <1>2, PaidInductive, PTL

\* publish and claim: what is reused came from a request that settled with a valid response.
THEOREM ReuseIsSound == Spec => []ReusedResponseSettled
  <1>1. PaidInv => ReusedResponseSettled
    BY DEF PaidInv, PublishedInv, ReusedResponseSettled
  <1> QED
    BY <1>1, PaidInductive, PTL

-----------------------------------------------------------------------------
(* Money: what a step does to the sums *)

\* What PaidAssumption says of requests, scopes and caps.
LEMMA FiniteRequests ==
    /\ IsFiniteSet(Requests)
    /\ \A S \in SUBSET Requests : IsFiniteSet(S)
    /\ Members \in [Scopes -> SUBSET Requests]
    /\ Event \in Scopes /\ Members[Event] = Requests
    /\ ScopeCap \in [Scopes -> Nat] /\ Limit \in Nat
  BY PaidAssumption, FS_Subset

\* The exposure of a set of requests is an amount.
LEMMA ExposureNat ==
    ASSUME PaidTypeOK, NEW S \in SUBSET Requests PROVE Exposure(S) \in Nat
  <1> DEFINE f == [q \in Requests |-> charge[q].exposure]
  <1>1. \A q \in S : f[q] \in Nat
    BY DEF PaidTypeOK, ChargeRecord
  <1>2. IsFiniteSet(S)
    BY FiniteRequests
  <1> HIDE DEF f
  <1>3. Total(f, S) \in Nat
    BY <1>1, <1>2, TotalNat
  <1> QED
    BY <1>3 DEF Exposure, f

\* One charge changes: a scope with the request changes by as much, another not at all.
LEMMA ExposureChange ==
    ASSUME PaidTypeOK, PaidTypeOK', NEW q \in Requests, NEW S \in SUBSET Requests,
           \A p \in Requests \ {q} : charge'[p] = charge[p]
    PROVE  Exposure(S)' = IF q \in S
                          THEN Exposure(S) - charge[q].exposure + charge'[q].exposure
                          ELSE Exposure(S)
  <1> DEFINE f == [p \in Requests |-> charge[p].exposure]
             g == [p \in Requests |-> charge'[p].exposure]
  <1>1. \A p \in S : f[p] \in Int /\ g[p] \in Int /\ (p # q => f[p] = g[p])
    BY DEF PaidTypeOK, ChargeRecord
  <1>2. IsFiniteSet(S)
    BY FiniteRequests
  <1>3. Exposure(S) = Total(f, S) /\ Exposure(S)' = Total(g, S)
    BY DEF Exposure
  <1>4. f[q] = charge[q].exposure /\ g[q] = charge'[q].exposure
    OBVIOUS
  <1> HIDE DEF f, g
  <1>5. CASE q \in S
    <2>1. Total(g, S) = Total(f, S) - f[q] + g[q]
      BY <1>1, <1>2, <1>5, TotalUpdate
    <2> QED
      BY <1>3, <1>4, <1>5, <2>1
  <1>6. CASE q \notin S
    <2>1. Total(g, S) = Total(f, S)
      BY <1>1, <1>2, <1>6, TotalEqual
    <2> QED
      BY <1>3, <1>6, <2>1
  <1> QED
    BY <1>5, <1>6

\* What the call ledger has committed is an amount.
LEMMA CommittedNat ==
    ASSUME PaidTypeOK PROVE Committed \in Nat
  <1> DEFINE f == [q \in Requests |-> probe[q].committed]
  <1>1. \A q \in Requests : f[q] \in Nat
    BY DEF PaidTypeOK, ProbeRecord
  <1> HIDE DEF f
  <1>2. Total(f, Requests) \in Nat
    BY <1>1, FiniteRequests, TotalNat
  <1> QED
    BY <1>2 DEF Committed, f

\* The committed total changes by what the row of one request changes.
LEMMA CommittedChange ==
    ASSUME PaidTypeOK, PaidTypeOK', NEW q \in Requests,
           \A p \in Requests \ {q} : probe'[p] = probe[p]
    PROVE  Committed' = Committed - probe[q].committed + probe'[q].committed
  <1> DEFINE f == [p \in Requests |-> probe[p].committed]
             g == [p \in Requests |-> probe'[p].committed]
  <1>1. \A p \in Requests : f[p] \in Int /\ g[p] \in Int /\ (p # q => f[p] = g[p])
    BY DEF PaidTypeOK, ProbeRecord
  <1>2. Committed = Total(f, Requests) /\ Committed' = Total(g, Requests)
    BY DEF Committed
  <1>3. f[q] = probe[q].committed /\ g[q] = probe'[q].committed
    OBVIOUS
  <1> HIDE DEF f, g
  <1>4. Total(g, Requests) = Total(f, Requests) - f[q] + g[q]
    BY <1>1, FiniteRequests, TotalUpdate
  <1> QED
    BY <1>2, <1>3, <1>4

\* What the rows of the guard may do in one step.
GuardEffect ==
    \/ charge' = charge /\ real' = real
    \/ \E q \in Requests :
          /\ \A p \in Requests \ {q} : charge'[p] = charge[p] /\ real'[p] = real[p]
          /\ \/ /\ charge[q].state = "none" /\ Affordable(q)
                /\ charge'[q] = [state |-> "reserved", exposure |-> Bound]
                /\ real' = real
             \/ /\ charge[q].state = "reserved"
                /\ charge'[q].state \in {"settled", "uncertain"}
                /\ charge'[q].state = "uncertain" => charge'[q].exposure = charge[q].exposure
                /\ charge'[q].exposure <= charge[q].exposure
                /\ real' = real
             \/ /\ charge[q].state = "reserved" /\ charge' = charge
                /\ \E amount \in Nat : real'[q] = real[q] + amount

\* Every step of a thread has one of the effects on the guard's rows.
LEMMA GuardSteps ==
    ASSUME PaidInv, PaidInv', NEW t \in Threads, Step(t) PROVE GuardEffect
  <1>1. ASSUME NEW q \in Requests, GuardReserve(t, q) PROVE GuardEffect
    BY <1>1 DEF GuardReserve, GuardEffect, PaidInv, PaidTypeOK
  <1>2. CASE GuardSettle(t)
    <2>1. PICK q \in Requests : Q(t) = q /\ ~At(t, "idle")
      BY <1>2, Busy DEF GuardSettle, At
    <2>2. charge[q].state = "reserved" /\ charge[q].exposure = Bound /\ RequestInv(q)
      BY <2>1 DEF PaidInv, ThreadInv, RequestInv
    <2>3. charge' = [charge EXCEPT ![q] = SettledCharge(probe[q])] /\ real' = real
      BY <1>2, <2>1 DEF GuardSettle
    <2>4. charge'[q] = SettledCharge(probe[q])
      BY <2>3 DEF PaidInv, PaidTypeOK
    <2>5. /\ SettledCharge(probe[q]).state \in {"settled", "uncertain"}
          /\ SettledCharge(probe[q]).state = "uncertain" =>
                SettledCharge(probe[q]).exposure = Bound
          /\ SettledCharge(probe[q]).exposure <= Bound
      <3>1. probe[q] \in ProbeRecord /\ real[q] \in Nat
        BY DEF PaidInv, PaidTypeOK
      <3> QED
        BY <2>2, <3>1, Constants DEF SettledCharge, RequestInv, Unanswered, ProbeRecord
    <2>6. \A p \in Requests \ {q} : charge'[p] = charge[p] /\ real'[p] = real[p]
      BY <2>3 DEF PaidInv, PaidTypeOK
    <2> QED
      BY <2>2, <2>3, <2>4, <2>5, <2>6 DEF GuardEffect
  <1>3. ASSUME NEW amount \in 0 .. MaxCost, Send(t, amount) PROVE GuardEffect
    <2>1. PICK q \in Requests : Q(t) = q /\ ~At(t, "idle")
      BY <1>3, Busy DEF Send, At
    <2>2. charge[q].state = "reserved"
      BY <2>1 DEF PaidInv, ThreadInv
    <2>3. /\ charge' = charge /\ real'[q] = real[q] + amount
          /\ \A p \in Requests \ {q} : real'[p] = real[p]
      BY <1>3, <2>1 DEF Send, PaidInv, PaidTypeOK
    <2>4. amount \in Nat
      BY Constants
    <2> QED
      BY <2>2, <2>3, <2>4 DEF GuardEffect
  <1>4. CASE UNCHANGED <<charge, real>>
    BY <1>4 DEF GuardEffect
  <1> QED
    BY <1>1, <1>2, <1>3, <1>4 DEF Step, ClaimRefused, Claim, Reuse, Publish, PublishRaises,
       Release, Reserve, ConnectAgain, PricesExpired, NotSent, Unsettled, AskAgain, Settle,
       Crash

\* Every step keeps the cap of every scope.
LEMMA CapsStep ==
    ASSUME PaidInv, PaidInv', ScopeCapsHold, [Next]_vars PROVE ScopeCapsHold'
  <1> SUFFICES ASSUME NEW s \in Scopes PROVE Exposure(Members[s])' <= ScopeCap[s]
    BY DEF ScopeCapsHold
  <1> DEFINE S == Members[s]
  <1>1. S \in SUBSET Requests /\ ScopeCap[s] \in Nat
    BY FiniteRequests
  <1>2. PaidTypeOK /\ PaidTypeOK'
    BY DEF PaidInv
  <1>3. Exposure(S) <= ScopeCap[s] /\ Exposure(S) \in Nat
    BY <1>1, <1>2, ExposureNat DEF ScopeCapsHold
  <1>4. CASE UNCHANGED vars
    <2>1. Exposure(S)' = Exposure(S)
      BY <1>4 DEF vars, Exposure
    <2> QED
      BY <1>3, <2>1
  <1>5. ASSUME NEW t \in Threads, Step(t) PROVE Exposure(S)' <= ScopeCap[s]
    <2>1. GuardEffect
      BY <1>5, GuardSteps
    <2>2. CASE charge' = charge
      <3>1. Exposure(S)' = Exposure(S)
        BY <2>2 DEF Exposure
      <3> QED
        BY <1>3, <3>1
    <2>3. ASSUME NEW q \in Requests,
                 \A p \in Requests \ {q} : charge'[p] = charge[p],
                 charge[q].state = "none" /\ Affordable(q),
                 charge'[q] = [state |-> "reserved", exposure |-> Bound]
          PROVE  Exposure(S)' <= ScopeCap[s]
      <3>1. charge[q].exposure = 0 /\ charge'[q].exposure = Bound /\ Bound \in Nat
        BY <2>3, Constants DEF PaidInv, RequestInv
      <3>2. q \in S => Exposure(S) + Bound <= ScopeCap[s]
        BY <2>3 DEF Affordable
      <3>3. Exposure(S)' = IF q \in S
                           THEN Exposure(S) - charge[q].exposure + charge'[q].exposure
                           ELSE Exposure(S)
        BY <1>1, <1>2, <2>3, ExposureChange
      <3> QED
        BY <1>1, <1>3, <3>1, <3>2, <3>3
    <2>4. ASSUME NEW q \in Requests,
                 \A p \in Requests \ {q} : charge'[p] = charge[p],
                 charge'[q].exposure <= charge[q].exposure
          PROVE  Exposure(S)' <= ScopeCap[s]
      <3>1. charge[q].exposure \in Nat /\ charge'[q].exposure \in Nat
        BY <1>2 DEF PaidTypeOK, ChargeRecord
      <3>2. Exposure(S)' = IF q \in S
                           THEN Exposure(S) - charge[q].exposure + charge'[q].exposure
                           ELSE Exposure(S)
        BY <1>1, <1>2, <2>4, ExposureChange
      <3> QED
        BY <1>1, <1>3, <2>4, <3>1, <3>2
    <2> QED
      BY <2>1, <2>2, <2>3, <2>4 DEF GuardEffect
  <1> QED
    BY <1>4, <1>5 DEF Next

\* The caps hold before any call.
LEMMA CapsInit == Init => ScopeCapsHold
  <1> SUFFICES ASSUME Init, NEW s \in Scopes PROVE Exposure(Members[s]) <= ScopeCap[s]
    BY DEF ScopeCapsHold
  <1> DEFINE f == [q \in Requests |-> charge[q].exposure]
             S == Members[s]
  <1>1. S \in SUBSET Requests /\ IsFiniteSet(S) /\ ScopeCap[s] \in Nat
    BY FiniteRequests
  <1>2. \A q \in S : f[q] = 0
    BY <1>1 DEF Init, NoCharge
  <1> HIDE DEF f, S
  <1>3. Total(f, S) = 0
    BY <1>1, <1>2, TotalZero
  <1> QED
    BY <1>1, <1>3 DEF Exposure, f, S

\* reserve and settle: every total the guard keeps (event, day, run, group) stays within
\* its own cap, for any requests, scopes and amounts.
THEOREM ScopeCaps == Spec => []ScopeCapsHold
  <1>1. PaidInv /\ PaidInv' /\ ScopeCapsHold /\ [Next]_vars => ScopeCapsHold'
    BY CapsStep
  <1> QED
    BY <1>1, CapsInit, PaidInductive, PTL DEF Spec

-----------------------------------------------------------------------------
(* The two ledgers implement the abstract one *)

\* The sums of the abstract ledger are these sums.
LEMMA GuardTotal == \A f, S : GuardLedger!Total(f, S) = Total(f, S)
  BY DEF GuardLedger!Total, GuardLedger!MapThenSumSet, GuardLedger!MapThenFoldSet,
         Total, MapThenSumSet, MapThenFoldSet

\* The sum of the abstract ledger is the sum of this module.
LEMMA ProbeTotal == \A f, S : ProbeLedger!Total(f, S) = Total(f, S)
  BY DEF ProbeLedger!Total, ProbeLedger!MapThenSumSet, ProbeLedger!MapThenFoldSet,
         Total, MapThenSumSet, MapThenFoldSet

\* The guard's total for the whole event.
LEMMA GuardSimulation ==
    ASSUME PaidInv, PaidInv', [Next]_vars PROVE [GuardLedger!Next]_(GuardLedger!lvars)
  <1> DEFINE f == [p \in Requests |-> charge[p].exposure]
             g == [p \in Requests |-> charge'[p].exposure]
             o == {p \in Requests : charge[p].state \in {"reserved", "uncertain"}}
             o2 == {p \in Requests : charge'[p].state \in {"reserved", "uncertain"}}
             cap == ScopeCap[Event]
             E == Exposure(Requests)
             E2 == Exposure(Requests)'
  <1>1. PaidTypeOK /\ PaidTypeOK'
    BY DEF PaidInv
  <1>2. E \in Nat /\ E2 \in Nat /\ cap \in Nat /\ Bound \in Nat
    <2>1. E \in Nat
      BY <1>1, ExposureNat
    <2>2. PaidTypeOK' => E2 \in Nat
      <3> DEFINE h == [q \in Requests |-> charge'[q].exposure]
      <3>1. PaidTypeOK' => \A q \in Requests : h[q] \in Nat
        BY DEF PaidTypeOK, ChargeRecord
      <3>2. E2 = Total(h, Requests)
        BY DEF Exposure
      <3> HIDE DEF h
      <3> QED
        BY <3>1, <3>2, FiniteRequests, TotalNat
    <2> QED
      BY <1>1, <2>1, <2>2, FiniteRequests, Constants
  <1>3. CASE charge' = charge /\ real' = real
    <2>1. UNCHANGED GuardLedger!lvars
      BY <1>3 DEF GuardLedger!lvars, Exposure
    <2> QED
      BY <2>1
  <1>4. ASSUME NEW q \in Requests,
               \A p \in Requests \ {q} : charge'[p] = charge[p],
               charge[q].state = "none" /\ Affordable(q),
               charge'[q] = [state |-> "reserved", exposure |-> Bound], real' = real
        PROVE  GuardLedger!Next
    <2>1. /\ charge[q].exposure = 0 /\ real[q] = 0
      BY <1>4 DEF PaidInv, RequestInv
    <2>2. E + Bound <= cap
      BY <1>4, FiniteRequests DEF Affordable
    <2>3. E2 = E + Bound
      <3>1. E2 = E - charge[q].exposure + charge'[q].exposure
        BY <1>1, <1>4, ExposureChange
      <3> QED
        BY <1>2, <1>4, <2>1, <3>1
    <2>4. g = [f EXCEPT ![q] = Bound]
      <3>1. charge'[q].exposure = Bound /\ \A p \in Requests \ {q} : g[p] = f[p]
        BY <1>4
      <3> QED
        BY <3>1
    <2>5. o2 = o \cup {q} /\ q \notin o
      BY <1>4
    <2>6. f[q] = 0
      BY <2>1
    <2>7. GuardLedger!Hold(q, Bound)
      BY <1>4, <2>1, <2>2, <2>3, <2>4, <2>5, <2>6 DEF GuardLedger!Hold
    <2>8. Bound \in 0 .. cap
      BY <1>2, <2>2
    <2> QED
      BY <2>7, <2>8 DEF GuardLedger!Next
  <1>5. ASSUME NEW q \in Requests,
               \A p \in Requests \ {q} : charge'[p] = charge[p],
               charge[q].state = "reserved",
               charge'[q].state \in {"settled", "uncertain"},
               charge'[q].state = "uncertain" => charge'[q].exposure = charge[q].exposure,
               charge'[q].exposure <= charge[q].exposure, real' = real
        PROVE  [GuardLedger!Next]_(GuardLedger!lvars)
    <2>1. E2 = E - charge[q].exposure + charge'[q].exposure
      BY <1>1, <1>5, ExposureChange
    <2>2. /\ charge[q].exposure \in Nat /\ charge'[q].exposure \in Nat
          /\ g \in [Requests -> Nat] /\ q \in o /\ o \subseteq Requests
      BY <1>1, <1>5 DEF PaidTypeOK, ChargeRecord
    <2>3. CASE charge'[q].state = "uncertain"
      <3>1. f = g /\ o2 = o /\ E2 = E
        BY <1>2, <1>5, <2>1, <2>2, <2>3
      <3>2. UNCHANGED GuardLedger!lvars
        BY <1>5, <3>1 DEF GuardLedger!lvars
      <3> QED
        BY <3>2
    <2>4. CASE charge'[q].state = "settled"
      <3>1. o2 = o \ {q}
        BY <1>5, <2>4
      <3>2. Total(f, {q}) = charge[q].exposure /\ Total(g, {q}) = charge'[q].exposure
        <4>1. f[q] = charge[q].exposure /\ g[q] = charge'[q].exposure
          OBVIOUS
        <4> HIDE DEF f, g
        <4> QED
          BY <2>2, <4>1, TotalOne
      <3>3. \A p \in Requests \ {q} : g[p] = f[p]
        BY <1>5
      <3>4. real[q] <= g[q] /\ g[q] <= f[q]
        <4>1. RequestInv(q)' /\ probe'[q] \in ProbeRecord
          BY DEF PaidInv, PaidTypeOK
        <4>2. real'[q] <= charge'[q].exposure
          BY <2>4, <4>1 DEF RequestInv, Unanswered, ProbeRecord, PaidInv, PaidTypeOK
        <4> QED
          BY <1>5, <4>2
      <3>5. E2 = E - Total(f, {q}) + Total(g, {q})
        BY <2>1, <3>2
      <3>6. GuardLedger!Settle({q})
        BY <1>5, <2>2, <3>1, <3>3, <3>4, <3>5, GuardTotal
           DEF GuardLedger!Settle
      <3> QED
        BY <2>2, <3>6 DEF GuardLedger!Next
    <2> QED
      BY <1>5, <2>3, <2>4
  <1>6. ASSUME NEW q \in Requests, \A p \in Requests \ {q} : real'[p] = real[p],
               charge[q].state = "reserved", charge' = charge,
               NEW amount \in Nat, real'[q] = real[q] + amount
        PROVE  GuardLedger!Next
    <2>1. /\ real[q] \in Nat /\ real'[q] <= Bound /\ charge[q].exposure = Bound /\ q \in o
      <3>1. /\ RequestInv(q) /\ RequestInv(q)' /\ probe'[q] \in ProbeRecord
            /\ real[q] \in Nat /\ real'[q] \in Nat /\ charge[q] \in ChargeRecord
        BY DEF PaidInv, PaidTypeOK
      <3> QED
        BY <1>6, <3>1, Constants DEF RequestInv, Unanswered, ProbeRecord
    <2>2. f[q] = Bound /\ amount \in 0 .. f[q] /\ real[q] + amount <= f[q]
      BY <1>2, <1>6, <2>1
    <2>3. real' = [real EXCEPT ![q] = @ + amount]
      BY <1>1, <1>6 DEF PaidTypeOK
    <2>4. E2 = E
      BY <1>6 DEF Exposure
    <2>5. GuardLedger!Charge(q, amount)
      BY <1>6, <2>1, <2>2, <2>3, <2>4 DEF GuardLedger!Charge
    <2> QED
      BY <2>2, <2>5 DEF GuardLedger!Next
  <1>7. CASE UNCHANGED vars
    BY <1>3, <1>7 DEF vars
  <1>8. ASSUME NEW t \in Threads, Step(t) PROVE [GuardLedger!Next]_(GuardLedger!lvars)
    <2>1. GuardEffect
      BY <1>8, GuardSteps
    <2> HIDE DEF f, g, o, o2, cap, E, E2
    <2> QED
      BY <2>1, <1>3, <1>4, <1>5, <1>6 DEF GuardEffect
  <1> QED
    BY <1>7, <1>8 DEF Next

\* What the rows of the call ledger may do in one step.
ProbeEffect ==
    \/ probe' = probe /\ real' = real
    \/ \E q \in Requests :
          /\ \A p \in Requests \ {q} : probe'[p] = probe[p] /\ real'[p] = real[p]
          /\ \/ /\ probe[q].state = "none" /\ Committed + Reservation <= Limit
                /\ probe'[q] = Row(Reservation, "null") /\ real' = real
             \/ /\ probe[q].state = "none"
                /\ probe'[q] = Row(0, "reused") /\ real' = real
             \/ /\ Unanswered(q)
                /\ probe'[q].receipt # "null" /\ real' = real
             \/ /\ Unanswered(q) /\ probe' = probe
                /\ \E amount \in Nat : real'[q] = real[q] + amount

\* Every step of a thread has one of the effects on the call ledger's rows.
LEMMA ProbeSteps ==
    ASSUME PaidInv, PaidInv', NEW t \in Threads, Step(t) PROVE ProbeEffect
  <1>1. CASE Reuse(t)
    <2>1. PICK q \in Requests : Q(t) = q
      BY <1>1, Busy DEF Reuse, At
    <2> QED
      BY <1>1, <2>1 DEF Reuse, ProbeEffect, PaidInv, PaidTypeOK
  <1>2. CASE Reserve(t)
    <2>1. PICK q \in Requests : Q(t) = q
      BY <1>2, Busy DEF Reserve, At
    <2>2. probe[q].state = "none"
      BY <1>2, <2>1 DEF Reserve, At, PaidInv, ThreadInv
    <2> QED
      BY <1>2, <2>1, <2>2 DEF Reserve, ProbeEffect, PaidInv, PaidTypeOK
  <1>3. ASSUME NEW why \in {"denied", "connect", "lost", "signal"}, NotSent(t, why)
        PROVE  ProbeEffect
    <2>1. PICK q \in Requests : Q(t) = q
      BY <1>3, Busy DEF NotSent, At
    <2>2. Unanswered(q)
      BY <1>3, <2>1 DEF NotSent, At, PaidInv, ThreadInv
    <2>3. /\ probe' = probe \/ probe' = [probe EXCEPT ![q] = Row(0, "invalid")]
          /\ real' = real
      BY <1>3, <2>1 DEF NotSent
    <2> QED
      BY <2>2, <2>3 DEF ProbeEffect, PaidInv, PaidTypeOK, Row
  <1>4. ASSUME NEW amount \in 0 .. MaxCost, Send(t, amount) PROVE ProbeEffect
    <2>1. PICK q \in Requests : Q(t) = q
      BY <1>4, Busy DEF Send, At
    <2>2. Unanswered(q)
      BY <1>4, <2>1 DEF Send, At, PaidInv, ThreadInv
    <2>3. /\ probe' = probe /\ real'[q] = real[q] + amount
          /\ \A p \in Requests \ {q} : real'[p] = real[p]
      BY <1>4, <2>1 DEF Send, PaidInv, PaidTypeOK
    <2>4. amount \in Nat
      BY Constants
    <2> QED
      BY <2>2, <2>3, <2>4 DEF ProbeEffect
  <1>5. ASSUME NEW valid \in BOOLEAN, Settle(t, valid) PROVE ProbeEffect
    <2>1. PICK q \in Requests : Q(t) = q
      BY <1>5, Busy DEF Settle, At
    <2>2. Unanswered(q)
      BY <1>5, <2>1 DEF Settle, At, PaidInv, ThreadInv
    <2>3. PICK receipt \in {"valid", "invalid"} :
              probe' = [probe EXCEPT ![q] = Row(th[t].spent + th[t].cost, receipt)]
      BY <1>5, <2>1 DEF Settle
    <2>4. probe'[q].receipt # "null" /\ \A p \in Requests \ {q} : probe'[p] = probe[p]
      BY <2>3 DEF PaidInv, PaidTypeOK, Row
    <2>5. real' = real
      BY <1>5 DEF Settle
    <2> QED
      BY <2>2, <2>4, <2>5 DEF ProbeEffect
  <1>6. CASE UNCHANGED <<probe, real>>
    BY <1>6 DEF ProbeEffect
  <1> QED
    BY <1>1, <1>2, <1>3, <1>4, <1>5, <1>6 DEF Step, GuardReserve, GuardSettle, ClaimRefused,
       Claim, Publish, PublishRaises, Release, ConnectAgain, PricesExpired, Unsettled,
       AskAgain, Crash

\* Every step is a step of the abstract ledger of calls, or leaves it alone.
LEMMA ProbeSimulation ==
    ASSUME PaidInv, PaidInv', [Next]_vars PROVE [ProbeLedger!Next]_(ProbeLedger!lvars)
  <1> DEFINE f == [p \in Requests |-> probe[p].committed]
             g == [p \in Requests |-> probe'[p].committed]
             o == {p \in Requests : probe[p].state = "row" /\ probe[p].receipt = "null"}
             o2 == {p \in Requests : probe'[p].state = "row" /\ probe'[p].receipt = "null"}
             C == Committed
             C2 == Committed'
  <1>1. PaidTypeOK /\ PaidTypeOK'
    BY DEF PaidInv
  <1>2. C \in Nat /\ Limit \in Nat /\ Reservation \in Nat
    BY <1>1, CommittedNat, FiniteRequests, Constants
  <1>3. CASE probe' = probe /\ real' = real
    <2>1. UNCHANGED ProbeLedger!lvars
      BY <1>3 DEF ProbeLedger!lvars, Committed
    <2> QED
      BY <2>1
  <1>4. ASSUME NEW q \in Requests,
               \A p \in Requests \ {q} : probe'[p] = probe[p],
               probe[q].state = "none" /\ Committed + Reservation <= Limit,
               probe'[q] = Row(Reservation, "null"), real' = real
        PROVE  ProbeLedger!Next
    <2>1. probe[q].committed = 0 /\ real[q] = 0
      BY <1>4 DEF PaidInv, RequestInv
    <2>2. /\ probe'[q].committed = Reservation
          /\ probe'[q].state = "row" /\ probe'[q].receipt = "null"
      BY <1>4 DEF Row
    <2>3. C2 = C + Reservation
      <3>1. C2 = C - probe[q].committed + probe'[q].committed
        BY <1>1, <1>4, CommittedChange
      <3> QED
        BY <1>2, <2>1, <2>2, <3>1
    <2>4. g = [f EXCEPT ![q] = Reservation]
      <3>1. \A p \in Requests \ {q} : g[p] = f[p]
        BY <1>4
      <3> QED
        BY <2>2, <3>1
    <2>5. o2 = o \cup {q} /\ q \notin o
      BY <1>4, <2>2
    <2>6. f[q] = 0
      BY <2>1
    <2>7. ProbeLedger!Hold(q, Reservation)
      BY <1>4, <2>1, <2>3, <2>4, <2>5, <2>6 DEF ProbeLedger!Hold
    <2>8. Reservation \in 0 .. Limit
      BY <1>2, <1>4
    <2> QED
      BY <2>7, <2>8 DEF ProbeLedger!Next
  <1>5. ASSUME NEW q \in Requests,
               \A p \in Requests \ {q} : probe'[p] = probe[p],
               probe[q].state = "none",
               probe'[q] = Row(0, "reused"), real' = real
        PROVE  UNCHANGED ProbeLedger!lvars
    <2>1. probe[q].committed = 0
      BY <1>5 DEF PaidInv, RequestInv
    <2>2. /\ probe'[q].committed = 0
          /\ probe'[q].state = "row" /\ probe'[q].receipt = "reused"
      BY <1>5 DEF Row
    <2>3. C2 = C
      <3>1. C2 = C - probe[q].committed + probe'[q].committed
        BY <1>1, <1>5, CommittedChange
      <3> QED
        BY <1>2, <2>1, <2>2, <3>1
    <2>4. g = f /\ o2 = o
      BY <1>5, <2>1, <2>2
    <2> QED
      BY <1>5, <2>3, <2>4 DEF ProbeLedger!lvars
  <1>6. ASSUME NEW q \in Requests,
               \A p \in Requests \ {q} : probe'[p] = probe[p],
               Unanswered(q), probe'[q].receipt # "null", real' = real
        PROVE  ProbeLedger!Next
    <2>1. C2 = C - probe[q].committed + probe'[q].committed
      BY <1>1, <1>6, CommittedChange
    <2>2. /\ probe[q].committed \in Nat /\ probe'[q].committed \in Nat
          /\ g \in [Requests -> Nat] /\ q \in o /\ o \subseteq Requests
      BY <1>1, <1>6 DEF PaidTypeOK, ProbeRecord, Unanswered
    <2>3. o2 = o \ {q}
      BY <1>6
    <2>4. Total(f, {q}) = probe[q].committed /\ Total(g, {q}) = probe'[q].committed
      <3>1. f[q] = probe[q].committed /\ g[q] = probe'[q].committed
        OBVIOUS
      <3> HIDE DEF f, g
      <3> QED
        BY <2>2, <3>1, TotalOne
    <2>5. \A p \in Requests \ {q} : g[p] = f[p]
      BY <1>6
    <2>6. real[q] <= g[q] /\ g[q] <= f[q]
      <3>1. RequestInv(q) /\ RequestInv(q)' /\ real[q] \in Nat
        BY DEF PaidInv, PaidTypeOK
      <3>2. probe'[q].committed = real[q] /\ real[q] <= Reservation
        BY <1>6, <3>1 DEF RequestInv
      <3>3. probe[q].committed = Reservation
        BY <1>6, <3>1 DEF RequestInv
      <3> QED
        BY <2>2, <3>1, <3>2, <3>3
    <2>7. C2 = C - Total(f, {q}) + Total(g, {q})
      BY <2>1, <2>4
    <2>8. ProbeLedger!Settle({q})
      BY <1>6, <2>2, <2>3, <2>5, <2>6, <2>7, ProbeTotal DEF ProbeLedger!Settle
    <2> QED
      BY <2>2, <2>8 DEF ProbeLedger!Next
  <1>7. ASSUME NEW q \in Requests, \A p \in Requests \ {q} : real'[p] = real[p],
               Unanswered(q), probe' = probe,
               NEW amount \in Nat, real'[q] = real[q] + amount
        PROVE  ProbeLedger!Next
    <2>1. /\ real[q] \in Nat /\ real'[q] <= Reservation
          /\ probe[q].committed = Reservation /\ q \in o
      <3>1. /\ RequestInv(q) /\ RequestInv(q)' /\ Unanswered(q)'
            /\ real[q] \in Nat /\ real'[q] \in Nat
        BY <1>7 DEF PaidInv, PaidTypeOK, Unanswered
      <3> QED
        BY <1>7, <3>1 DEF RequestInv, Unanswered
    <2>2. f[q] = Reservation /\ amount \in 0 .. f[q] /\ real[q] + amount <= f[q]
      BY <1>2, <1>7, <2>1
    <2>3. real' = [real EXCEPT ![q] = @ + amount]
      BY <1>1, <1>7 DEF PaidTypeOK
    <2>4. C2 = C
      BY <1>7 DEF Committed
    <2>5. ProbeLedger!Charge(q, amount)
      BY <1>7, <2>1, <2>2, <2>3, <2>4 DEF ProbeLedger!Charge
    <2> QED
      BY <2>2, <2>5 DEF ProbeLedger!Next
  <1>8. CASE UNCHANGED vars
    BY <1>3, <1>8 DEF vars
  <1>9. ASSUME NEW t \in Threads, Step(t) PROVE [ProbeLedger!Next]_(ProbeLedger!lvars)
    <2>1. ProbeEffect
      BY <1>9, ProbeSteps
    <2> HIDE DEF f, g, o, o2, C, C2
    <2> QED
      BY <2>1, <1>3, <1>4, <1>5, <1>6, <1>7 DEF ProbeEffect
  <1> QED
    BY <1>8, <1>9 DEF Next

\* Both abstract ledgers start in one of their initial states.
LEMMA LedgersInit == Init => GuardLedger!Init /\ ProbeLedger!Init
  <1> SUFFICES ASSUME Init PROVE GuardLedger!Init /\ ProbeLedger!Init
    OBVIOUS
  <1> DEFINE f == [p \in Requests |-> charge[p].exposure]
             g == [p \in Requests |-> probe[p].committed]
             zero == [p \in Requests |-> 0]
  <1>1. f = zero /\ g = zero /\ real = zero
    BY DEF Init, NoCharge, NoRow
  <1>2. /\ {p \in Requests : charge[p].state \in {"reserved", "uncertain"}} = {}
        /\ {p \in Requests : probe[p].state = "row" /\ probe[p].receipt = "null"} = {}
    BY DEF Init, NoCharge, NoRow
  <1>3. Total(zero, Requests) = 0
    <2>1. \A p \in Requests : zero[p] = 0
      OBVIOUS
    <2> HIDE DEF zero
    <2> QED
      BY <2>1, FiniteRequests, TotalZero
  <1>4. Exposure(Requests) = 0 /\ Committed = 0
    BY <1>1, <1>3 DEF Exposure, Committed
  <1>5. ScopeCap[Event] \in Nat /\ Limit \in Nat
    BY FiniteRequests
  <1> QED
    BY <1>1, <1>2, <1>4, <1>5 DEF GuardLedger!Init, ProbeLedger!Init

\* guarded, complete, _complete_reserved and _settle_never_sent: both ledgers of a paid call
\* implement the abstract ledger, so that every theorem about it is one about them.
THEOREM PaidLedgersImplement == Spec => ImplementsLedgers
  <1>1. PaidInv /\ PaidInv' /\ [Next]_vars => [GuardLedger!Next]_(GuardLedger!lvars)
    BY GuardSimulation
  <1>2. PaidInv /\ PaidInv' /\ [Next]_vars => [ProbeLedger!Next]_(ProbeLedger!lvars)
    BY ProbeSimulation
  <1> QED
    BY <1>1, <1>2, LedgersInit, PaidInductive, PTL
       DEF Spec, ImplementsLedgers, GuardImplementsLedger, ProbeImplementsLedger,
           GuardLedger!Spec, ProbeLedger!Spec
=============================================================================
