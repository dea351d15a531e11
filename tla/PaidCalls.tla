----------------------------- MODULE PaidCalls -----------------------------
(***************************************************************************)
(* One paid model call, from the spend guard around it to the transport    *)
(* below it: SpendGuard.guarded (adapters/local/spend_guard.py),           *)
(* OpenAIProbe.complete with its call ledger and transport attempts        *)
(* (adapters/local/openai.py) and the exact-response cache                 *)
(* (adapters/local/model_response_cache.py).                               *)
(*                                                                         *)
(* Guard, probe ledger and cache are three SQLite files, so a call is a    *)
(* chain of separate transactions with an HTTP exchange in the middle, and *)
(* the process may die between any two of them.  Several threads and       *)
(* processes work at once, the same request may be delivered again, and    *)
(* requests with the same cache key share one response.                    *)
(*                                                                         *)
(* Modelled with the transport, scheduler and response policies on; the    *)
(* amounts are small numbers and a response body is only valid or not.     *)
(***************************************************************************)
EXTENDS Integers, FiniteSets, Sums

CONSTANTS
    Threads,
    Requests,
    NoRequest,    \* no request
    KeyOf,        \* KeyOf[q]: the cache key, shared by requests with the same wire body
    Scopes,       \* the guard's totals: event, day, run and group
    Event,        \* the scope of the whole event
    Members,      \* Members[s]: the requests that scope s adds up
    ScopeCap,     \* ScopeCap[s]: its limit
    Bound,        \* what the guard reserves for a call
    Reservation,  \* reservation_usd of the call ledger
    Limit,        \* limit_usd of the call ledger
    MaxCost,      \* most that one response can cost (token_cost)
    MaxCrashes    \* bound: processes that die

ASSUME PaidAssumption ==
    /\ IsFiniteSet(Requests)
    /\ NoRequest \notin Requests
    /\ Members \in [Scopes -> SUBSET Requests]
    /\ Event \in Scopes /\ Members[Event] = Requests
    /\ ScopeCap \in [Scopes -> Nat]
    /\ {Bound, Reservation} \subseteq Nat \ {0}
    /\ {Limit, MaxCost, MaxCrashes} \subseteq Nat
    /\ 2 * MaxCost <= Reservation
    /\ Reservation <= Bound

VARIABLES
    th,       \* th[t]: program counter and local variables of a thread
    charge,   \* guard: charges table
    probe,    \* call ledger: probe_calls
    tries,    \* call ledger: states of the request's rows in probe_transport_attempts
    cache,    \* model_responses_v1
    real,     \* real[q]: what the provider has charged for q
    crashes

vars == <<th, charge, probe, tries, cache, real, crashes>>

-----------------------------------------------------------------------------
(* Records *)

ChargeRecord == [state : {"none", "reserved", "uncertain", "settled"}, exposure : Nat]

\* receipt is NULL, or says whether the response satisfied the schema (a call that was
\* proven not sent is "invalid"), or that a response was reused.
ProbeRecord == [state : {"none", "row"}, committed : Nat,
                receipt : {"null", "valid", "invalid", "reused"}]

TryState == {"never_sent", "response_received", "unknown"}
CacheRecord == [state : {"none", "pending", "published"}, owner : Requests \cup {NoRequest}]

Pc == {"idle", "claim", "reserve", "transport", "sent", "publish", "release", "finally"}
ThreadRecord == [pc : Pc, req : Requests \cup {NoRequest}, attempt : {0, 1},
                 retried : BOOLEAN, cost : Nat, spent : Nat]

NoCharge == [state |-> "none", exposure |-> 0]
NoRow == [state |-> "none", committed |-> 0, receipt |-> "null"]
Row(committed, receipt) == [state |-> "row", committed |-> committed, receipt |-> receipt]
NoEntry == [state |-> "none", owner |-> NoRequest]
IdleThread == [pc |-> "idle", req |-> NoRequest, attempt |-> 0, retried |-> FALSE,
               cost |-> 0, spent |-> 0]

Keys == {KeyOf[q] : q \in Requests}
Q(t) == th[t].req
At(t, pc) == th[t].pc = pc
\* Control passes to pc and the local variables of the call are gone.
Goto(t, pc) == th' = [th EXCEPT ![t] = [IdleThread EXCEPT !.pc = pc, !.req = Q(t)]]
Return(t) == th' = [th EXCEPT ![t] = IdleThread]

Init ==
    /\ th = [t \in Threads |-> IdleThread]
    /\ charge = [q \in Requests |-> NoCharge]
    /\ probe = [q \in Requests |-> NoRow]
    /\ tries = [q \in Requests |-> {}]
    /\ cache = [k \in Keys |-> NoEntry]
    /\ real = [q \in Requests |-> 0]
    /\ crashes = 0

-----------------------------------------------------------------------------
(* SpendGuard.guarded *)

Exposure(S) == Total([q \in Requests |-> charge[q].exposure], S)

AffordableMutant(q) == Exposure(Requests) + Bound <= ScopeCap[Event]

Affordable(q) ==
    \A s \in Scopes : q \in Members[s] => Exposure(Members[s]) + Bound <= ScopeCap[s]

\* A thread delivers a request.  reserve refuses a duplicate; with an exhausted budget the
\* thread polls while something is reserved, until a deadline, and then raises: nothing
\* changes in either case.
GuardReserve(t, q) ==
    /\ At(t, "idle")
    /\ charge[q].state = "none"
    /\ Affordable(q)
    /\ charge' = [charge EXCEPT ![q] = [state |-> "reserved", exposure |-> Bound]]
    /\ th' = [th EXCEPT ![t] = [IdleThread EXCEPT !.pc = "claim", !.req = q]]
    /\ UNCHANGED <<probe, tries, cache, real, crashes>>

\* The finally clause: what the call ledger says now decides what is released.
SettledChargeMutant(row) ==
    [state |-> "settled", exposure |-> IF row.receipt = "null" THEN 0 ELSE row.committed]

SettledCharge(row) ==
    IF row.state = "none" THEN [state |-> "settled", exposure |-> 0]
    ELSE IF row.receipt = "null" THEN [state |-> "uncertain", exposure |-> Bound]
    ELSE [state |-> "settled", exposure |-> row.committed]

GuardSettle(t) ==
    /\ At(t, "finally")
    /\ charge' = [charge EXCEPT ![Q(t)] = SettledCharge(probe[Q(t)])]
    /\ Return(t)
    /\ UNCHANGED <<probe, tries, cache, real, crashes>>

-----------------------------------------------------------------------------
(* OpenAIProbe.complete and ModelResponseCache *)

\* A row of the request, an owner that is not entitled any more, or a marker that stays
\* until the deadline ends the call here.
ClaimRefused(t) ==
    /\ At(t, "claim")
    /\ Goto(t, "finally")
    /\ UNCHANGED <<charge, probe, tries, cache, real, crashes>>

\* claim inserts the pending marker.
Claim(t) ==
    /\ At(t, "claim")
    /\ probe[Q(t)].state = "none"
    /\ cache[KeyOf[Q(t)]].state = "none"
    /\ cache' = [cache EXCEPT ![KeyOf[Q(t)]] = [state |-> "pending", owner |-> Q(t)]]
    /\ Goto(t, "reserve")
    /\ UNCHANGED <<charge, probe, tries, real, crashes>>

\* A published response is reused: a row without money.
Reuse(t) ==
    /\ At(t, "claim")
    /\ probe[Q(t)].state = "none"
    /\ cache[KeyOf[Q(t)]].state = "published"
    /\ probe' = [probe EXCEPT ![Q(t)] = Row(0, "reused")]
    /\ Goto(t, "finally")
    /\ UNCHANGED <<charge, tries, cache, real, crashes>>

\* publish; when it raises, the marker is kept.
Publish(t) ==
    /\ At(t, "publish")
    /\ cache[KeyOf[Q(t)]] = [state |-> "pending", owner |-> Q(t)]
    /\ cache' = [cache EXCEPT ![KeyOf[Q(t)]].state = "published"]
    /\ Goto(t, "finally")
    /\ UNCHANGED <<charge, probe, tries, real, crashes>>

PublishRaises(t) ==
    /\ At(t, "publish")
    /\ Goto(t, "release")
    /\ UNCHANGED <<charge, probe, tries, cache, real, crashes>>

\* release_unsent_or_invalid; its DELETE names the key only.
UnsentOrInvalidMutant(row) == row.receipt # "valid"

UnsentOrInvalid(row) == row.state = "none" \/ row.receipt = "invalid"

Release(t) ==
    /\ At(t, "release")
    /\ cache' = IF /\ UnsentOrInvalid(probe[Q(t)])
                   /\ cache[KeyOf[Q(t)]].state = "pending"
                THEN [cache EXCEPT ![KeyOf[Q(t)]] = NoEntry] ELSE cache
    /\ Goto(t, "finally")
    /\ UNCHANGED <<charge, probe, tries, real, crashes>>

-----------------------------------------------------------------------------
(* OpenAIProbe._complete_reserved and _post.  The rows of this request in the  *)
(* two tables are read and written by this thread only, so a step is what it   *)
(* does up to the next point where the provider, the cache or a crash matters. *)

Committed == Total([q \in Requests |-> probe[q].committed], Requests)

Reserve(t) ==
    /\ At(t, "reserve")
    /\ IF Committed + Reservation <= Limit
       THEN /\ probe' = [probe EXCEPT ![Q(t)] = Row(Reservation, "null")]
            /\ Goto(t, "transport")
       ELSE Goto(t, "release") /\ UNCHANGED probe
    /\ UNCHANGED <<charge, tries, cache, real, crashes>>

\* _finish_transport_attempt
Finish(q, state) == tries' = [tries EXCEPT ![q] = @ \cup {state}]

\* No connection: tried once more per call, unless the owner has lost its right to it.
ConnectAgain(t) ==
    /\ At(t, "transport")
    /\ ~th[t].retried
    /\ Finish(Q(t), "never_sent")
    /\ th' = [th EXCEPT ![t].retried = TRUE] \/ Goto(t, "release")
    /\ UNCHANGED <<charge, probe, cache, real, crashes>>

\* _settle_never_sent, with the attempt that was just finished, and the release after a
\* refused first admission.
ProvenUnsentMutant(t, why) == TRUE

ProvenUnsent(t, why) ==
    \/ tries[Q(t)] \subseteq {"never_sent"}
    \/ why = "denied" /\ th[t].attempt = 0 /\ ~th[t].retried

\* Refused by the scheduler ("denied"), no connection on the second try ("connect"), or
\* stopped before any byte was written: "lost" is the job's lease or a price list that ran
\* out during the first try, "signal" a control signal, which passes the handler that would
\* release the cache marker.
NotSent(t, why) ==
    /\ At(t, "transport")
    /\ why = "connect" => th[t].retried
    /\ Finish(Q(t), "never_sent")
    /\ probe' = IF ProvenUnsent(t, why)
                THEN [probe EXCEPT ![Q(t)] = Row(0, "invalid")] ELSE probe
    /\ Goto(t, IF why = "signal" THEN "finally" ELSE "release")
    /\ UNCHANGED <<charge, cache, real, crashes>>

\* The price list runs out before a post: the reservation stays as it is.
PricesExpired(t) ==
    /\ At(t, "transport")
    /\ Goto(t, "release")
    /\ UNCHANGED <<charge, probe, tries, cache, real, crashes>>

\* The request reaches the provider, which charges for it whether or not its answer
\* comes back.
Send(t, amount) ==
    /\ At(t, "transport")
    /\ real' = [real EXCEPT ![Q(t)] = @ + amount]
    /\ th' = [th EXCEPT ![t] = [@ EXCEPT !.pc = "sent", !.cost = amount]]
    /\ UNCHANGED <<charge, probe, tries, cache, crashes>>

\* No answer (an HTTP error, a lost connection, a control stop), or one that cannot be
\* priced: the whole reservation stays.
Unsettled(t, state) ==
    /\ At(t, "sent")
    /\ Finish(Q(t), state)
    /\ Goto(t, "release")
    /\ UNCHANGED <<charge, probe, cache, real, crashes>>

\* A response that violates the schema is asked for once more.
AskAgain(t) ==
    /\ At(t, "sent")
    /\ th[t].attempt = 0
    /\ Finish(Q(t), "response_received")
    /\ th' = [th EXCEPT ![t] = [@ EXCEPT !.pc = "transport", !.attempt = 1,
                                         !.spent = th[t].spent + th[t].cost, !.cost = 0]]
    /\ UNCHANGED <<charge, probe, cache, real, crashes>>

\* Receipt and cost of all responses, in one UPDATE.
SettleMutant(t, valid) ==
    /\ At(t, "sent")
    /\ valid \/ th[t].attempt = 1
    /\ Finish(Q(t), "response_received")
    /\ probe' = [probe EXCEPT ![Q(t)] = Row(th[t].spent + th[t].cost,
                                           IF valid THEN "valid" ELSE "invalid")]
    /\ Goto(t, "publish")
    /\ UNCHANGED <<charge, cache, real, crashes>>

Settle(t, valid) ==
    /\ At(t, "sent")
    /\ valid \/ th[t].attempt = 1
    /\ Finish(Q(t), "response_received")
    /\ probe' = [probe EXCEPT ![Q(t)] = Row(th[t].spent + th[t].cost,
                                           IF valid THEN "valid" ELSE "invalid")]
    /\ Goto(t, IF valid THEN "publish" ELSE "release")
    /\ UNCHANGED <<charge, cache, real, crashes>>

\* The process dies: no except or finally clause runs.
Crash(t) ==
    /\ ~At(t, "idle")
    /\ crashes < MaxCrashes
    /\ crashes' = crashes + 1
    /\ Return(t)
    /\ UNCHANGED <<charge, probe, tries, cache, real>>

-----------------------------------------------------------------------------
Step(t) ==
    \/ \E q \in Requests : GuardReserve(t, q)
    \/ GuardSettle(t)
    \/ ClaimRefused(t) \/ Claim(t) \/ Reuse(t)
    \/ Publish(t) \/ PublishRaises(t) \/ Release(t)
    \/ Reserve(t) \/ ConnectAgain(t) \/ PricesExpired(t)
    \/ \E why \in {"denied", "connect", "lost", "signal"} : NotSent(t, why)
    \/ \E amount \in 0 .. MaxCost : Send(t, amount)
    \/ \E state \in {"unknown", "response_received"} : Unsettled(t, state)
    \/ AskAgain(t)
    \/ \E valid \in BOOLEAN : Settle(t, valid)
    \/ Crash(t)

Next == \E t \in Threads : Step(t)

Spec == Init /\ [][Next]_vars

-----------------------------------------------------------------------------
(* Properties *)

\* Every row of the three databases and every thread is well formed.
PaidTypeOK ==
    /\ th \in [Threads -> ThreadRecord]
    /\ charge \in [Requests -> ChargeRecord]
    /\ probe \in [Requests -> ProbeRecord]
    /\ tries \in [Requests -> SUBSET TryState]
    /\ cache \in [Keys -> CacheRecord]
    /\ real \in [Requests -> Nat]
    /\ crashes \in Nat

\* _complete_reserved, _settle_never_sent and guarded: what the provider charged for a
\* request is counted in both ledgers, whatever was refused, retried, lost or killed; and
\* when a receipt was stored, the ledger has exactly the charge.
ChargesCovered ==
    \A q \in Requests :
        /\ real[q] <= probe[q].committed
        /\ real[q] <= charge[q].exposure
        /\ probe[q].receipt # "null" => probe[q].committed = real[q]

\* The pending marker and the row without a receipt fence a response: of the requests with
\* one cache key at most one may be at the provider, or may have been, without an answer.
SingleFlight ==
    \A p, q \in Requests :
        /\ KeyOf[p] = KeyOf[q]
        /\ probe[p].state = "row" /\ probe[p].receipt = "null"
        /\ probe[q].state = "row" /\ probe[q].receipt = "null"
        => p = q

\* A response is there to be reused only if the request it came from settled with a valid one.
ReusedResponseSettled ==
    \A k \in Keys : cache[k].state = "published" => probe[cache[k].owner].receipt = "valid"

\* The call ledger and the guard's event total, each as a ledger.
ProbeLedger == INSTANCE Ledger WITH
    Entries <- Requests,
    Cap <- Limit,
    held <- [q \in Requests |-> probe[q].committed],
    open <- {q \in Requests : probe[q].state = "row" /\ probe[q].receipt = "null"},
    total <- Committed

GuardLedger == INSTANCE Ledger WITH
    Entries <- Requests,
    Cap <- ScopeCap[Event],
    held <- [q \in Requests |-> charge[q].exposure],
    open <- {q \in Requests : charge[q].state \in {"reserved", "uncertain"}},
    total <- Exposure(Requests)

\* probe_calls implements the ledger: a call is counted before it can be charged, never
\* refunded below its charge, never charged after its receipt, and the limit holds.
ProbeImplementsLedger == ProbeLedger!Spec

\* So does the guard, for the whole event.
GuardImplementsLedger == GuardLedger!Spec

\* Both ledgers of a paid call keep the promises of the abstract one.
ImplementsLedgers == ProbeImplementsLedger /\ GuardImplementsLedger

\* reserve checks four totals at once and settle never raises one: each scope's exposure
\* stays within its own cap.
ScopeCapsHold == \A s \in Scopes : Exposure(Members[s]) <= ScopeCap[s]
=============================================================================
