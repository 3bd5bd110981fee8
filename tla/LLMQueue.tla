-------------------------------- MODULE LLMQueue --------------------------------
(***************************************************************************)
(* The queue through which the pipeline runs of one process call the       *)
(* shared LLM provider (app/llm/queue.py): a FIFO semaphore, a sliding     *)
(* window of rate slots, and retries with exponential backoff.             *)
(*                                                                         *)
(* Time is discrete; an instant is kept as its age, capped at Window, the  *)
(* age at which it no longer counts.  One action is the code between two   *)
(* awaits.                                                                 *)
(***************************************************************************)
EXTENDS Naturals, Sequences, FiniteSetsExt

CONSTANTS
    Callers,        \* tasks that call the queue
    Rate,           \* rate_per_minute
    Concurrency,    \* max_concurrency
    Retries,        \* retries
    Backoff,        \* backoff_seconds, in ticks
    Window          \* the minute, in ticks

ASSUME QueueAssumption ==
    /\ Rate \in Nat \ {0} /\ Concurrency \in Nat \ {0} /\ Window \in Nat \ {0}
    /\ Retries \in Nat /\ Backoff \in Nat

VARIABLES
    pc,         \* where a caller is in run()
    waiters,    \* callers waiting for the semaphore, first come first
    slots,      \* _call_times, oldest first
    attempt,    \* the attempt a caller is at
    slept,      \* ticks a caller has slept in its backoff
    sent        \* history: requests sent to the provider in the last Window

vars == <<pc, waiters, slots, attempt, slept, sent>>

-----------------------------------------------------------------------------
Holds == {"slot", "call", "backoff"}    \* inside `async with self._semaphore`
Holders == {c \in Callers : pc[c] \in Holds}

TypeOK ==
    /\ pc \in [Callers -> {"idle", "queued"} \cup Holds]
    /\ waiters \in Seq(Callers)
    /\ slots \in Seq(0 .. Window)
    /\ attempt \in [Callers -> 0 .. Retries]
    /\ slept \in [Callers -> Nat]
    /\ sent \in Seq(0 .. Window)

Init ==
    /\ pc = [c \in Callers |-> "idle"]
    /\ waiters = <<>>
    /\ slots = <<>>
    /\ attempt = [c \in Callers |-> 0]
    /\ slept = [c \in Callers |-> 0]
    /\ sent = <<>>

\* backoff_seconds * (2**attempt), of the attempt that failed.
Sleep(c) == Backoff * 2 ^ (attempt[c] - 1)

\* Times are in order: those that no longer count come first.
Recent(times) ==
    LET first == Min({i \in DOMAIN times : times[i] < Window} \cup {Len(times) + 1})
    IN SubSeq(times, first, Len(times))

-----------------------------------------------------------------------------
(* run(): acquire the semaphore, or wait for it behind the others. *)
Enter(c) ==
    LET free == Cardinality(Holders) < Concurrency /\ waiters = <<>>
    IN /\ pc[c] = "idle"
       /\ pc' = [pc EXCEPT ![c] = IF free THEN "slot" ELSE "queued"]
       /\ waiters' = IF free THEN waiters ELSE Append(waiters, c)
       /\ UNCHANGED <<slots, attempt, slept, sent>>

\* Mutant of TakeSlot: the comparison lets one more call through.
TakeSlotOverRate(c) ==
    LET recent == Recent(slots)
    IN /\ pc[c] = "slot"
       /\ Len(recent) <= Rate
       /\ slots' = Append(recent, 0)
       /\ sent' = Append(sent, 0)
       /\ pc' = [pc EXCEPT ![c] = "call"]
       /\ UNCHANGED <<waiters, attempt, slept>>

(* _wait_for_rate_slot prunes, takes a slot, and the first attempt is sent.  *)
(* Without a free slot the caller sleeps and looks again: the action waits.  *)
TakeSlot(c) ==
    LET recent == Recent(slots)
    IN /\ pc[c] = "slot"
       /\ Len(recent) < Rate
       /\ slots' = Append(recent, 0)
       /\ sent' = Append(sent, 0)
       /\ pc' = [pc EXCEPT ![c] = "call"]
       /\ UNCHANGED <<waiters, attempt, slept>>

\* Mutant of Leave: the permit goes to the last waiter.
LeaveToLast(c) ==
    LET n == Len(waiters)
    IN /\ waiters' = IF n = 0 THEN waiters ELSE SubSeq(waiters, 1, n - 1)
       /\ pc' = [d \in Callers |->
                    IF d = c THEN "idle"
                    ELSE IF n # 0 /\ d = waiters[n] THEN "slot"
                    ELSE pc[d]]
       /\ attempt' = [attempt EXCEPT ![c] = 0]

\* Leave `async with`: the permit goes to the first waiter, if any.
Leave(c) ==
    /\ waiters' = IF waiters = <<>> THEN waiters ELSE Tail(waiters)
    /\ pc' = [d \in Callers |->
                 IF d = c THEN "idle"
                 ELSE IF waiters # <<>> /\ d = Head(waiters) THEN "slot"
                 ELSE pc[d]]
    /\ attempt' = [attempt EXCEPT ![c] = 0]

(* The client returns, or raises what is not retried (an invalid response). *)
Answer(c) ==
    /\ pc[c] = "call"
    /\ Leave(c)
    /\ UNCHANGED <<slots, slept, sent>>

\* Mutant of FailTransiently: one attempt too many.
FailOnceMore(c) ==
    /\ pc[c] = "call"
    /\ attempt[c] <= Retries
    /\ pc' = [pc EXCEPT ![c] = "backoff"]
    /\ attempt' = [attempt EXCEPT ![c] = @ + 1]
    /\ UNCHANGED <<waiters, slots, slept, sent>>

(* The client raises LLMTransientError with an attempt left: sleep, in the *)
(* semaphore.                                                              *)
FailTransiently(c) ==
    /\ pc[c] = "call"
    /\ attempt[c] < Retries
    /\ pc' = [pc EXCEPT ![c] = "backoff"]
    /\ attempt' = [attempt EXCEPT ![c] = @ + 1]
    /\ UNCHANGED <<waiters, slots, slept, sent>>

\* Mutant of GiveUp: the permit is not released when the last attempt fails.
GiveUpHolding(c) ==
    /\ pc[c] = "call"
    /\ attempt[c] = Retries
    /\ pc' = [pc EXCEPT ![c] = "idle"]
    /\ attempt' = [attempt EXCEPT ![c] = 0]
    /\ UNCHANGED <<waiters, slots, slept, sent>>

(* ... or with none left: last_error is raised to the caller. *)
GiveUp(c) ==
    /\ pc[c] = "call"
    /\ attempt[c] = Retries
    /\ Leave(c)
    /\ UNCHANGED <<slots, slept, sent>>

(* The retry is sent without a slot of its own. *)
Retry(c) ==
    /\ pc[c] = "backoff"
    /\ slept[c] >= Sleep(c)
    /\ sent' = Append(sent, 0)
    /\ pc' = [pc EXCEPT ![c] = "call"]
    /\ slept' = [slept EXCEPT ![c] = 0]
    /\ UNCHANGED <<waiters, slots, attempt>>

(* Time passes. *)
Tick ==
    LET Older(times) == [i \in DOMAIN times |->
                            IF times[i] < Window THEN times[i] + 1 ELSE times[i]]
    IN /\ slots' = Older(slots)
       /\ sent' = Recent(Older(sent))
       /\ slept' = [c \in Callers |-> IF pc[c] = "backoff" /\ slept[c] < Sleep(c)
                                      THEN slept[c] + 1 ELSE slept[c]]
       /\ UNCHANGED <<pc, waiters, attempt>>

-----------------------------------------------------------------------------
Proceed(c) ==
    \/ TakeSlot(c)
    \/ Answer(c) \/ FailTransiently(c) \/ GiveUp(c)
    \/ Retry(c)

Next == (\E c \in Callers : Enter(c) \/ Proceed(c)) \/ Tick

Spec == Init /\ [][Next]_vars

\* Sleeps end and a call of the client has a timeout.  Nobody has to call.
FairSpec ==
    /\ Spec
    /\ WF_vars(Tick)
    /\ \A c \in Callers : WF_vars(Proceed(c))

-----------------------------------------------------------------------------
\* The semaphore loses no permit on any way out and gives none twice: callers
\* wait only when every permit is held, each waits once, and the queue holds
\* exactly those who wait (async with self._semaphore).
PermitsExact ==
    /\ Cardinality(Holders) <= Concurrency
    /\ waiters # <<>> => Cardinality(Holders) = Concurrency
    /\ {waiters[i] : i \in DOMAIN waiters} = {c \in Callers : pc[c] = "queued"}
    /\ \A i, j \in DOMAIN waiters : waiters[i] = waiters[j] => i = j

\* What the rate limit amounts to: retries take no slot, so a window sees up to
\* 1 + Retries requests for each of its slots, and the retries of the callers
\* whose slot was taken just before it.
RequestsBounded == Len(sent) <= Rate * (1 + Retries) + Concurrency * Retries

\* Whoever waits for the semaphore is served, however the calls before fail.
EveryCallServed == \A c \in Callers : pc[c] = "queued" ~> pc[c] = "call"

\* Rate slots, retries and failures are invisible to who comes next: in front of
\* its callers the queue is a first-come-first-served server.
Server == INSTANCE FifoServer
    WITH Clients <- Callers, Capacity <- Concurrency, line <- waiters, serving <- Holders
ServesInOrder == Server!Spec
=============================================================================
