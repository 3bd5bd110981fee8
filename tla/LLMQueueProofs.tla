----------------------------- MODULE LLMQueueProofs -----------------------------
(***************************************************************************)
(* The LLM queue is a first-come-first-served server whatever its calls    *)
(* do, and bounds the requests of a window, for any callers, rate, window, *)
(* number of retries and backoff.                                          *)
(***************************************************************************)
EXTENDS LLMQueue, FiniteSetTheorems, WellFoundedInduction, TLAPS

-----------------------------------------------------------------------------
(* The server: places and line stay exact however clients come and go. *)

\* The instance counts as the library does.
LEMMA SameCount ==
    ASSUME NEW S
    PROVE  (Server!IsFiniteSet(S) <=> IsFiniteSet(S)) /\ Server!Cardinality(S) = Cardinality(S)
<1>1. Server!IsFiniteSet(S) <=> IsFiniteSet(S)
  BY DEF Server!IsFiniteSet, IsFiniteSet
<1>2. Server!Cardinality(S) = Cardinality(S)
  BY DEF Server!Cardinality, Cardinality
<1> QED BY <1>1, <1>2

\* Server!PlacesExact as the library counts.
Exact ==
    /\ Holders \subseteq Callers /\ waiters \in Seq(Callers)
    /\ IsFiniteSet(Holders) /\ Cardinality(Holders) <= Concurrency
    /\ waiters # <<>> => Cardinality(Holders) = Concurrency
    /\ Server!InLine \cap Holders = {}
    /\ \A i, j \in DOMAIN waiters : waiters[i] = waiters[j] => i = j

LEMMA ExactIsPlacesExact ==
    (Exact <=> Server!PlacesExact) /\ (Exact' <=> (Server!PlacesExact)')
<1>1. Exact <=> Server!PlacesExact
  BY SameCount DEF Exact, Server!PlacesExact
<1>2. /\ Server!IsFiniteSet(Holders)' <=> IsFiniteSet(Holders')
      /\ Server!Cardinality(Holders)' = Cardinality(Holders')
  BY SameCount
<1>3. Exact' <=> (Server!PlacesExact)'
  BY <1>2 DEF Exact, Server!PlacesExact
<1> QED BY <1>1, <1>3

\* What a line is after a client joined it or the first one left.
LEMMA LineAppend ==
    ASSUME NEW S, NEW s \in Seq(S), NEW x \in S
    PROVE  /\ Append(s, x) \in Seq(S) /\ Append(s, x) # <<>>
           /\ DOMAIN Append(s, x) = 1 .. Len(s) + 1 /\ DOMAIN s = 1 .. Len(s)
           /\ Len(s) \in Nat
           /\ Append(s, x)[Len(s) + 1] = x
           /\ \A i \in 1 .. Len(s) : Append(s, x)[i] = s[i]
OBVIOUS

LEMMA LineTail ==
    ASSUME NEW S, NEW s \in Seq(S), s # <<>>
    PROVE  /\ Tail(s) \in Seq(S) /\ Head(s) \in S
           /\ Len(s) \in Nat \ {0} /\ DOMAIN s = 1 .. Len(s)
           /\ DOMAIN Tail(s) = 1 .. Len(s) - 1
           /\ Head(s) = s[1]
           /\ \A i \in 1 .. Len(s) - 1 : Tail(s)[i] = s[i + 1]
OBVIOUS

LEMMA ArriveKeepsPlaces ==
    ASSUME Exact, NEW c \in Callers, Server!Arrive(c) PROVE Exact'
<1> USE QueueAssumption DEF Exact
<1>1. CASE Server!Free
  <2>1. Holders' = Holders \cup {c} /\ waiters' = waiters /\ c \notin Holders /\ c \notin Server!InLine
    BY <1>1 DEF Server!Arrive
  <2>2. IsFiniteSet(Holders') /\ Cardinality(Holders') = Cardinality(Holders) + 1
    BY <2>1, FS_AddElement
  <2>3. Cardinality(Holders) \in Nat /\ Cardinality(Holders) < Concurrency /\ waiters = <<>>
    BY <1>1, FS_CardinalityType, SameCount DEF Server!Free
  <2> QED BY <2>1, <2>2, <2>3 DEF Server!InLine
<1>2. CASE ~Server!Free
  <2>1. Holders' = Holders /\ waiters' = Append(waiters, c) /\ c \notin Holders /\ c \notin Server!InLine
    BY <1>2 DEF Server!Arrive
  <2>2. Cardinality(Holders) = Concurrency
    BY <1>2, FS_CardinalityType, SameCount DEF Server!Free
  <2>3. Server!InLine' = Server!InLine \cup {c}
    BY <2>1, LineAppend DEF Server!InLine
  <2>4. \A i, j \in DOMAIN waiters' : waiters'[i] = waiters'[j] => i = j
    BY <2>1, LineAppend DEF Server!InLine
  <2> QED BY <2>1, <2>2, <2>3, <2>4, LineAppend
<1> QED BY <1>1, <1>2

LEMMA DepartKeepsPlaces ==
    ASSUME Exact, NEW c \in Callers, Server!Depart(c) PROVE Exact'
<1> USE QueueAssumption DEF Exact
<1>1. /\ c \in Holders /\ IsFiniteSet(Holders \ {c}) /\ Cardinality(Holders) \in Nat
      /\ Cardinality(Holders \ {c}) = Cardinality(Holders) - 1
  BY FS_RemoveElement, FS_CardinalityType DEF Server!Depart
<1>2. CASE waiters = <<>>
  <2>1. Holders' = Holders \ {c} /\ waiters' = waiters
    BY <1>2 DEF Server!Depart
  <2> QED BY <1>1, <1>2, <2>1 DEF Server!InLine
<1>3. CASE waiters # <<>>
  <2>1. Holders' = (Holders \ {c}) \cup {Head(waiters)} /\ waiters' = Tail(waiters)
    BY <1>3 DEF Server!Depart
  <2>2. Head(waiters) \in Server!InLine /\ Head(waiters) \notin Holders \ {c} /\ Head(waiters) \in Callers
    BY <1>3, LineTail DEF Server!InLine
  <2>3. IsFiniteSet(Holders') /\ Cardinality(Holders') = Cardinality(Holders)
    <3>1. Holders' = (Holders \ {c}) \cup {Head(waiters)} /\ Head(waiters) \notin Holders \ {c}
      BY <2>1, <2>2
    <3>2. /\ IsFiniteSet((Holders \ {c}) \cup {Head(waiters)})
          /\ Cardinality((Holders \ {c}) \cup {Head(waiters)}) = Cardinality(Holders \ {c}) + 1
      BY <1>1, <3>1, FS_AddElement
    <3> QED BY <1>1, <3>1, <3>2
  <2>4. /\ \A i \in DOMAIN waiters' : waiters'[i] # Head(waiters) /\ waiters'[i] \in Server!InLine
        /\ \A i, j \in DOMAIN waiters' : waiters'[i] = waiters'[j] => i = j
    <3>1. \A i \in DOMAIN waiters' : i \in DOMAIN waiters /\ i + 1 \in DOMAIN waiters /\ waiters'[i] = waiters[i + 1]
      BY <1>3, <2>1, LineTail
    <3>2. Head(waiters) = waiters[1] /\ 1 \in DOMAIN waiters /\ \A i \in DOMAIN waiters' : i + 1 # 1 /\ i \in Nat
      BY <1>3, <2>1, LineTail
    <3>3. \A i, j \in DOMAIN waiters' : i + 1 = j + 1 => i = j
      BY <3>2
    <3> HIDE DEF Exact
    <3>4. \A i, j \in DOMAIN waiters : waiters[i] = waiters[j] => i = j
      BY DEF Exact
    <3> QED BY <3>1, <3>2, <3>3, <3>4 DEF Server!InLine
  <2>5. Server!InLine' \cap Holders' = {}
    BY <2>1, <2>4 DEF Server!InLine
  <2> QED BY <1>1, <1>3, <2>1, <2>2, <2>3, <2>4, <2>5, LineTail
<1> QED BY <1>2, <1>3

LEMMA ServerStep ==
    ASSUME Server!PlacesExact, [Server!Next]_(Server!vars) PROVE (Server!PlacesExact)'
<1>1. Exact
  BY ExactIsPlacesExact
<1>2. CASE UNCHANGED Server!vars
  <2>1. Exact'
    BY <1>1, <1>2 DEF Server!vars, Exact, Server!InLine
  <2> QED BY <2>1, ExactIsPlacesExact
<1>3. ASSUME NEW c \in Callers, Server!Arrive(c) \/ Server!Depart(c)
      PROVE  (Server!PlacesExact)'
  <2>1. Exact'
    BY <1>1, <1>3, ArriveKeepsPlaces, DepartKeepsPlaces
  <2> QED BY <2>1, ExactIsPlacesExact
<1> QED BY <1>2, <1>3 DEF Server!Next

LEMMA ServerInit == Server!Init => Server!PlacesExact
BY FS_EmptySet, SameCount, QueueAssumption DEF Server!Init, Server!PlacesExact, Server!InLine

\* The places and the line stay exact however clients come and go
\* (async with self._semaphore).
THEOREM PlacesStayExact == Server!Spec => []Server!PlacesExact
<1>1. Server!PlacesExact /\ [Server!Next]_(Server!vars) => (Server!PlacesExact)'
  BY ServerStep
<1> QED BY ServerInit, <1>1, PTL DEF Server!Spec

-----------------------------------------------------------------------------
(* The queue: every call of it is an arrival, a departure or nothing. *)

Places == {"idle", "queued"} \cup Holds

\* A caller is queued iff it is in the line, so a place and the line never
\* disagree; with the server's own invariant that gives PermitsExact.
QueueInv ==
    /\ pc \in [Callers -> Places]
    /\ {waiters[i] : i \in DOMAIN waiters} = {c \in Callers : pc[c] = "queued"}
    /\ Server!PlacesExact

LEMMA InvGivesPermits == QueueInv => PermitsExact
BY SameCount DEF QueueInv, PermitsExact, Server!PlacesExact

LEMMA QueueInit == Init => QueueInv /\ Server!Init
<1> SUFFICES ASSUME Init PROVE QueueInv /\ Server!Init
  OBVIOUS
<1>1. Holders = {} /\ waiters = <<>>
  BY DEF Init, Holders, Holds
<1>2. Server!PlacesExact
  BY <1>1, FS_EmptySet, SameCount, QueueAssumption DEF Server!PlacesExact, Server!InLine
<1> QED BY <1>1, <1>2 DEF Init, QueueInv, Places, Server!Init

\* Entering is an arrival, and keeps the line and the places in step.
LEMMA EnterArrives ==
    ASSUME QueueInv, NEW c \in Callers, Enter(c)
    PROVE  /\ Server!Arrive(c)
           /\ pc' \in [Callers -> Places]
           /\ {waiters'[i] : i \in DOMAIN waiters'} = {d \in Callers : pc'[d] = "queued"}
<1> DEFINE free == Cardinality(Holders) < Concurrency /\ waiters = <<>>
<1>1. /\ pc[c] = "idle" /\ pc \in [Callers -> Places] /\ waiters \in Seq(Callers)
      /\ pc' = [pc EXCEPT ![c] = IF free THEN "slot" ELSE "queued"]
      /\ waiters' = IF free THEN waiters ELSE Append(waiters, c)
  BY DEF Enter, QueueInv, Server!PlacesExact
<1>2. c \notin Holders \cup Server!InLine
  BY <1>1 DEF QueueInv, Holders, Holds, Server!InLine
<1>3. Holders' = IF free THEN Holders \cup {c} ELSE Holders
  BY <1>1 DEF Holders, Holds
<1>4. pc' \in [Callers -> Places]
  BY <1>1 DEF Places, Holds
<1>5. {waiters'[i] : i \in DOMAIN waiters'} = {d \in Callers : pc'[d] = "queued"}
  <2>1. CASE free
    BY <1>1, <2>1 DEF QueueInv
  <2>2. CASE ~free
    <3>1. {waiters'[i] : i \in DOMAIN waiters'} = {waiters[i] : i \in DOMAIN waiters} \cup {c}
      BY <1>1, <2>2, LineAppend
    <3> QED BY <1>1, <2>2, <3>1 DEF QueueInv
  <2> QED BY <2>1, <2>2
<1>6. Server!Free <=> free
  BY SameCount DEF Server!Free
<1>7. Server!Arrive(c)
  BY <1>1, <1>2, <1>3, <1>6 DEF Server!Arrive
<1> QED BY <1>4, <1>5, <1>7

\* Leaving, on every way out, is a departure.
LEMMA LeaveDeparts ==
    ASSUME QueueInv, NEW c \in Callers, pc[c] = "call", Leave(c)
    PROVE  /\ Server!Depart(c)
           /\ pc' \in [Callers -> Places]
           /\ {waiters'[i] : i \in DOMAIN waiters'} = {d \in Callers : pc'[d] = "queued"}
<1>1. /\ pc \in [Callers -> Places] /\ waiters \in Seq(Callers) /\ c \in Holders
      /\ {waiters[i] : i \in DOMAIN waiters} = {d \in Callers : pc[d] = "queued"}
      /\ \A i, j \in DOMAIN waiters : waiters[i] = waiters[j] => i = j
  BY DEF QueueInv, Server!PlacesExact, Holders, Holds
<1>2. CASE waiters = <<>>
  <2>1. waiters' = waiters /\ pc' = [d \in Callers |-> IF d = c THEN "idle" ELSE pc[d]]
    BY <1>2 DEF Leave
  <2>2. Holders' = Holders \ {c}
    BY <1>1, <2>1 DEF Holders, Holds
  <2>3. Server!Depart(c)
    BY <1>1, <1>2, <2>1, <2>2 DEF Server!Depart
  <2> QED BY <1>1, <2>1, <2>3 DEF Places
<1>3. CASE waiters # <<>>
  <2> DEFINE h == Head(waiters)
  <2>1. /\ waiters' = Tail(waiters)
        /\ pc' = [d \in Callers |-> IF d = c THEN "idle" ELSE IF d = h THEN "slot" ELSE pc[d]]
    BY <1>3 DEF Leave
  <2>2. h = waiters[1] /\ 1 \in DOMAIN waiters /\ h \in Callers
    BY <1>1, <1>3, LineTail
  <2>3. pc[h] = "queued" /\ h # c
    BY <1>1, <2>2
  <2>4. Holders' = (Holders \ {c}) \cup {h}
    BY <1>1, <2>1, <2>2, <2>3 DEF Holders, Holds
  <2>5. \A i \in DOMAIN waiters' : /\ i \in DOMAIN waiters /\ i + 1 \in DOMAIN waiters
                                   /\ waiters'[i] = waiters[i + 1] /\ i \in Nat /\ i + 1 # 1
    BY <1>1, <1>3, <2>1, LineTail
  <2>6. \A i \in DOMAIN waiters : i # 1 => i - 1 \in DOMAIN waiters' /\ (i - 1) + 1 = i
    BY <1>1, <1>3, <2>1, LineTail
  <2>7. {waiters'[i] : i \in DOMAIN waiters'} = {waiters[i] : i \in DOMAIN waiters} \ {h}
    <3>1. \A i \in DOMAIN waiters' : waiters'[i] \in {waiters[k] : k \in DOMAIN waiters} \ {h}
      BY <1>1, <2>2, <2>5
    <3>2. \A x \in {waiters[k] : k \in DOMAIN waiters} \ {h} : \E i \in DOMAIN waiters' : waiters'[i] = x
      BY <2>2, <2>5, <2>6
    <3> QED BY <3>1, <3>2
  <2>8. {d \in Callers : pc'[d] = "queued"} = {d \in Callers : pc[d] = "queued"} \ {h}
    BY <1>1, <2>1, <2>3
  <2>9. Server!Depart(c)
    BY <1>1, <1>3, <2>1, <2>4 DEF Server!Depart
  <2>10. pc' \in [Callers -> Places]
    BY <1>1, <2>1 DEF Places, Holds
  <2> QED BY <1>1, <2>7, <2>8, <2>9, <2>10
<1> QED BY <1>2, <1>3

\* A step inside the queue that neither takes nor gives up a place.
LEMMA InsideStutters ==
    ASSUME QueueInv, NEW c \in Callers, NEW from \in Holds, NEW to \in Holds,
           pc[c] = from, pc' = [pc EXCEPT ![c] = to], waiters' = waiters
    PROVE  UNCHANGED Server!vars /\ QueueInv'
<1>1. Holders' = Holders /\ pc' \in [Callers -> Places]
  BY DEF QueueInv, Holders, Holds, Places
<1>2. {d \in Callers : pc'[d] = "queued"} = {d \in Callers : pc[d] = "queued"}
  BY DEF QueueInv, Holds
<1> QED BY <1>1, <1>2 DEF QueueInv, Server!vars, Server!PlacesExact, Server!InLine

LEMMA QueueStep ==
    ASSUME QueueInv, [Next]_vars PROVE QueueInv' /\ [Server!Next]_(Server!vars)
<1> DEFINE Kept == QueueInv' /\ [Server!Next]_(Server!vars)
<1>1. ASSUME UNCHANGED <<pc, waiters>> PROVE Kept
  BY <1>1 DEF QueueInv, Holders, Server!vars, Server!PlacesExact, Server!InLine
<1>2. ASSUME NEW c \in Callers, Server!Arrive(c) \/ Server!Depart(c),
             pc' \in [Callers -> Places],
             {waiters'[i] : i \in DOMAIN waiters'} = {d \in Callers : pc'[d] = "queued"}
      PROVE Kept
  <2>1. (Server!PlacesExact)'
    BY <1>2, ServerStep DEF QueueInv, Server!Next
  <2> QED BY <1>2, <2>1 DEF QueueInv, Server!Next
<1>3. ASSUME NEW c \in Callers, Enter(c) PROVE Kept
  BY <1>2, <1>3, EnterArrives
<1>4. ASSUME NEW c \in Callers, Answer(c) \/ GiveUp(c) PROVE Kept
  BY <1>2, <1>4, LeaveDeparts DEF Answer, GiveUp
<1>5. ASSUME NEW c \in Callers, TakeSlot(c) \/ FailTransiently(c) \/ Retry(c) PROVE Kept
  <2>1. CASE TakeSlot(c)
    <3>1. pc[c] = "slot" /\ pc' = [pc EXCEPT ![c] = "call"] /\ waiters' = waiters
      BY <2>1 DEF TakeSlot
    <3> QED BY <3>1, InsideStutters DEF Holds
  <2>2. CASE FailTransiently(c)
    <3>1. pc[c] = "call" /\ pc' = [pc EXCEPT ![c] = "backoff"] /\ waiters' = waiters
      BY <2>2 DEF FailTransiently
    <3> QED BY <3>1, InsideStutters DEF Holds
  <2>3. CASE Retry(c)
    <3>1. pc[c] = "backoff" /\ pc' = [pc EXCEPT ![c] = "call"] /\ waiters' = waiters
      BY <2>3 DEF Retry
    <3> QED BY <3>1, InsideStutters DEF Holds
  <2> QED BY <1>5, <2>1, <2>2, <2>3
<1>6. CASE Tick
  BY <1>1, <1>6 DEF Tick
<1>7. CASE UNCHANGED vars
  BY <1>1, <1>7 DEF vars
<1> QED BY <1>3, <1>4, <1>5, <1>6, <1>7 DEF Next, Proceed

LEMMA QueueInvariant == Spec => []QueueInv
BY QueueInit, QueueStep, PTL DEF Spec

\* No permit is lost or given twice on any way out of run().
THEOREM PermitsStayExact == Spec => []PermitsExact
BY QueueInvariant, InvGivesPermits, PTL

\* To its callers the queue is a first-come-first-served server: rate slots,
\* failures, backoff and retries do not change who is served next.
THEOREM QueueServesInOrder == Spec => ServesInOrder
<1>1. QueueInv /\ [Next]_vars => [Server!Next]_(Server!vars)
  BY QueueStep
<1>2. Init => Server!Init
  BY QueueInit
<1> QED BY <1>1, <1>2, QueueInvariant, PTL DEF Spec, ServesInOrder, Server!Spec

-----------------------------------------------------------------------------
(* The rate: what is sent in a window. *)

\* Retries that a caller may still send under the permit it holds.
Owes(c) == IF pc[c] = "call" THEN Retries - attempt[c]
           ELSE IF pc[c] = "backoff" THEN Retries + 1 - attempt[c]
           ELSE 0
Due == {p \in Callers \X (1 .. Retries) : p[2] <= Owes(p[1])}

Ordered(times) == \A i, j \in DOMAIN times : i <= j => times[j] <= times[i]

\* An instant that all the slots up to j precede and none of the requests up to i
\* follows.
Cut(requests, taken, i, j) ==
    \A x \in i + 1 .. Len(requests), y \in 1 .. j : requests[x] < taken[y]

\* After any instant no more is sent, nor can follow, than the slots taken since allow
\* and the retries that were due.
Paid(requests, taken, due) ==
    \A i \in 0 .. Len(requests), j \in 0 .. Len(taken) : Cut(requests, taken, i, j) =>
        Len(requests) - i + due <= (1 + Retries) * (Len(taken) - j) + Concurrency * Retries

\* All but so many slots that a window allows have expired.
InRate(taken) ==
    \E e \in 0 .. Len(taken) : /\ \A y \in 1 .. e : taken[y] = Window
                               /\ Len(taken) - e <= Rate

AttemptInv ==
    /\ attempt \in [Callers -> 0 .. Retries]
    /\ \A c \in Callers : /\ pc[c] \in {"idle", "queued", "slot"} => attempt[c] = 0
                          /\ pc[c] = "backoff" => attempt[c] # 0

RateInv ==
    /\ QueueInv /\ AttemptInv
    /\ slots \in Seq(0 .. Window) /\ InRate(slots)
    /\ sent \in Seq(0 .. Window) /\ Ordered(sent) /\ \A i \in DOMAIN sent : sent[i] < Window
    /\ Paid(sent, slots, Cardinality(Due))

LEMMA LeastNatural ==
    ASSUME NEW T, T \subseteq Nat, T # {}
    PROVE  \E n \in T : \A m \in T : n <= m
<1> DEFINE Less == {p \in Nat \X Nat : p[1] < p[2]}
<1>1. IsWellFoundedOn(Less, Nat)
  BY NatLessThanWellFounded DEF OpToRel
<1>2. \A m, n \in Nat : <<m, n>> \in Less <=> m < n
  OBVIOUS
<1> HIDE DEF Less
<1>3. PICK n \in T : \A m \in T : <<m, n>> \notin Less
  BY <1>1, WFMin
<1>4. \A m \in T : m \in Nat /\ n \in Nat /\ ~(m < n)
  BY <1>2, <1>3
<1> QED BY <1>3, <1>4

\* Pruning drops times that have expired, up to the first that has not.
LEMMA RecentDrops ==
    ASSUME NEW times \in Seq(0 .. Window)
    PROVE  /\ Recent(times) \in Seq(0 .. Window)
           /\ \E e \in 0 .. Len(times) :
                 /\ \A y \in 1 .. e : times[y] = Window
                 /\ e < Len(times) => times[e + 1] < Window
                 /\ Len(Recent(times)) = Len(times) - e
                 /\ \A k \in 1 .. Len(times) - e : Recent(times)[k] = times[k + e]
<1> USE QueueAssumption
<1> DEFINE n == Len(times)
           T == {i \in DOMAIN times : times[i] < Window} \cup {n + 1}
<1>1. n \in Nat /\ DOMAIN times = 1 .. n /\ \A i \in 1 .. n : times[i] \in 0 .. Window
  OBVIOUS
<1> HIDE DEF n
<1>2. T \subseteq 1 .. n + 1 /\ n + 1 \in T
  BY <1>1
<1> HIDE DEF T
<1>3. PICK first \in T : \A m \in T : first <= m
  <2>1. T \subseteq Nat /\ T # {}
    BY <1>1, <1>2
  <2> QED BY <2>1, LeastNatural
<1>4. Min(T) \in T /\ \A m \in T : Min(T) <= m
  <2>1. \E x \in T : \A y \in T : x =< y
    BY <1>3
  <2> QED BY <2>1 DEF Min
<1>5. PICK f \in 1 .. n + 1 : f = Min(T)
  BY <1>2, <1>4
<1>6. Recent(times) = SubSeq(times, f, n)
  BY <1>5 DEF Recent, T, n
<1>7. \A y \in 1 .. f - 1 : times[y] = Window
  <2> SUFFICES ASSUME NEW y \in 1 .. f - 1 PROVE times[y] = Window
    OBVIOUS
  <2>1. y \in 1 .. n /\ y \notin T
    BY <1>1, <1>4, <1>5
  <2>2. ~(times[y] < Window)
    BY <1>1, <2>1 DEF T
  <2> QED BY <1>1, <2>1, <2>2
<1>8. f <= n => times[f] < Window
  BY <1>1, <1>4, <1>5 DEF T
<1>9. /\ SubSeq(times, f, n) \in Seq(0 .. Window) /\ Len(SubSeq(times, f, n)) = n - (f - 1)
      /\ \A k \in 1 .. n - (f - 1) : SubSeq(times, f, n)[k] = times[k + (f - 1)]
  BY <1>1 DEF n
<1> DEFINE e == f - 1
<1>10. e \in 0 .. n /\ e + 1 = f /\ (e < n <=> f <= n)
  BY <1>1
<1> HIDE DEF e
<1> QED BY <1>1, <1>6, <1>7, <1>8, <1>9, <1>10 DEF e, n

\* Expired slots do not matter to what is paid for.
LEMMA PaidByRecent ==
    ASSUME NEW s \in Seq(0 .. Window), \A i \in DOMAIN s : s[i] < Window,
           NEW t \in Seq(0 .. Window), NEW due \in Nat, Paid(s, t, due)
    PROVE  Paid(s, Recent(t), due)
<1> USE QueueAssumption
<1>1. PICK e \in 0 .. Len(t) :
            /\ \A y \in 1 .. e : t[y] = Window
            /\ Len(Recent(t)) = Len(t) - e
            /\ \A k \in 1 .. Len(t) - e : Recent(t)[k] = t[k + e]
  BY RecentDrops
<1> DEFINE r == Recent(t)
<1> SUFFICES ASSUME NEW i \in 0 .. Len(s), NEW j \in 0 .. Len(r), Cut(s, r, i, j)
             PROVE  Len(s) - i + due <= (1 + Retries) * (Len(r) - j) + Concurrency * Retries
  BY DEF Paid
<1> HIDE DEF r
<1>2. /\ Len(s) \in Nat /\ Len(t) \in Nat /\ Len(r) = Len(t) - e
      /\ DOMAIN s = 1 .. Len(s) /\ \A x \in 1 .. Len(s) : s[x] \in 0 .. Window
      /\ \A k \in 1 .. Len(t) - e : r[k] = t[k + e]
  BY <1>1 DEF r
<1>3. j + e \in 0 .. Len(t) /\ Len(t) - (j + e) = Len(r) - j
  BY <1>2
<1>4. Cut(s, t, i, j + e)
  <2> SUFFICES ASSUME NEW x \in i + 1 .. Len(s), NEW y \in 1 .. j + e PROVE s[x] < t[y]
    BY DEF Cut
  <2>1. CASE y <= e
    <3>1. t[y] = Window /\ x \in DOMAIN s
      BY <1>1, <1>2, <2>1
    <3> QED BY <3>1
  <2>2. CASE y > e
    <3>1. y - e \in 1 .. j /\ y - e \in 1 .. Len(t) - e /\ (y - e) + e = y
      BY <1>2, <2>2
    <3>2. r[y - e] = t[y]
      BY <1>2, <3>1
    <3>3. s[x] < r[y - e]
      BY <3>1 DEF Cut
    <3> QED BY <3>2, <3>3
  <2>3. y <= e \/ y > e
    BY <1>2
  <2> QED BY <2>1, <2>2, <2>3
<1>5. Len(s) - i + due <= (1 + Retries) * (Len(t) - (j + e)) + Concurrency * Retries
  BY <1>3, <1>4 DEF Paid
<1> QED BY <1>3, <1>5

\* After the last request nothing is sent, and what is due is bounded anyway.
LEMMA PaidAtEnd ==
    ASSUME NEW due \in Nat, due <= Concurrency * Retries, NEW k \in Nat
    PROVE  due <= (1 + Retries) * k + Concurrency * Retries
<1>1. (1 + Retries) * k \in Nat /\ Concurrency * Retries \in Nat
  BY QueueAssumption
<1> QED BY <1>1

\* A request comes last.
LEMMA SentLast ==
    ASSUME NEW s \in Seq(0 .. Window)
    PROVE  /\ Append(s, 0) \in Seq(0 .. Window) /\ Len(s) \in Nat /\ DOMAIN s = 1 .. Len(s)
           /\ Len(Append(s, 0)) = Len(s) + 1 /\ DOMAIN Append(s, 0) = 1 .. Len(s) + 1
           /\ \A x \in 1 .. Len(s) : Append(s, 0)[x] = s[x] /\ s[x] \in 0 .. Window
           /\ Append(s, 0)[Len(s) + 1] = 0
<1> DEFINE Ages == 0 .. Window
<1>1. 0 \in Ages
  BY QueueAssumption
<1>2. s \in Seq(Ages)
  OBVIOUS
<1> HIDE DEF Ages
<1>3. /\ Append(s, 0) \in Seq(Ages) /\ Len(s) \in Nat /\ DOMAIN s = 1 .. Len(s)
      /\ Len(Append(s, 0)) = Len(s) + 1 /\ DOMAIN Append(s, 0) = 1 .. Len(s) + 1
      /\ \A x \in 1 .. Len(s) : Append(s, 0)[x] = s[x] /\ s[x] \in Ages
      /\ Append(s, 0)[Len(s) + 1] = 0
  BY <1>1, <1>2
<1> QED BY <1>3 DEF Ages

LEMMA OrderedSent ==
    ASSUME NEW s \in Seq(0 .. Window), Ordered(s), \A i \in DOMAIN s : s[i] < Window
    PROVE  Ordered(Append(s, 0)) /\ \A i \in DOMAIN Append(s, 0) : Append(s, 0)[i] < Window
<1> DEFINE S == Append(s, 0)
           n == Len(s)
<1>1. /\ n \in Nat /\ DOMAIN S = 1 .. n + 1 /\ DOMAIN s = 1 .. n
      /\ \A x \in 1 .. n : S[x] = s[x] /\ s[x] \in 0 .. Window
      /\ S[n + 1] = 0
  BY SentLast
<1> HIDE DEF S, n
<1>2. \A i \in 1 .. n + 1 : S[i] \in Nat /\ S[i] < Window /\ (i = n + 1 \/ i \in 1 .. n)
  BY <1>1, QueueAssumption
<1>3. Ordered(S)
  <2> SUFFICES ASSUME NEW i \in 1 .. n + 1, NEW j \in 1 .. n + 1, i <= j PROVE S[j] <= S[i]
    BY <1>1 DEF Ordered
  <2>1. CASE j = n + 1
    BY <1>1, <1>2, <2>1
  <2>2. CASE j # n + 1
    <3>1. i \in 1 .. n /\ j \in 1 .. n
      BY <1>1, <2>2
    <3> QED BY <1>1, <3>1 DEF Ordered
  <2> QED BY <2>1, <2>2
<1> QED BY <1>1, <1>2, <1>3 DEF S

\* A slot pays for its request and for the retries of it.
LEMMA PaidBySlot ==
    ASSUME NEW s \in Seq(0 .. Window), NEW t \in Seq(0 .. Window),
           NEW due \in Nat, Paid(s, t, due), NEW more \in Nat, more <= due + Retries,
           more <= Concurrency * Retries
    PROVE  Paid(Append(s, 0), Append(t, 0), more)
<1> USE QueueAssumption
<1> DEFINE S == Append(s, 0)
           T == Append(t, 0)
           n == Len(s)
           m == Len(t)
<1> SUFFICES ASSUME NEW i \in 0 .. Len(S), NEW j \in 0 .. Len(T), Cut(S, T, i, j)
             PROVE  Len(S) - i + more <= (1 + Retries) * (Len(T) - j) + Concurrency * Retries
  BY DEF Paid
<1>1. /\ n \in Nat /\ m \in Nat /\ Len(S) = n + 1 /\ Len(T) = m + 1
      /\ \A x \in 1 .. n : S[x] = s[x]
      /\ \A y \in 1 .. m : T[y] = t[y]
      /\ S[n + 1] = 0 /\ T[m + 1] = 0
  BY SentLast
<1> HIDE DEF S, T, n, m
<1>2. CASE i = n + 1
  <2>1. Len(T) - j \in Nat /\ Len(S) - i + more = more
    BY <1>1, <1>2
  <2> QED BY <2>1, PaidAtEnd
<1>3. CASE i # n + 1
  <2>1. i \in 0 .. n
    BY <1>1, <1>3
  <2>2. j \in 0 .. m
    <3>1. CASE j = m + 1
      <4>1. n + 1 \in i + 1 .. Len(S) /\ m + 1 \in 1 .. j
        BY <1>1, <2>1, <3>1
      <4>2. S[n + 1] < T[m + 1]
        BY <4>1 DEF Cut
      <4> QED BY <1>1, <4>2
    <3> QED BY <1>1, <3>1
  <2>3. Cut(s, t, i, j)
    <3> SUFFICES ASSUME NEW x \in i + 1 .. n, NEW y \in 1 .. j PROVE s[x] < t[y]
      BY DEF Cut, n
    <3>1. x \in 1 .. n /\ x \in i + 1 .. Len(S) /\ y \in 1 .. m
      BY <1>1, <2>1, <2>2
    <3>2. S[x] < T[y]
      BY <3>1 DEF Cut
    <3> QED BY <1>1, <3>1, <3>2
  <2>4. n - i + due <= (1 + Retries) * (m - j) + Concurrency * Retries
    BY <2>1, <2>2, <2>3 DEF Paid, n, m
  <2> DEFINE per == 1 + Retries
             rest == Concurrency * Retries
  <2>5. per \in Nat /\ rest \in Nat /\ per * ((m - j) + 1) = per * (m - j) + per
    BY <1>1, <2>2
  <2>6. Len(T) - j = (m - j) + 1 /\ Len(S) - i = (n - i) + 1 /\ per * (m - j) \in Nat
    <3>1. Len(T) - j = (m - j) + 1 /\ Len(S) - i = (n - i) + 1 /\ m - j \in Nat
      BY <1>1, <2>1, <2>2
    <3> QED BY <2>5, <3>1
  <2>7. n - i + due <= per * (m - j) + rest /\ per = 1 + Retries
    BY <2>4
  <2> HIDE DEF per, rest
  <2>8. (n - i) + 1 + more <= per * (m - j) + per + rest
    BY <1>1, <2>1, <2>5, <2>6, <2>7
  <2> QED BY <2>5, <2>6, <2>8 DEF per, rest
<1> QED BY <1>2, <1>3

\* A retry was due.
LEMMA PaidRetry ==
    ASSUME NEW s \in Seq(0 .. Window), NEW t \in Seq(0 .. Window),
           NEW due \in Nat, Paid(s, t, due), NEW less \in Nat, less + 1 <= due,
           due <= Concurrency * Retries
    PROVE  Paid(Append(s, 0), t, less)
<1> USE QueueAssumption
<1> DEFINE S == Append(s, 0)
           n == Len(s)
<1> SUFFICES ASSUME NEW i \in 0 .. Len(S), NEW j \in 0 .. Len(t), Cut(S, t, i, j)
             PROVE  Len(S) - i + less <= (1 + Retries) * (Len(t) - j) + Concurrency * Retries
  BY DEF Paid
<1>1. /\ n \in Nat /\ Len(t) \in Nat /\ Len(S) = n + 1 /\ \A x \in 1 .. n : S[x] = s[x]
  BY SentLast
<1> HIDE DEF S, n
<1>2. CASE i = n + 1
  <2>1. less <= Concurrency * Retries
    <3>1. Concurrency * Retries \in Nat
      OBVIOUS
    <3> QED BY <3>1
  <2>2. Len(t) - j \in Nat /\ Len(S) - i + less = less
    BY <1>1, <1>2
  <2> QED BY <2>1, <2>2, PaidAtEnd
<1>3. CASE i # n + 1
  <2>1. i \in 0 .. n
    BY <1>1, <1>3
  <2>2. Cut(s, t, i, j)
    <3> SUFFICES ASSUME NEW x \in i + 1 .. n, NEW y \in 1 .. j PROVE s[x] < t[y]
      BY DEF Cut, n
    <3>1. x \in 1 .. n /\ x \in i + 1 .. Len(S)
      BY <1>1, <2>1
    <3>2. S[x] < t[y]
      BY <3>1 DEF Cut
    <3> QED BY <1>1, <3>1, <3>2
  <2> DEFINE bound == (1 + Retries) * (Len(t) - j) + Concurrency * Retries
  <2>3. n - i + due <= bound /\ bound \in Nat
    BY <1>1, <2>1, <2>2 DEF Paid, n
  <2> HIDE DEF bound
  <2>4. Len(S) - i + less <= bound
    BY <1>1, <2>1, <2>3
  <2> QED BY <2>4 DEF bound
<1> QED BY <1>2, <1>3

\* Time passes: times grow older together, and requests leave the window.
Older(times) == [i \in DOMAIN times |-> IF times[i] < Window THEN times[i] + 1 ELSE times[i]]

LEMMA OlderTimes ==
    ASSUME NEW s \in Seq(0 .. Window)
    PROVE  /\ Older(s) \in Seq(0 .. Window) /\ Len(Older(s)) = Len(s) /\ Len(s) \in Nat
           /\ DOMAIN s = 1 .. Len(s) /\ DOMAIN Older(s) = 1 .. Len(s)
           /\ \A i \in 1 .. Len(s) :
                 /\ s[i] \in 0 .. Window
                 /\ Older(s)[i] = IF s[i] < Window THEN s[i] + 1 ELSE s[i]
<1> USE QueueAssumption
<1>1. Len(s) \in Nat /\ DOMAIN s = 1 .. Len(s) /\ \A i \in 1 .. Len(s) : s[i] \in 0 .. Window
  OBVIOUS
<1>2. \A i \in 1 .. Len(s) : (IF s[i] < Window THEN s[i] + 1 ELSE s[i]) \in 0 .. Window
  BY <1>1
<1>3. Older(s) = [i \in 1 .. Len(s) |-> IF s[i] < Window THEN s[i] + 1 ELSE s[i]]
  BY <1>1 DEF Older
<1> QED BY <1>1, <1>2, <1>3

LEMMA PaidLater ==
    ASSUME NEW s \in Seq(0 .. Window), NEW t \in Seq(0 .. Window), Ordered(s),
           \A i \in DOMAIN s : s[i] < Window, NEW due \in Nat, Paid(s, t, due)
    PROVE  LET S == Recent(Older(s))
           IN  /\ S \in Seq(0 .. Window) /\ Ordered(S)
               /\ \A i \in DOMAIN S : S[i] < Window
               /\ Paid(S, Older(t), due)
<1> USE QueueAssumption
<1> DEFINE S == Recent(Older(s))
           T == Older(t)
           n == Len(s)
           m == Len(t)
<1>1. /\ n \in Nat /\ DOMAIN s = 1 .. n /\ Older(s) \in Seq(0 .. Window) /\ Len(Older(s)) = n
      /\ \A i \in 1 .. n : s[i] \in 0 .. Window /\ s[i] < Window /\ Older(s)[i] = s[i] + 1
  BY OlderTimes
<1>2. /\ m \in Nat /\ Len(T) = m
      /\ \A i \in 1 .. m : t[i] \in 0 .. Window
                           /\ T[i] = IF t[i] < Window THEN t[i] + 1 ELSE t[i]
  BY OlderTimes
<1>3. /\ S \in Seq(0 .. Window)
      /\ \E e \in 0 .. n : /\ e < n => Older(s)[e + 1] < Window
                           /\ Len(S) = n - e
                           /\ \A k \in 1 .. n - e : S[k] = Older(s)[k + e]
  <2> DEFINE older == Older(s)
  <2>1. older \in Seq(0 .. Window) /\ Len(older) = n
    BY <1>1
  <2>2. S = Recent(older)
    OBVIOUS
  <2> HIDE DEF older, S
  <2>3. /\ Recent(older) \in Seq(0 .. Window)
        /\ \E e \in 0 .. Len(older) : /\ e < Len(older) => older[e + 1] < Window
                                      /\ Len(Recent(older)) = Len(older) - e
                                      /\ \A k \in 1 .. Len(older) - e : Recent(older)[k] = older[k + e]
    BY <2>1, RecentDrops
  <2> QED BY <2>1, <2>2, <2>3 DEF older
<1>4. PICK e \in 0 .. n : /\ e < n => Older(s)[e + 1] < Window
                          /\ Len(S) = n - e
                          /\ \A k \in 1 .. n - e : S[k] = Older(s)[k + e]
  BY <1>3
<1>5. DOMAIN S = 1 .. n - e
  BY <1>3, <1>4
<1> HIDE DEF S, T, n, m
<1>6. \A k \in 1 .. n - e : /\ k + e \in 1 .. n /\ S[k] = s[k + e] + 1
                           /\ s[k + e] \in Nat /\ S[k] \in Nat
  <2> SUFFICES ASSUME NEW k \in 1 .. n - e
               PROVE  /\ k + e \in 1 .. n /\ S[k] = s[k + e] + 1
                      /\ s[k + e] \in Nat /\ S[k] \in Nat
    OBVIOUS
  <2>1. k + e \in 1 .. n
    BY <1>1
  <2>2. S[k] = Older(s)[k + e]
    BY <1>4
  <2>3. s[k + e] \in Nat /\ Older(s)[k + e] = s[k + e] + 1
    BY <1>1, <2>1
  <2> QED BY <2>1, <2>2, <2>3
<1>7. Ordered(S)
  <2> SUFFICES ASSUME NEW i \in 1 .. n - e, NEW j \in 1 .. n - e, i <= j PROVE S[j] <= S[i]
    BY <1>5 DEF Ordered
  <2>1. i + e \in 1 .. n /\ j + e \in 1 .. n /\ i + e <= j + e
    BY <1>1, <1>6
  <2>2. s[j + e] <= s[i + e]
    BY <1>1, <2>1 DEF Ordered
  <2> QED BY <1>1, <1>6, <2>1, <2>2
<1>8. \A i \in DOMAIN S : S[i] < Window
  <2> SUFFICES ASSUME NEW i \in 1 .. n - e PROVE S[i] < Window
    BY <1>5
  <2>1. 1 \in 1 .. n - e /\ 1 <= i /\ e < n /\ e + 1 \in 1 .. n /\ 1 + e = e + 1
    BY <1>1
  <2>2. S[1] < Window
    BY <1>1, <1>4, <1>6, <2>1
  <2>3. S[i] <= S[1]
    BY <1>5, <1>7, <2>1 DEF Ordered
  <2>4. S[i] \in Nat /\ S[1] \in Nat
    BY <1>1, <1>6, <2>1
  <2> QED BY <2>2, <2>3, <2>4
<1>9. Paid(S, T, due)
  <2> SUFFICES ASSUME NEW i \in 0 .. Len(S), NEW j \in 0 .. Len(T), Cut(S, T, i, j)
               PROVE  Len(S) - i + due <= (1 + Retries) * (Len(T) - j) + Concurrency * Retries
    BY DEF Paid
  <2>1. i + e \in 0 .. n /\ j \in 0 .. m /\ n - (i + e) = Len(S) - i
    BY <1>1, <1>2, <1>4
  <2>2. Cut(s, t, i + e, j)
    <3> SUFFICES ASSUME NEW x \in i + e + 1 .. n, NEW y \in 1 .. j PROVE s[x] < t[y]
      BY DEF Cut, n
    <3>0. n \in Nat /\ m \in Nat /\ Len(S) = n - e /\ i \in 0 .. n - e /\ j \in 0 .. m
      BY <1>1, <1>2, <1>4
    <3>1. /\ x - e \in i + 1 .. Len(S) /\ x - e \in 1 .. n - e /\ (x - e) + e = x
          /\ x \in 1 .. n /\ y \in 1 .. m
      BY <3>0
    <3>2. S[x - e] < T[y]
      BY <3>1 DEF Cut
    <3>3. S[x - e] = s[x] + 1 /\ s[x] \in Nat /\ t[y] \in Nat
      <4>1. \A k \in 1 .. n - e : S[k] = s[k + e] + 1 /\ s[k + e] \in Nat
        BY <1>6
      <4>2. S[x - e] = s[(x - e) + e] + 1 /\ s[(x - e) + e] \in Nat
        BY <3>1, <4>1
      <4>3. t[y] \in Nat
        BY <1>2, <3>1
      <4> QED BY <3>1, <4>2, <4>3
    <3>4. T[y] <= t[y] + 1 /\ T[y] \in Nat
      <4>1. T[y] = IF t[y] < Window THEN t[y] + 1 ELSE t[y]
        BY <1>2, <3>1
      <4>2. T[y] = t[y] \/ T[y] = t[y] + 1
        BY <4>1
      <4>3. t[y] \in Nat
        BY <3>3
      <4> QED BY ONLY <4>2, <4>3
    <3>5. PICK a \in Nat, b \in Nat, c \in Nat : a = s[x] /\ b = t[y] /\ c = T[y]
      BY ONLY <3>3, <3>4
    <3>6. a + 1 < c /\ c <= b + 1
      BY ONLY <3>2, <3>3, <3>4, <3>5
    <3>7. a < b
      BY ONLY <3>6, a \in Nat, b \in Nat, c \in Nat
    <3> QED BY ONLY <3>5, <3>7
  <2>3. n - (i + e) + due <= (1 + Retries) * (m - j) + Concurrency * Retries
    BY <2>1, <2>2 DEF Paid, n, m
  <2> QED BY <1>2, <2>1, <2>3
<1> QED BY <1>3, <1>7, <1>8, <1>9 DEF S, T

\* Slots in the window: pruning forgets the others, and one is taken below the rate.
LEMMA InRateTaken ==
    ASSUME NEW t \in Seq(0 .. Window), Len(Recent(t)) < Rate
    PROVE  InRate(Append(Recent(t), 0))
<1> DEFINE r == Recent(t)
<1>1. r \in Seq(0 .. Window)
  BY RecentDrops
<1> HIDE DEF r
<1>2. Len(r) \in Nat /\ Len(Append(r, 0)) = Len(r) + 1
  BY <1>1, SentLast
<1>3. Len(Append(r, 0)) - 0 <= Rate /\ 0 \in 0 .. Len(Append(r, 0))
  BY <1>2, QueueAssumption DEF r
<1> QED BY <1>3 DEF InRate, r

LEMMA InRateLater ==
    ASSUME NEW t \in Seq(0 .. Window), InRate(t) PROVE InRate(Older(t))
<1>1. PICK e \in 0 .. Len(t) : (\A y \in 1 .. e : t[y] = Window) /\ Len(t) - e <= Rate
  BY DEF InRate
<1>2. Len(t) \in Nat /\ Len(Older(t)) = Len(t)
      /\ \A i \in 1 .. Len(t) : Older(t)[i] = IF t[i] < Window THEN t[i] + 1 ELSE t[i]
  BY OlderTimes
<1>3. \A y \in 1 .. e : Older(t)[y] = Window
  BY <1>1, <1>2, QueueAssumption
<1> QED BY <1>1, <1>2, <1>3 DEF InRate

-----------------------------------------------------------------------------
(* What is due follows the callers that hold a permit. *)

LEMMA DueBounded ==
    ASSUME QueueInv, AttemptInv
    PROVE  /\ IsFiniteSet(Due) /\ Cardinality(Due) \in Nat
           /\ Cardinality(Due) <= Concurrency * Retries
<1> DEFINE n == Cardinality(Holders)
<1>1. IsFiniteSet(Holders) /\ n <= Concurrency
  BY SameCount DEF QueueInv, Server!PlacesExact
<1>2. n \in Nat
  BY <1>1, FS_CardinalityType
<1>3. IsFiniteSet(1 .. Retries) /\ Cardinality(1 .. Retries) = Retries /\ Retries \in Nat
  BY FS_Interval, QueueAssumption
<1>4. IsFiniteSet(Holders \X (1 .. Retries)) /\ Cardinality(Holders \X (1 .. Retries)) = n * Retries
  BY <1>1, <1>3, FS_Product
<1>5. Due \subseteq Holders \X (1 .. Retries)
  BY DEF Due, Owes, Holders, Holds
<1>6. IsFiniteSet(Due) /\ Cardinality(Due) <= n * Retries
  BY <1>4, <1>5, FS_Subset
<1>7. Cardinality(Due) \in Nat
  BY <1>6, FS_CardinalityType
<1> HIDE DEF n
<1>8. n * Retries <= Concurrency * Retries /\ n * Retries \in Nat /\ Concurrency * Retries \in Nat
  <2>1. PICK k \in Nat : Concurrency = n + k
    <3>1. Concurrency - n \in Nat /\ Concurrency = n + (Concurrency - n)
      BY <1>1, <1>2, QueueAssumption
    <3> QED BY <3>1
  <2>2. Concurrency * Retries = n * Retries + k * Retries /\ k * Retries \in Nat /\ n * Retries \in Nat
    BY <1>2, <1>3, <2>1
  <2> QED BY <2>2
<1> QED BY <1>6, <1>7, <1>8

\* A slot makes its caller's retries due; sending one of them settles it.
LEMMA DueBySlot ==
    ASSUME QueueInv, AttemptInv, NEW c \in Callers, Owes(c) = 0, Owes(c)' = Retries,
           \A d \in Callers \ {c} : Owes(d)' = Owes(d)
    PROVE  Cardinality(Due') <= Cardinality(Due) + Retries
<1> DEFINE mine == {c} \X (1 .. Retries)
<1>1. IsFiniteSet(1 .. Retries) /\ Cardinality(1 .. Retries) = Retries /\ Retries \in Nat
  BY FS_Interval, QueueAssumption
<1>2. IsFiniteSet({c}) /\ Cardinality({c}) = 1
  BY FS_Singleton
<1>3. IsFiniteSet(mine) /\ Cardinality(mine) = 1 * Retries
  <2>1. /\ IsFiniteSet({c} \X (1 .. Retries))
        /\ Cardinality({c} \X (1 .. Retries)) = Cardinality({c}) * Cardinality(1 .. Retries)
    BY <1>1, <1>2, FS_Product
  <2> QED BY <1>1, <1>2, <2>1
<1>4. Due' = Due \cup mine /\ Due \cap mine = {}
  BY <1>1 DEF Due
<1>5. IsFiniteSet(Due) /\ Cardinality(Due) \in Nat
  BY DueBounded
<1> HIDE DEF mine
<1>6. Cardinality(Due \cup mine) = Cardinality(Due) + Cardinality(mine) - Cardinality(Due \cap mine)
  BY <1>3, <1>5, FS_Union
<1>7. Cardinality(Due \cap mine) = 0
  BY <1>4, FS_EmptySet
<1> QED BY <1>1, <1>3, <1>4, <1>5, <1>6, <1>7

LEMMA DueRetried ==
    ASSUME QueueInv, AttemptInv, NEW c \in Callers, Owes(c) \in 1 .. Retries,
           Owes(c)' = Owes(c) - 1, \A d \in Callers \ {c} : Owes(d)' = Owes(d)
    PROVE  Cardinality(Due') + 1 = Cardinality(Due)
<1>1. <<c, Owes(c)>> \in Due /\ Retries \in Nat
  BY QueueAssumption DEF Due
<1>2. Due' = Due \ {<<c, Owes(c)>>}
  <2>1. \A i \in 1 .. Retries : i <= Owes(c) - 1 <=> i <= Owes(c) /\ i # Owes(c)
    BY <1>1
  <2>2. \A p \in Callers \X (1 .. Retries) :
            p[2] <= Owes(p[1])' <=> p[2] <= Owes(p[1]) /\ p # <<c, Owes(c)>>
    BY <2>1
  <2> QED BY <2>2 DEF Due
<1>3. IsFiniteSet(Due) /\ Cardinality(Due) \in Nat
  BY DueBounded
<1>4. Cardinality(Due \ {<<c, Owes(c)>>}) = Cardinality(Due) - 1
  BY <1>1, <1>3, FS_RemoveElement
<1> QED BY <1>2, <1>3, <1>4

\* Who waits, enters or leaves owes nothing; who is at a call or sleeps before a retry
\* owes no more than the retries.
LEMMA OwesType ==
    ASSUME QueueInv, AttemptInv, NEW c \in Callers
    PROVE  /\ attempt[c] \in 0 .. Retries /\ Retries \in Nat /\ Owes(c) \in 0 .. Retries
           /\ pc[c] \notin {"call", "backoff"} => Owes(c) = 0
BY QueueAssumption DEF QueueInv, AttemptInv, Owes

LEMMA RateInit == Init => RateInv
<1> SUFFICES ASSUME Init PROVE RateInv
  OBVIOUS
<1>1. QueueInv
  BY QueueInit
<1>2. AttemptInv
  BY QueueAssumption DEF Init, AttemptInv
<1>3. slots = <<>> /\ sent = <<>> /\ Len(slots) = 0 /\ Len(sent) = 0 /\ DOMAIN sent = {}
  BY DEF Init
<1>4. InRate(slots)
  BY <1>3, QueueAssumption DEF InRate
<1>5. Paid(sent, slots, Cardinality(Due))
  <2>1. Cardinality(Due) \in Nat /\ Cardinality(Due) <= Concurrency * Retries
    BY <1>1, <1>2, DueBounded
  <2>2. \A k \in Nat : Cardinality(Due) <= (1 + Retries) * k + Concurrency * Retries
    BY <2>1, PaidAtEnd
  <2> HIDE DEF Due
  <2>3. \A i \in 0 .. Len(sent), j \in 0 .. Len(slots) :
            Len(sent) - i + Cardinality(Due) = Cardinality(Due) /\ Len(slots) - j = 0
    BY <1>3, <2>1
  <2> QED BY <2>2, <2>3 DEF Paid
<1>6. sent \in Seq(0 .. Window) /\ slots \in Seq(0 .. Window) /\ Ordered(sent)
  BY <1>3 DEF Ordered
<1> QED BY <1>1, <1>2, <1>3, <1>4, <1>5, <1>6 DEF RateInv

\* Fewer due leave what is paid for paid.
LEMMA PaidFewer ==
    ASSUME NEW s \in Seq(0 .. Window), NEW t \in Seq(0 .. Window), NEW due \in Nat,
           Paid(s, t, due), NEW less \in Nat, less <= due
    PROVE  Paid(s, t, less)
<1> SUFFICES ASSUME NEW i \in 0 .. Len(s), NEW j \in 0 .. Len(t), Cut(s, t, i, j)
             PROVE  Len(s) - i + less <= (1 + Retries) * (Len(t) - j) + Concurrency * Retries
  BY DEF Paid
<1> DEFINE bound == (1 + Retries) * (Len(t) - j) + Concurrency * Retries
<1>1. Len(s) - i + due <= bound
  BY DEF Paid
<1>2. bound \in Nat /\ Len(s) \in Nat
  <2>1. Len(t) - j \in Nat
    OBVIOUS
  <2>2. (1 + Retries) * (Len(t) - j) \in Nat /\ Concurrency * Retries \in Nat
    BY <2>1, QueueAssumption
  <2> QED BY <2>2
<1> HIDE DEF bound
<1>3. Len(s) - i + less <= bound
  BY <1>1, <1>2
<1> QED BY <1>3 DEF bound

\* A step that sends nothing and makes nothing due.
LEMMA QuietKeepsRate ==
    ASSUME RateInv, QueueInv', AttemptInv', UNCHANGED <<slots, sent>>,
           \A c \in Callers : Owes(c)' = Owes(c) \/ Owes(c)' = 0
    PROVE  RateInv'
<1>1. /\ Cardinality(Due) \in Nat /\ IsFiniteSet(Due)
  BY DueBounded DEF RateInv
<1>2. Due' \subseteq Due
  BY DEF Due
<1>3. IsFiniteSet(Due') /\ Cardinality(Due') <= Cardinality(Due)
  BY <1>1, <1>2, FS_Subset
<1>4. Cardinality(Due') \in Nat
  BY <1>3, FS_CardinalityType
<1> DEFINE due == Cardinality(Due)
           less == Cardinality(Due')
<1>5. due \in Nat /\ less \in Nat /\ less <= due /\ Paid(sent, slots, due)
  BY <1>1, <1>3, <1>4 DEF RateInv
<1> HIDE DEF due, less
<1>6. Paid(sent, slots, less)
  BY <1>5, PaidFewer DEF RateInv
<1> QED BY <1>6 DEF RateInv, less, InRate, Ordered, Paid, Cut

LEMMA DueBound ==
    QueueInv /\ AttemptInv => IsFiniteSet(Due) /\ Cardinality(Due) <= Concurrency * Retries
BY DueBounded

\* The same of the next state.
LEMMA DueBoundNext ==
    (QueueInv /\ AttemptInv => IsFiniteSet(Due) /\ Cardinality(Due) <= Concurrency * Retries)'
BY DueBound, PTL

\* A slot is taken and its first request sent.
LEMMA TakeSlotKeepsRate ==
    ASSUME RateInv, QueueInv', NEW c \in Callers, TakeSlot(c) PROVE RateInv'
<1> DEFINE due  == Cardinality(Due)
           more == Cardinality(Due')
           r    == Recent(slots)
<1>1. /\ pc[c] = "slot" /\ pc \in [Callers -> Places] /\ pc' = [pc EXCEPT ![c] = "call"]
      /\ attempt' = attempt /\ attempt[c] = 0 /\ attempt \in [Callers -> 0 .. Retries]
      /\ Len(r) < Rate /\ slots' = Append(r, 0) /\ sent' = Append(sent, 0)
  BY DEF TakeSlot, RateInv, QueueInv, AttemptInv
<1>2. QueueInv /\ AttemptInv /\ AttemptInv'
  BY <1>1 DEF RateInv, AttemptInv
<1>3. due \in Nat /\ more \in Nat /\ more <= Concurrency * Retries
  BY <1>2, DueBound, DueBoundNext, FS_CardinalityType
<1>4. more <= due + Retries
  <2>1. Owes(c) = 0 /\ Owes(c)' = Retries /\ \A d \in Callers \ {c} : Owes(d)' = Owes(d)
    BY <1>1, QueueAssumption DEF Owes
  <2> QED BY <1>2, <2>1, DueBySlot
<1>5. /\ slots \in Seq(0 .. Window) /\ sent \in Seq(0 .. Window) /\ r \in Seq(0 .. Window)
      /\ \A i \in DOMAIN sent : sent[i] < Window
      /\ Ordered(sent) /\ Paid(sent, slots, due)
  BY RecentDrops DEF RateInv
<1> HIDE DEF due, more
<1>6. Paid(sent, r, due)
  BY <1>3, <1>5, PaidByRecent
<1>7. InRate(slots')
  BY <1>1, <1>5, InRateTaken
<1> HIDE DEF r
<1>8. Paid(sent', slots', more)
  BY <1>1, <1>3, <1>4, <1>5, <1>6, PaidBySlot
<1>9. slots' \in Seq(0 .. Window) /\ sent' \in Seq(0 .. Window)
  BY <1>1, <1>5, SentLast
<1>10. Ordered(sent') /\ \A i \in DOMAIN sent' : sent'[i] < Window
  BY <1>1, <1>5, OrderedSent
<1> QED BY <1>2, <1>7, <1>8, <1>9, <1>10 DEF RateInv, more

\* A retry is sent.
LEMMA RetryKeepsRate ==
    ASSUME RateInv, QueueInv', NEW c \in Callers, Retry(c) PROVE RateInv'
<1> DEFINE due  == Cardinality(Due)
           less == Cardinality(Due')
<1>1. /\ pc[c] = "backoff" /\ pc \in [Callers -> Places] /\ pc' = [pc EXCEPT ![c] = "call"]
      /\ attempt' = attempt /\ attempt[c] \in 1 .. Retries
      /\ attempt \in [Callers -> 0 .. Retries]
      /\ slots' = slots /\ sent' = Append(sent, 0)
  BY QueueAssumption DEF Retry, RateInv, QueueInv, AttemptInv
<1>2. QueueInv /\ AttemptInv /\ AttemptInv'
  BY <1>1 DEF RateInv, AttemptInv
<1>3. due \in Nat /\ due <= Concurrency * Retries /\ less \in Nat
  BY <1>2, DueBound, DueBoundNext, FS_CardinalityType
<1>4. less + 1 = due
  <2>1. /\ Owes(c) \in 1 .. Retries /\ Owes(c)' = Owes(c) - 1
        /\ \A d \in Callers \ {c} : Owes(d)' = Owes(d)
    BY <1>1, QueueAssumption DEF Owes
  <2> QED BY <1>2, <2>1, DueRetried
<1>5. /\ slots \in Seq(0 .. Window) /\ sent \in Seq(0 .. Window) /\ InRate(slots)
      /\ \A i \in DOMAIN sent : sent[i] < Window
      /\ Ordered(sent) /\ Paid(sent, slots, due)
  BY DEF RateInv
<1> HIDE DEF due, less
<1>6. less + 1 <= due
  BY <1>3, <1>4
<1>7. Paid(sent', slots', less)
  BY <1>1, <1>3, <1>5, <1>6, PaidRetry
<1>8. sent' \in Seq(0 .. Window)
  BY <1>1, <1>5, SentLast
<1>9. Ordered(sent') /\ \A i \in DOMAIN sent' : sent'[i] < Window
  BY <1>1, <1>5, OrderedSent
<1> QED BY <1>1, <1>2, <1>5, <1>7, <1>8, <1>9 DEF RateInv, less

\* Time passes.
LEMMA TickKeepsRate ==
    ASSUME RateInv, QueueInv', Tick PROVE RateInv'
<1> DEFINE due == Cardinality(Due)
<1>1. /\ pc' = pc /\ attempt' = attempt
      /\ slots' = Older(slots) /\ sent' = Recent(Older(sent))
  BY DEF Tick, Older
<1>2. QueueInv /\ AttemptInv /\ AttemptInv' /\ Due' = Due
  BY <1>1 DEF RateInv, AttemptInv, Due, Owes
<1>3. due \in Nat
  BY <1>2, DueBound, FS_CardinalityType
<1>4. /\ slots \in Seq(0 .. Window) /\ sent \in Seq(0 .. Window) /\ InRate(slots)
      /\ \A i \in DOMAIN sent : sent[i] < Window
      /\ Ordered(sent) /\ Paid(sent, slots, due)
  BY DEF RateInv
<1> HIDE DEF due
<1>5. /\ sent' \in Seq(0 .. Window) /\ Ordered(sent') /\ \A i \in DOMAIN sent' : sent'[i] < Window
      /\ Paid(sent', slots', due)
  BY <1>1, <1>3, <1>4, PaidLater
<1>6. slots' \in Seq(0 .. Window) /\ InRate(slots')
  BY <1>1, <1>4, OlderTimes, InRateLater
<1> QED BY <1>2, <1>5, <1>6 DEF RateInv, due

LEMMA RateNext == RateInv /\ [Next]_vars => RateInv'
<1> SUFFICES ASSUME RateInv, [Next]_vars PROVE RateInv'
  OBVIOUS
<1>1. QueueInv'
  BY QueueStep DEF RateInv
<1>2. /\ pc \in [Callers -> Places] /\ attempt \in [Callers -> 0 .. Retries] /\ Retries \in Nat
      /\ \A c \in Callers : /\ pc[c] \in {"idle", "queued", "slot"} => attempt[c] = 0
                            /\ pc[c] = "backoff" => attempt[c] # 0
  BY QueueAssumption DEF RateInv, QueueInv, AttemptInv
<1>3. ASSUME UNCHANGED <<pc, attempt, slots, sent>> PROVE RateInv'
  <2>1. AttemptInv' /\ \A c \in Callers : Owes(c)' = Owes(c)
    BY <1>3 DEF RateInv, AttemptInv, Owes
  <2> QED BY <1>1, <1>3, <2>1, QuietKeepsRate
<1>4. ASSUME NEW c \in Callers, Enter(c) PROVE RateInv'
  <2>1. /\ pc[c] = "idle" /\ pc'[c] \in {"slot", "queued"} /\ pc' = [pc EXCEPT ![c] = pc'[c]]
        /\ UNCHANGED <<attempt, slots, sent>>
    BY <1>2, <1>4 DEF Enter
  <2>2. AttemptInv'
    BY <1>2, <2>1 DEF AttemptInv
  <2>3. \A d \in Callers : Owes(d)' = Owes(d) \/ Owes(d)' = 0
    BY <1>2, <2>1 DEF Owes
  <2> QED BY <1>1, <2>1, <2>2, <2>3, QuietKeepsRate
<1>5. ASSUME NEW c \in Callers, Answer(c) \/ GiveUp(c) PROVE RateInv'
  <2>1. /\ attempt' = [attempt EXCEPT ![c] = 0] /\ UNCHANGED <<slots, sent>>
        /\ pc' = [d \in Callers |-> IF d = c THEN "idle"
                                    ELSE IF waiters # <<>> /\ d = Head(waiters) THEN "slot"
                                    ELSE pc[d]]
    BY <1>5 DEF Answer, GiveUp, Leave
  <2>2. waiters # <<>> => pc[Head(waiters)] = "queued"
    <3>1. waiters \in Seq(Callers)
      BY DEF RateInv, QueueInv, Server!PlacesExact
    <3>2. waiters # <<>> => 1 \in DOMAIN waiters /\ Head(waiters) = waiters[1]
      BY <3>1, LineTail
    <3> QED BY <3>2 DEF RateInv, QueueInv
  <2>3. AttemptInv'
    BY <1>2, <2>1, <2>2 DEF AttemptInv
  <2>4. \A d \in Callers : Owes(d)' = Owes(d) \/ Owes(d)' = 0
    BY <1>2, <2>1 DEF Owes
  <2> QED BY <1>1, <2>1, <2>3, <2>4, QuietKeepsRate
<1>6. ASSUME NEW c \in Callers, FailTransiently(c) PROVE RateInv'
  <2>1. /\ pc[c] = "call" /\ attempt[c] < Retries /\ pc' = [pc EXCEPT ![c] = "backoff"]
        /\ attempt' = [attempt EXCEPT ![c] = @ + 1] /\ UNCHANGED <<slots, sent>>
    BY <1>6 DEF FailTransiently
  <2>2. AttemptInv'
    BY <1>2, <2>1 DEF AttemptInv
  <2>3. \A d \in Callers : Owes(d)' = Owes(d)
    BY <1>2, <2>1 DEF Owes
  <2> QED BY <1>1, <2>1, <2>2, <2>3, QuietKeepsRate
<1> QED
  BY <1>1, <1>3, <1>4, <1>5, <1>6, TakeSlotKeepsRate, RetryKeepsRate, TickKeepsRate
     DEF Next, Proceed, vars

\* What the rate limit amounts to, for any rate, window and number of retries: the first
\* cut is the one between the slots that have expired and those of the window.
THEOREM RequestsAreBounded == Spec => []RequestsBounded
<1>1. RateInv => RequestsBounded
  <2> SUFFICES ASSUME RateInv PROVE RequestsBounded
    OBVIOUS
  <2> USE QueueAssumption
  <2>1. PICK e \in 0 .. Len(slots) : (\A y \in 1 .. e : slots[y] = Window) /\ Len(slots) - e <= Rate
    BY DEF RateInv, InRate
  <2>2. Len(slots) \in Nat /\ Len(sent) \in Nat /\ DOMAIN sent = 1 .. Len(sent)
    BY DEF RateInv
  <2>3. Cut(sent, slots, 0, e)
    <3>1. \A x \in 0 + 1 .. Len(sent) : x \in DOMAIN sent
      BY <2>2
    <3>2. \A x \in 0 + 1 .. Len(sent) : sent[x] < Window
      BY <3>1 DEF RateInv
    <3> QED BY <2>1, <3>2 DEF Cut
  <2> DEFINE due == Cardinality(Due)
             n   == Len(slots) - e
             per == 1 + Retries
             own == Concurrency * Retries
  <2>4. due \in Nat
    BY DueBound, FS_CardinalityType DEF RateInv
  <2>5. Len(sent) - 0 + due <= per * n + own
    BY <2>2, <2>3 DEF RateInv, Paid
  <2>6. n \in Nat /\ n <= Rate /\ per \in Nat /\ own \in Nat
    BY <2>1, <2>2
  <2> HIDE DEF due, n, per, own
  <2>7. per * n <= Rate * per /\ per * n \in Nat /\ Rate * per \in Nat
    <3>1. PICK k \in Nat : Rate = n + k
      <4>1. Rate - n \in Nat /\ Rate = n + (Rate - n)
        BY <2>6
      <4> QED BY <4>1
    <3>2. Rate * per = per * n + per * k /\ per * k \in Nat /\ per * n \in Nat
      BY <2>6, <3>1
    <3> QED BY <3>2
  <2>8. Len(sent) <= Rate * per + own
    BY <2>2, <2>4, <2>5, <2>6, <2>7
  <2> QED BY <2>8 DEF RequestsBounded, per, own
<1> QED BY <1>1, RateInit, RateNext, PTL DEF Spec
-----------------------------------------------------------------------------
(* Types. *)

SleepInv == slept \in [Callers -> Nat]

LEMMA SleepNext == SleepInv /\ [Next]_vars => SleepInv'
<1> USE DEF SleepInv
<1> SUFFICES ASSUME slept \in [Callers -> Nat], [Next]_vars PROVE slept' \in [Callers -> Nat]
    OBVIOUS
<1>1. CASE Tick
  <2> DEFINE next(c) == IF pc[c] = "backoff" /\ slept[c] < Sleep(c) THEN slept[c] + 1 ELSE slept[c]
  <2>1. slept' = [c \in Callers |-> next(c)]
    BY <1>1 DEF Tick
  <2>2. \A c \in Callers : next(c) = slept[c] + 1 \/ next(c) = slept[c]
    OBVIOUS
  <2> HIDE DEF next
  <2>3. \A c \in Callers : next(c) \in Nat
    BY <2>2
  <2> QED BY <2>1, <2>3
<1>2. ASSUME NEW c \in Callers, Retry(c) PROVE slept' \in [Callers -> Nat]
  BY <1>2 DEF Retry
<1> QED
  BY <1>1, <1>2 DEF Next, Proceed, Enter, TakeSlot, Answer, FailTransiently, GiveUp, vars

\* Types, for any backoff: no attempt beyond the retries, and no instant older than the
\* window, however callers come, fail and leave.
THEOREM QueueTypes == Spec => []TypeOK
<1>1. Init => SleepInv
  BY DEF Init, SleepInv
<1>2. RateInv /\ SleepInv => TypeOK
  BY DEF SleepInv, RateInv, QueueInv, AttemptInv, TypeOK, Places, Server!PlacesExact
<1> QED BY <1>1, <1>2, RateInit, RateNext, SleepNext, PTL DEF Spec
=============================================================================
