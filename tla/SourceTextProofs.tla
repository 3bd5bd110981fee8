---------------------------- MODULE SourceTextProofs ----------------------------
(***************************************************************************)
(* The text of a source and of its doc, for any site, doc and answers: a   *)
(* crawl that ends has read every page it could reach, a section is        *)
(* never put into the doc twice, each says what was last published for     *)
(* it, and what the doc misses is bounded.                                 *)
(***************************************************************************)
EXTENDS SourceText, FiniteSetTheorems, FunctionTheorems, WellFoundedInduction, TLAPS

-----------------------------------------------------------------------------
(* The inductive invariant of the crawl. *)

Read   == ToSet(crawl.scraped)
Queued == ToSet(crawl.to_visit)

\* A set of pages that has the root and every link of the pages read so far, except
\* those that do not load.
Holds(S) ==
    /\ Root \in crawl.skipped \/ Root \in S
    /\ \A u \in (S \cap Read) \ crawl.blind : crawl.links[u] \ crawl.skipped \subseteq S

\* Each page met is read, skipped or queued, once; the links of the pages read have
\* been met; and whatever is read or queued is in every set that must have it.
CrawlInv ==
    /\ crawl.visited = Read \cup Queued \cup crawl.skipped
    /\ Root \in crawl.visited
    /\ IsInjective(crawl.scraped) /\ IsInjective(crawl.to_visit)
    /\ Read \cap Queued = {} /\ Read \cap crawl.skipped = {} /\ Queued \cap crawl.skipped = {}
    /\ crawl.blind \subseteq Read
    /\ \A u \in Read \ crawl.blind : crawl.links[u] \subseteq crawl.visited
    /\ \A S \in SUBSET Urls : Holds(S) => Read \cup Queued \subseteq S
    /\ Len(crawl.scraped) <= MaxPages
    /\ crawl.engine = "done" => crawl.to_visit = <<>> \/ Len(crawl.scraped) = MaxPages

-----------------------------------------------------------------------------
(* Sequences whose elements are distinct. *)

LEMMA HeadAndTail ==
    ASSUME NEW T, NEW q \in Seq(T), q # <<>>, IsInjective(q)
    PROVE  /\ Head(q) \in T /\ Tail(q) \in Seq(T) /\ IsInjective(Tail(q))
           /\ ToSet(q) = ToSet(Tail(q)) \cup {Head(q)} /\ Head(q) \notin ToSet(Tail(q))
<1>1. /\ Len(q) \in Nat /\ Len(q) >= 1 /\ DOMAIN q = 1 .. Len(q) /\ Head(q) = q[1]
      /\ Tail(q) \in Seq(T) /\ DOMAIN Tail(q) = 1 .. Len(q) - 1
      /\ \A i \in 1 .. Len(q) - 1 : Tail(q)[i] = q[i + 1]
  OBVIOUS
<1>2. \A i \in 1 .. Len(q) - 1 : i + 1 \in DOMAIN q /\ i + 1 # 1
  BY <1>1
<1>3. \A i \in 2 .. Len(q) : i - 1 \in 1 .. Len(q) - 1 /\ q[i] = Tail(q)[i - 1]
  BY <1>1
<1>4. \A i \in DOMAIN q : i = 1 \/ i \in 2 .. Len(q)
  BY <1>1
<1>5. Head(q) \in T /\ 1 \in DOMAIN q
  BY <1>1
<1>6. IsInjective(Tail(q))
  BY <1>1, <1>2 DEF IsInjective
<1>7. Head(q) \notin ToSet(Tail(q))
  BY <1>1, <1>2, <1>5 DEF IsInjective, ToSet
<1>8. ToSet(q) \subseteq ToSet(Tail(q)) \cup {Head(q)}
  <2> SUFFICES ASSUME NEW i \in DOMAIN q PROVE q[i] \in ToSet(Tail(q)) \cup {Head(q)}
    BY DEF ToSet
  <2>1. CASE i = 1
    BY <1>1, <2>1
  <2>2. CASE i \in 2 .. Len(q)
    BY <1>1, <1>3, <2>2 DEF ToSet
  <2> QED BY <1>4, <2>1, <2>2
<1>9. ToSet(Tail(q)) \cup {Head(q)} \subseteq ToSet(q)
  BY <1>1, <1>2, <1>5 DEF ToSet
<1> QED BY <1>1, <1>5, <1>6, <1>7, <1>8, <1>9

LEMMA Appended ==
    ASSUME NEW T, NEW q \in Seq(T), NEW x \in T, IsInjective(q), x \notin ToSet(q)
    PROVE  /\ Append(q, x) \in Seq(T) /\ IsInjective(Append(q, x))
           /\ Len(Append(q, x)) = Len(q) + 1 /\ ToSet(Append(q, x)) = ToSet(q) \cup {x}
<1>1. /\ Len(q) \in Nat /\ DOMAIN q = 1 .. Len(q) /\ Append(q, x) \in Seq(T)
      /\ Len(Append(q, x)) = Len(q) + 1 /\ DOMAIN Append(q, x) = 1 .. Len(q) + 1
      /\ \A i \in 1 .. Len(q) : Append(q, x)[i] = q[i]
      /\ Append(q, x)[Len(q) + 1] = x
  OBVIOUS
<1>2. \A i \in 1 .. Len(q) + 1 : i \in DOMAIN q \/ i = Len(q) + 1
  BY <1>1
<1>3. \A i \in DOMAIN q : q[i] # x
  BY DEF ToSet
<1>4. IsInjective(Append(q, x))
  BY <1>1, <1>2, <1>3 DEF IsInjective
<1>5. ToSet(Append(q, x)) = ToSet(q) \cup {x}
  <2>1. ToSet(q) \subseteq ToSet(Append(q, x)) /\ x \in ToSet(Append(q, x))
    BY <1>1 DEF ToSet
  <2>2. ToSet(Append(q, x)) \subseteq ToSet(q) \cup {x}
    BY <1>1, <1>2 DEF ToSet
  <2> QED BY <2>1, <2>2
<1> QED BY <1>1, <1>4, <1>5

LEMMA Concatenated ==
    ASSUME NEW T, NEW q \in Seq(T), NEW r \in Seq(T), IsInjective(q), IsInjective(r),
           \A a \in ToSet(q) : a \notin ToSet(r)
    PROVE  /\ q \o r \in Seq(T) /\ IsInjective(q \o r) /\ ToSet(q \o r) = ToSet(q) \cup ToSet(r)
<1>1. /\ Len(q) \in Nat /\ DOMAIN q = 1 .. Len(q) /\ Len(r) \in Nat /\ DOMAIN r = 1 .. Len(r)
      /\ q \o r \in Seq(T) /\ DOMAIN (q \o r) = 1 .. Len(q) + Len(r)
  OBVIOUS
<1>2. \A i \in 1 .. Len(q) : (q \o r)[i] = q[i]
  OBVIOUS
<1>3. \A i \in 1 .. Len(r) : (q \o r)[Len(q) + i] = r[i] /\ Len(q) + i \in 1 .. Len(q) + Len(r)
  BY <1>1
<1>4. \A i \in 1 .. Len(q) + Len(r) : i \in 1 .. Len(q)
         \/ (i - Len(q) \in 1 .. Len(r) /\ i = Len(q) + (i - Len(q)) /\ (q \o r)[i] = r[i - Len(q)])
  BY <1>1, <1>3
<1>5. \A i \in 1 .. Len(q), j \in 1 .. Len(r) : q[i] # r[j]
  BY <1>1 DEF ToSet
<1>6. IsInjective(q \o r)
  <2> SUFFICES ASSUME NEW i \in 1 .. Len(q) + Len(r), NEW j \in 1 .. Len(q) + Len(r),
                      (q \o r)[i] = (q \o r)[j]
               PROVE  i = j
    BY <1>1 DEF IsInjective
  <2>1. CASE i \in 1 .. Len(q) /\ j \in 1 .. Len(q)
    BY <1>1, <1>2, <2>1 DEF IsInjective
  <2>2. CASE i \in 1 .. Len(q) /\ j \notin 1 .. Len(q)
    BY <1>2, <1>4, <1>5, <2>2
  <2>3. CASE i \notin 1 .. Len(q) /\ j \in 1 .. Len(q)
    BY <1>2, <1>4, <1>5, <2>3
  <2>4. CASE i \notin 1 .. Len(q) /\ j \notin 1 .. Len(q)
    <3>1. i - Len(q) = j - Len(q)
      <4>1. r[i - Len(q)] = r[j - Len(q)] /\ i - Len(q) \in 1 .. Len(r) /\ j - Len(q) \in 1 .. Len(r)
        BY <1>4, <2>4
      <4> QED BY <1>1, <4>1 DEF IsInjective
    <3>2. i \in Nat /\ j \in Nat /\ Len(q) \in Nat
      BY <1>1
    <3> QED BY <3>1, <3>2
  <2> QED BY <2>1, <2>2, <2>3, <2>4
<1>7. ToSet(q) \cup ToSet(r) \subseteq ToSet(q \o r)
  <2>1. ToSet(q) \subseteq ToSet(q \o r)
    BY <1>1, <1>2 DEF ToSet
  <2>2. ToSet(r) \subseteq ToSet(q \o r)
    BY <1>1, <1>3 DEF ToSet
  <2> QED BY <2>1, <2>2
<1>8. ToSet(q \o r) \subseteq ToSet(q) \cup ToSet(r)
  BY <1>1, <1>2, <1>4 DEF ToSet
<1> QED BY <1>1, <1>6, <1>7, <1>8

\* A listing of a finite set has all of its members, once.
LEMMA Listed ==
    ASSUME NEW T, NEW S, S \subseteq T, IsFiniteSet(S), NEW q \in SetToSeqs(S)
    PROVE  q \in Seq(T) /\ IsInjective(q) /\ ToSet(q) = S
<1> DEFINE D == 1 .. Cardinality(S)
<1>1. q \in [D -> S] /\ \A i, j \in D : i # j => q[i] # q[j]
  BY DEF SetToSeqs
<1>2. Cardinality(S) \in Nat /\ IsFiniteSet(D) /\ Cardinality(D) = Cardinality(S)
  <2>1. Cardinality(S) \in Nat
    BY FS_CardinalityType
  <2>2. IsFiniteSet(D) /\ Cardinality(D) = Cardinality(S) - 1 + 1
    BY <2>1, FS_Interval
  <2> QED BY <2>1, <2>2
<1>3. q \in Seq(T) /\ DOMAIN q = D
  BY <1>1, <1>2
<1>4. q \in Injection(D, S)
  BY <1>1, Fun_IsInj
<1>5. q \in Surjection(D, S)
  BY <1>2, <1>4, FS_Injection
<1>6. \A x \in S : \E i \in D : q[i] = x
  BY <1>5 DEF Surjection
<1>7. ToSet(q) = S
  BY <1>1, <1>3, <1>6 DEF ToSet
<1> QED BY <1>1, <1>3, <1>7 DEF IsInjective

-----------------------------------------------------------------------------
(* The steps of the crawl. *)

CrawlAlways == CrawlTypes /\ CrawlInv

LEMMA CrawlTyped ==
    ASSUME CrawlTypes
    PROVE  /\ crawl.engine \in {"browser", "http", "done", "failed"}
           /\ crawl.links \in [Urls -> SUBSET Urls] /\ crawl.bad \in SUBSET Urls
           /\ crawl.visited \in SUBSET Urls /\ crawl.skipped \in SUBSET Urls
           /\ crawl.blind \in SUBSET Urls
           /\ crawl.to_visit \in Seq(Urls) /\ crawl.scraped \in Seq(Urls)
           /\ Read \subseteq Urls /\ Queued \subseteq Urls
<1>1. /\ crawl.engine \in {"browser", "http", "done", "failed"}
      /\ crawl.links \in [Urls -> SUBSET Urls] /\ crawl.bad \in SUBSET Urls
      /\ crawl.visited \in SUBSET Urls /\ crawl.skipped \in SUBSET Urls
      /\ crawl.blind \in SUBSET Urls
      /\ crawl.to_visit \in Seq(Urls) /\ crawl.scraped \in Seq(Urls)
  BY DEF CrawlTypes
<1>2. \A q \in Seq(Urls) : ToSet(q) \subseteq Urls
  BY DEF ToSet
<1> QED BY <1>1, <1>2 DEF Read, Queued

\* A crawl begins, or begins again, or its variables are gone.
LEMMA CrawlBegins ==
    ASSUME NEW links \in [Urls -> SUBSET Urls], NEW bad \in SUBSET Urls,
           NEW engine \in {"browser", "http", "failed"}, crawl = Begun(links, bad, engine)
    PROVE  CrawlAlways
<1>1. /\ crawl.engine = engine /\ crawl.visited = {Root} /\ crawl.to_visit = <<Root>>
      /\ crawl.scraped = <<>> /\ crawl.skipped = {} /\ crawl.blind = {}
      /\ crawl.links = links /\ crawl.bad = bad
  BY DEF Begun
<1>2. CrawlTypes
  <2>1. <<Root>> \in Seq(Urls) /\ <<>> \in Seq(Urls) /\ {Root} \in SUBSET Urls
    BY CrawlAssumption
  <2> QED BY <2>1 DEF CrawlTypes, Begun
<1>3. Read = {} /\ IsInjective(crawl.scraped)
  <2>1. DOMAIN <<>> = {}
    OBVIOUS
  <2> QED BY <1>1, <2>1 DEF Read, ToSet, IsInjective
<1>4. Queued = {Root} /\ IsInjective(crawl.to_visit)
  <2>1. DOMAIN <<Root>> = {1} /\ <<Root>>[1] = Root
    OBVIOUS
  <2>2. ToSet(<<Root>>) = {Root} /\ IsInjective(<<Root>>)
    BY <2>1 DEF ToSet, IsInjective
  <2> QED BY <1>1, <2>2 DEF Queued
<1>5. Len(crawl.scraped) <= MaxPages
  BY <1>1, CrawlAssumption
<1>6. \A S \in SUBSET Urls : Holds(S) => Read \cup Queued \subseteq S
  BY <1>1, <1>3, <1>4 DEF Holds
<1>7. crawl.engine # "done"
  BY <1>1
<1> QED BY <1>1, <1>2, <1>3, <1>4, <1>5, <1>6, <1>7 DEF CrawlAlways, CrawlInv

\* What a step does to the crawl, as far as the invariant goes: the page at the head
\* is taken from the queue, and is skipped or read, and what it adds is queued.
LEMMA SkipKeeps == CrawlAlways /\ SkipPage => CrawlAlways'
<1> SUFFICES ASSUME CrawlAlways, SkipPage PROVE CrawlAlways'
  OBVIOUS
<1> DEFINE x == Head(crawl.to_visit)
<1>1. CrawlTypes /\ CrawlInv
  BY DEF CrawlAlways
<1>2. /\ crawl.engine \in {"browser", "http", "done", "failed"}
      /\ crawl.links \in [Urls -> SUBSET Urls] /\ crawl.bad \in SUBSET Urls
      /\ crawl.visited \in SUBSET Urls /\ crawl.skipped \in SUBSET Urls
      /\ crawl.blind \in SUBSET Urls
      /\ crawl.to_visit \in Seq(Urls) /\ crawl.scraped \in Seq(Urls)
      /\ Read \subseteq Urls /\ Queued \subseteq Urls
  BY <1>1, CrawlTyped
<1>3. crawl.to_visit # <<>> /\ crawl.engine \in {"browser", "http"}
  BY DEF SkipPage, Loops, Crawling
<1>4. /\ x \in Urls /\ Tail(crawl.to_visit) \in Seq(Urls) /\ IsInjective(Tail(crawl.to_visit))
      /\ Queued = ToSet(Tail(crawl.to_visit)) \cup {x} /\ x \notin ToSet(Tail(crawl.to_visit))
  BY <1>1, <1>2, <1>3, HeadAndTail DEF CrawlInv, Queued
<1> HIDE DEF x
<1>5. /\ crawl'.to_visit = Tail(crawl.to_visit) /\ crawl'.skipped = crawl.skipped \cup {x}
      /\ crawl'.engine = crawl.engine /\ crawl'.links = crawl.links /\ crawl'.bad = crawl.bad
      /\ crawl'.visited = crawl.visited /\ crawl'.scraped = crawl.scraped
      /\ crawl'.blind = crawl.blind
      /\ CrawlTypes'
  <2>1. crawl' = [crawl EXCEPT !.to_visit = Tail(crawl.to_visit),
                               !.skipped = crawl.skipped \cup {x}]
    BY DEF SkipPage, Popped, Current, x
  <2>2. crawl.skipped \cup {x} \in SUBSET Urls
    BY <1>2, <1>4
  <2> QED BY <1>1, <1>4, <2>1, <2>2 DEF CrawlTypes
<1>6. Read' = Read /\ Queued' = Queued \ {x} /\ x \in Queued
  BY <1>4, <1>5 DEF Read, Queued
<1>7. ASSUME NEW S \in SUBSET Urls, Holds(S)' PROVE Read \cup (Queued \ {x}) \subseteq S
  <2>1. S \cup {x} \in SUBSET Urls /\ x \notin Read
    BY <1>1, <1>4, <1>6 DEF CrawlInv
  <2>2. Root \in crawl.skipped \/ Root \in S \cup {x}
    BY <1>5, <1>7 DEF Holds
  <2>3. ASSUME NEW u \in ((S \cup {x}) \cap Read) \ crawl.blind
        PROVE  crawl.links[u] \ crawl.skipped \subseteq S \cup {x}
    <3>1. u \in (S \cap Read) \ crawl.blind
      BY <2>1
    <3>2. crawl.links[u] \ (crawl.skipped \cup {x}) \subseteq S
      BY <1>5, <1>6, <1>7, <3>1 DEF Holds
    <3> QED BY <3>2
  <2>4. Holds(S \cup {x})
    BY <2>2, <2>3 DEF Holds
  <2>5. Read \cup Queued \subseteq S \cup {x}
    BY <1>1, <2>1, <2>4 DEF CrawlInv
  <2> QED BY <2>1, <2>5
<1>8. /\ crawl.visited = (Read \cup (Queued \ {x})) \cup (crawl.skipped \cup {x})
      /\ Read \cap (Queued \ {x}) = {} /\ Read \cap (crawl.skipped \cup {x}) = {}
      /\ (Queued \ {x}) \cap (crawl.skipped \cup {x}) = {}
  BY <1>1, <1>6 DEF CrawlInv
<1>9. CrawlInv'
  BY <1>1, <1>3, <1>4, <1>5, <1>6, <1>7, <1>8 DEF CrawlInv
<1> QED BY <1>5, <1>9 DEF CrawlAlways

\* The page at the head of the queue is read, with its new links, or without them.
Reads(found, missed) ==
    crawl' = [crawl EXCEPT !.to_visit = Tail(crawl.to_visit) \o found,
                           !.visited = crawl.visited \cup ToSet(found),
                           !.scraped = Append(crawl.scraped, Head(crawl.to_visit)),
                           !.blind = crawl.blind \cup missed]

LEMMA ReadKeeps ==
    ASSUME CrawlAlways, Loops, NEW found \in Seq(Urls), IsInjective(found),
           NEW missed \in SUBSET {Head(crawl.to_visit)},
           ToSet(found) \subseteq crawl.links[Head(crawl.to_visit)] \ crawl.visited,
           missed = {} => ToSet(found) = crawl.links[Head(crawl.to_visit)] \ crawl.visited,
           missed # {} => ToSet(found) = {},
           Reads(found, missed)
    PROVE  CrawlAlways'
<1> DEFINE x == Head(crawl.to_visit)
           F == ToSet(found)
<1>1. CrawlTypes /\ CrawlInv
  BY DEF CrawlAlways
<1>2. /\ crawl.engine \in {"browser", "http", "done", "failed"}
      /\ crawl.links \in [Urls -> SUBSET Urls] /\ crawl.bad \in SUBSET Urls
      /\ crawl.visited \in SUBSET Urls /\ crawl.skipped \in SUBSET Urls
      /\ crawl.blind \in SUBSET Urls
      /\ crawl.to_visit \in Seq(Urls) /\ crawl.scraped \in Seq(Urls)
      /\ Read \subseteq Urls /\ Queued \subseteq Urls
  BY <1>1, CrawlTyped
<1>3. crawl.to_visit # <<>> /\ crawl.engine \in {"browser", "http"}
      /\ Len(crawl.scraped) < MaxPages
  BY DEF Loops, Crawling
<1>4. /\ x \in Urls /\ Tail(crawl.to_visit) \in Seq(Urls) /\ IsInjective(Tail(crawl.to_visit))
      /\ Queued = ToSet(Tail(crawl.to_visit)) \cup {x} /\ x \notin ToSet(Tail(crawl.to_visit))
  BY <1>1, <1>2, <1>3, HeadAndTail DEF CrawlInv, Queued
<1>5. /\ F \subseteq crawl.links[x] \ crawl.visited /\ F \subseteq Urls
      /\ missed \subseteq {x} /\ (missed = {} => F = crawl.links[x] \ crawl.visited)
      /\ (missed # {} => F = {})
  BY <1>2, <1>4
<1>6. /\ crawl.visited = Read \cup Queued \cup crawl.skipped /\ Root \in crawl.visited
      /\ IsInjective(crawl.scraped)
      /\ Read \cap Queued = {} /\ Read \cap crawl.skipped = {} /\ Queued \cap crawl.skipped = {}
      /\ crawl.blind \subseteq Read
      /\ \A u \in Read \ crawl.blind : crawl.links[u] \subseteq crawl.visited
      /\ \A S \in SUBSET Urls : Holds(S) => Read \cup Queued \subseteq S
  BY <1>1 DEF CrawlInv
<1> DEFINE rest == Tail(crawl.to_visit) \o found
           read == Append(crawl.scraped, x)
<1>7. rest \in Seq(Urls) /\ IsInjective(rest) /\ ToSet(rest) = (Queued \ {x}) \cup F
  <2>1. \A a \in ToSet(Tail(crawl.to_visit)) : a \notin ToSet(found)
    BY <1>4, <1>5, <1>6
  <2>2. found \in Seq(Urls) /\ IsInjective(found)
    OBVIOUS
  <2>3. rest \in Seq(Urls)
    BY <1>4, <2>1, <2>2
  <2>4. IsInjective(rest)
    BY ONLY <1>4, <2>1, <2>2, Concatenated
  <2>5. ToSet(rest) = ToSet(Tail(crawl.to_visit)) \cup ToSet(found)
    <3> DEFINE q == Tail(crawl.to_visit)
    <3>1. q \in Seq(Urls) /\ IsInjective(q) /\ \A a \in ToSet(q) : a \notin ToSet(found)
      BY <1>4, <2>1
    <3> HIDE DEF q
    <3>2. ToSet(q \o found) = ToSet(q) \cup ToSet(found)
      BY ONLY <2>2, <3>1, Concatenated, SMT
    <3> QED BY <3>2 DEF q
  <2> QED BY <1>4, <2>3, <2>4, <2>5
<1>8. read \in Seq(Urls) /\ IsInjective(read) /\ ToSet(read) = Read \cup {x}
      /\ Len(read) = Len(crawl.scraped) + 1
  <2>1. x \notin Read
    BY <1>4, <1>6
  <2> QED BY <1>2, <1>4, <1>6, <2>1, Appended DEF Read
<1>9. /\ crawl'.to_visit = rest /\ crawl'.scraped = read
      /\ crawl'.visited = crawl.visited \cup F /\ crawl'.blind = crawl.blind \cup missed
      /\ crawl'.skipped = crawl.skipped
      /\ crawl'.engine = crawl.engine /\ crawl'.links = crawl.links /\ crawl'.bad = crawl.bad
      /\ CrawlTypes'
  <2>1. crawl' = [crawl EXCEPT !.to_visit = rest, !.visited = crawl.visited \cup F,
                               !.scraped = read, !.blind = crawl.blind \cup missed]
    BY Zenon DEF Reads
  <2>2. crawl.visited \cup F \in SUBSET Urls /\ crawl.blind \cup missed \in SUBSET Urls
    BY <1>2, <1>4, <1>5
  <2> HIDE DEF rest, read, F, x
  <2> QED BY <1>1, <1>7, <1>8, <2>1, <2>2 DEF CrawlTypes
<1> HIDE DEF rest, read, F, x
<1>10. Read' = Read \cup {x} /\ Queued' = (Queued \ {x}) \cup F /\ x \in Queued /\ x \notin Read
  BY <1>4, <1>6, <1>7, <1>8, <1>9 DEF Read, Queued
<1>11. ASSUME NEW S \in SUBSET Urls, Holds(S)' PROVE Read' \cup Queued' \subseteq S
  <2>1. Root \in crawl.skipped \/ Root \in S
    BY <1>9, <1>11 DEF Holds
  <2>2. \A u \in (S \cap (Read \cup {x})) \ (crawl.blind \cup missed) :
           crawl.links[u] \ crawl.skipped \subseteq S
    BY <1>9, <1>10, <1>11 DEF Holds
  <2>3. Holds(S)
    BY <1>5, <1>10, <2>1, <2>2 DEF Holds
  <2>4. Read \cup Queued \subseteq S
    BY <1>6, <2>3
  <2>5. CASE missed = {}
    <3>1. x \in (S \cap (Read \cup {x})) \ (crawl.blind \cup missed)
      BY <1>6, <1>10, <2>4, <2>5
    <3>2. crawl.links[x] \ crawl.skipped \subseteq S
      BY <2>2, <3>1
    <3>3. F \subseteq S
      BY <1>5, <1>6, <2>5, <3>2
    <3> QED BY <1>10, <2>4, <3>3
  <2>6. CASE missed # {}
    BY <1>5, <1>10, <2>4, <2>6
  <2> QED BY <2>5, <2>6
<1>12. /\ crawl'.visited = Read' \cup Queued' \cup crawl'.skipped /\ Root \in crawl'.visited
       /\ Read' \cap Queued' = {} /\ Read' \cap crawl'.skipped = {}
       /\ Queued' \cap crawl'.skipped = {} /\ crawl'.blind \subseteq Read'
  BY <1>5, <1>6, <1>9, <1>10
<1>13. ASSUME NEW u \in Read' \ crawl'.blind PROVE crawl'.links[u] \subseteq crawl'.visited
  <2>1. CASE u = x
    <3>1. missed = {}
      BY <1>5, <1>9, <1>13, <2>1
    <3> QED BY <1>5, <1>9, <2>1, <3>1
  <2>2. CASE u # x
    BY <1>6, <1>9, <1>10, <1>13, <2>2
  <2> QED BY <2>1, <2>2
<1>14. Len(crawl'.scraped) <= MaxPages /\ crawl'.engine # "done"
  BY <1>2, <1>3, <1>8, <1>9, CrawlAssumption
<1>15. IsInjective(crawl'.scraped) /\ IsInjective(crawl'.to_visit)
  BY <1>7, <1>8, <1>9
<1>16. CrawlInv'
  BY <1>11, <1>12, <1>13, <1>14, <1>15 DEF CrawlInv
<1> QED BY <1>9, <1>16 DEF CrawlAlways

\* The pages that come with a page that is read.
LEMMA ScrapeKeeps == CrawlAlways /\ ScrapePage => CrawlAlways'
<1> SUFFICES ASSUME CrawlAlways, ScrapePage PROVE CrawlAlways'
  OBVIOUS
<1> DEFINE x == Head(crawl.to_visit)
           new == crawl.links[x] \ crawl.visited
<1>1. CrawlTypes /\ CrawlInv /\ Loops
  BY DEF CrawlAlways, ScrapePage
<1>2. /\ crawl.links \in [Urls -> SUBSET Urls] /\ crawl.to_visit \in Seq(Urls)
      /\ crawl.to_visit # <<>> /\ crawl.blind = crawl.blind \cup {}
  BY <1>1, CrawlTyped DEF Loops
<1>3. x \in Urls
  BY <1>2
<1>4. new \subseteq Urls /\ IsFiniteSet(new)
  BY <1>2, <1>3, CrawlAssumption, FS_Subset
<1>5. PICK found \in SetToSeqs(new) :
         crawl' = [crawl EXCEPT !.to_visit = Tail(crawl.to_visit) \o found,
                                !.visited = crawl.visited \cup ToSet(found),
                                !.scraped = Append(crawl.scraped, x)]
  BY DEF ScrapePage, Popped, Current
<1>6. found \in Seq(Urls) /\ IsInjective(found) /\ ToSet(found) = new
  BY <1>4, Listed
<1>7. Reads(found, {})
  <2>1. [crawl EXCEPT !.to_visit = Tail(crawl.to_visit) \o found,
                      !.visited = crawl.visited \cup ToSet(found),
                      !.scraped = Append(crawl.scraped, x)].blind = crawl.blind
    BY <1>1 DEF CrawlTypes
  <2> HIDE DEF x
  <2> QED BY <1>1, <1>2, <1>5, <2>1 DEF CrawlTypes, Reads, x
<1> QED BY <1>1, <1>6, <1>7, ReadKeeps

LEMMA BlindKeeps == CrawlAlways /\ ScrapeBlind => CrawlAlways'
<1> SUFFICES ASSUME CrawlAlways, ScrapeBlind PROVE CrawlAlways'
  OBVIOUS
<1> DEFINE x == Head(crawl.to_visit)
<1>1. CrawlTypes /\ CrawlInv /\ Loops
  BY DEF CrawlAlways, ScrapeBlind
<1>2. /\ crawl.links \in [Urls -> SUBSET Urls] /\ crawl.to_visit \in Seq(Urls)
      /\ crawl.visited \in SUBSET Urls /\ crawl.to_visit # <<>>
  BY <1>1, CrawlTyped DEF Loops
<1>3. <<>> \in Seq(Urls) /\ IsInjective(<<>>) /\ ToSet(<<>>) = {}
  <2>1. <<>> \in Seq(Urls) /\ DOMAIN <<>> = {}
    OBVIOUS
  <2> QED BY <2>1 DEF IsInjective, ToSet
<1>4. Tail(crawl.to_visit) \o <<>> = Tail(crawl.to_visit)
  <2>1. Tail(crawl.to_visit) \in Seq(Urls)
    BY <1>2
  <2> QED BY <2>1
<1>5. Reads(<<>>, {x})
  <2>1. crawl.visited \cup ToSet(<<>>) = crawl.visited
    BY <1>3
  <2>2. crawl' = [crawl EXCEPT !.to_visit = Tail(crawl.to_visit), !.scraped = Append(crawl.scraped, x),
                               !.blind = crawl.blind \cup {x}]
    BY DEF ScrapeBlind, Popped, Current
  <2> HIDE DEF x
  <2> QED BY <1>1, <1>4, <2>1, <2>2 DEF CrawlTypes, Reads, x
<1>6. {x} \in SUBSET {Head(crawl.to_visit)} /\ {x} # {}
  OBVIOUS
<1>7. ToSet(<<>>) \subseteq crawl.links[x] \ crawl.visited
  BY <1>3
<1> QED BY <1>1, <1>3, <1>5, <1>6, <1>7, ReadKeeps

\* A crawl that begins again, and what follows the crawl.
LEMMA BeginsAgain ==
    ASSUME NEW links \in [Urls -> SUBSET Urls], NEW bad \in SUBSET Urls,
           NEW engine \in {"browser", "http", "failed"}, crawl' = Begun(links, bad, engine)
    PROVE  CrawlAlways'
<1>1. /\ crawl'.engine = engine /\ crawl'.visited = {Root} /\ crawl'.to_visit = <<Root>>
      /\ crawl'.scraped = <<>> /\ crawl'.skipped = {} /\ crawl'.blind = {}
      /\ crawl'.links = links /\ crawl'.bad = bad
  BY DEF Begun
<1>2. CrawlTypes'
  <2>1. <<Root>> \in Seq(Urls) /\ <<>> \in Seq(Urls) /\ {Root} \in SUBSET Urls
    BY CrawlAssumption
  <2> QED BY <2>1 DEF CrawlTypes, Begun
<1>3. Read' = {} /\ IsInjective(crawl'.scraped)
  <2>1. DOMAIN <<>> = {}
    OBVIOUS
  <2> QED BY <1>1, <2>1 DEF Read, ToSet, IsInjective
<1>4. Queued' = {Root} /\ IsInjective(crawl'.to_visit)
  <2>1. DOMAIN <<Root>> = {1} /\ <<Root>>[1] = Root
    OBVIOUS
  <2>2. ToSet(<<Root>>) = {Root} /\ IsInjective(<<Root>>)
    BY <2>1 DEF ToSet, IsInjective
  <2> QED BY <1>1, <2>2 DEF Queued
<1>5. Len(crawl'.scraped) <= MaxPages
  BY <1>1, CrawlAssumption
<1>6. \A S \in SUBSET Urls : Holds(S)' => Read' \cup Queued' \subseteq S
  BY <1>1, <1>3, <1>4 DEF Holds
<1>7. crawl'.engine # "done"
  BY <1>1
<1>8. CrawlInv'
  BY <1>1, <1>3, <1>4, <1>5, <1>6, <1>7 DEF CrawlInv
<1> QED BY <1>2, <1>8 DEF CrawlAlways

\* A crawl that stops: only its engine changes.
LEMMA StopKeeps ==
    ASSUME CrawlAlways, NEW engine \in {"done", "failed"},
           crawl' = [crawl EXCEPT !.engine = engine],
           engine = "done" => crawl.to_visit = <<>> \/ Len(crawl.scraped) = MaxPages
    PROVE  CrawlAlways'
<1>1. CrawlTypes /\ CrawlInv
  BY DEF CrawlAlways
<1>2. /\ crawl'.engine = engine /\ crawl'.visited = crawl.visited
      /\ crawl'.to_visit = crawl.to_visit /\ crawl'.scraped = crawl.scraped
      /\ crawl'.skipped = crawl.skipped /\ crawl'.blind = crawl.blind
      /\ crawl'.links = crawl.links /\ crawl'.bad = crawl.bad
      /\ CrawlTypes'
  BY <1>1 DEF CrawlTypes
<1>3. Read' = Read /\ Queued' = Queued
  BY <1>2 DEF Read, Queued
<1>4. \A S \in SUBSET Urls : Holds(S)' <=> Holds(S)
  BY <1>2, <1>3 DEF Holds
<1>5. CrawlInv'
  BY <1>1, <1>2, <1>3, <1>4 DEF CrawlInv
<1> QED BY <1>2, <1>5 DEF CrawlAlways

LEMMA CrawlNextKeeps == CrawlAlways /\ [Next]_vars => CrawlAlways'
<1> SUFFICES ASSUME CrawlAlways, [Next]_vars PROVE CrawlAlways'
  OBVIOUS
<1>1. CrawlTypes /\ CrawlInv
  BY DEF CrawlAlways
<1>2. /\ crawl.engine \in {"browser", "http", "done", "failed"}
      /\ crawl.links \in [Urls -> SUBSET Urls] /\ crawl.bad \in SUBSET Urls
      /\ crawl.to_visit \in Seq(Urls) /\ crawl.scraped \in Seq(Urls)
  BY <1>1, CrawlTyped
<1>3. CASE SkipPage
  BY <1>3, SkipKeeps
<1>4. CASE ScrapePage
  BY <1>4, ScrapeKeeps
<1>5. CASE ScrapeBlind
  BY <1>5, BlindKeeps
<1>6. CASE BrowserFails
  BY <1>2, <1>6, BeginsAgain DEF BrowserFails
<1>7. CASE LinkFails
  <2>1. CASE crawl.engine = "browser"
    BY <1>2, <1>7, <2>1, BeginsAgain DEF LinkFails
  <2>2. CASE crawl.engine # "browser"
    <3>1. crawl' = [crawl EXCEPT !.engine = "failed"]
      BY <1>7, <2>2 DEF LinkFails
    <3> QED BY <3>1, StopKeeps
  <2> QED BY <2>1, <2>2
<1>8. CASE Finish
  <2>1. crawl' = [crawl EXCEPT !.engine = "done"]
    BY <1>8 DEF Finish
  <2>2. crawl.to_visit = <<>> \/ Len(crawl.scraped) = MaxPages
    <3>1. Len(crawl.scraped) <= MaxPages /\ Len(crawl.scraped) \in Nat
      BY <1>1, <1>2 DEF CrawlInv
    <3> QED BY <1>8, <3>1, CrawlAssumption DEF Finish, Loops
  <2> QED BY <2>1, <2>2, StopKeeps
<1>9. CASE Returns
  <2>1. crawl' = Begun([u \in Urls |-> {}], {}, "failed")
    BY <1>9 DEF Returns
  <2>2. [u \in Urls |-> {}] \in [Urls -> SUBSET Urls] /\ {} \in SUBSET Urls
    OBVIOUS
  <2> QED BY <2>1, <2>2, BeginsAgain
<1>10. CASE UNCHANGED crawl
  <2>1. CrawlTypes' /\ Read' = Read /\ Queued' = Queued
    BY <1>1, <1>10 DEF CrawlTypes, Read, Queued
  <2>2. \A S \in SUBSET Urls : Holds(S)' <=> Holds(S)
    BY <1>10, <2>1 DEF Holds
  <2>3. CrawlInv'
    BY <1>1, <1>10, <2>1, <2>2 DEF CrawlInv
  <2> QED BY <2>1, <2>3 DEF CrawlAlways
<1> QED
  BY <1>3, <1>4, <1>5, <1>6, <1>7, <1>8, <1>9, <1>10
  DEF Next, Crawls, Later, CrawlNext, vars

LEMMA CrawlHolds == Spec => []CrawlAlways
<1>1. Init => CrawlAlways
  <2> SUFFICES ASSUME Init PROVE CrawlAlways
    OBVIOUS
  <2>1. PICK links \in [Urls -> SUBSET Urls], bad \in SUBSET Urls : crawl = Begun(links, bad, "browser")
    BY DEF Init, CrawlInit
  <2> QED BY <2>1, CrawlBegins
<1> QED BY <1>1, CrawlNextKeeps, PTL DEF Spec

-----------------------------------------------------------------------------
\* CrawlComplete, for every site, whatever pages do not load and wherever the browser
\* fails: the text of the source has each page that could be reached, once, unless
\* the pages it may have are used up.
THEOREM CrawlIsComplete == Spec => []CrawlComplete
<1>1. CrawlAlways => CrawlComplete
  <2> SUFFICES ASSUME CrawlAlways, crawl.engine = "done"
               PROVE  /\ IsInjective(crawl.scraped)
                      /\ ToSet(crawl.scraped) = Reachable \/ Len(crawl.scraped) = MaxPages
    BY DEF CrawlComplete
  <2>1. CrawlTypes /\ CrawlInv
    BY DEF CrawlAlways
  <2>2. IsInjective(crawl.scraped) /\ (crawl.to_visit = <<>> \/ Len(crawl.scraped) = MaxPages)
    BY <2>1 DEF CrawlInv
  <2>3. ASSUME crawl.to_visit = <<>> PROVE Read = Reachable
    <3>1. Queued = {}
      BY <2>3 DEF Queued, ToSet
    <3>2. Read \subseteq Urls /\ crawl.links \in [Urls -> SUBSET Urls]
      BY <2>1, CrawlTyped
    <3>3. \A S \in SUBSET Urls : Closed(S) => Holds(S)
      BY DEF Closed, Holds
    <3>4. \A S \in SUBSET Urls : Closed(S) => Read \subseteq S
      BY <2>1, <3>3 DEF CrawlInv
    <3>5. Closed(Read)
      <4>1. Root \in crawl.skipped \/ Root \in Read
        BY <2>1, <3>1 DEF CrawlInv
      <4>2. \A u \in Read \ crawl.blind : crawl.links[u] \ crawl.skipped \subseteq Read
        BY <2>1, <3>1 DEF CrawlInv
      <4> QED BY <4>1, <4>2 DEF Closed
    <3>6. Reachable \subseteq Read
      BY <3>2, <3>5 DEF Reachable
    <3>7. Read \subseteq Reachable
      BY <3>2, <3>4 DEF Reachable
    <3> QED BY <3>6, <3>7
  <2> QED BY <2>2, <2>3 DEF Read
<1> QED BY <1>1, CrawlHolds, PTL

-----------------------------------------------------------------------------
(* Where sections start and end. *)

LEMMA LeastNatural ==
    ASSUME NEW T, T \subseteq Nat, T # {}
    PROVE  \E n \in T : \A m \in T : n <= m
<1> DEFINE Less == {p \in Nat \X Nat : p[1] < p[2]}
<1>1. IsWellFoundedOn(Less, Nat)
  BY NatLessThanWellFounded DEF OpToRel
<1>2. \A m, n \in Nat : <<m, n>> \in Less <=> m < n
  OBVIOUS
<1> HIDE DEF Less
<1>3. PICK n \in T : \A m \in T : <<m, n>> \notin Less
  BY <1>1, WFMin
<1>4. \A m \in T : m \in Nat /\ n \in Nat /\ ~(m < n)
  BY <1>2, <1>3
<1>5. \A m \in T : n <= m
  BY <1>4
<1> QED BY <1>5

LEMMA MinLeast ==
    ASSUME NEW T, T \subseteq Nat, T # {}
    PROVE  Min(T) \in T /\ \A m \in T : Min(T) <= m
<1>1. \E n \in T : \A m \in T : n <= m
  BY LeastNatural
<1> QED BY <1>1 DEF Min

IsHead(md, key, i)  == md[i].level > 0 /\ md[i].text = key
IsEnd(md, start, i) == md[i].level > 0 /\ md[i].level <= md[start].level

\* The first heading of a key.
LEMMA StartIs ==
    ASSUME NEW md \in Seq(Line), NEW key
    PROVE  \/ Start(md, key) = 0 /\ \A i \in 1 .. Len(md) : ~IsHead(md, key, i)
           \/ /\ Start(md, key) \in 1 .. Len(md) /\ IsHead(md, key, Start(md, key))
              /\ \A i \in 1 .. Len(md) : IsHead(md, key, i) => Start(md, key) <= i
<1> DEFINE T == {i \in 1 .. Len(md) : IsHead(md, key, i)}
<1>1. Start(md, key) = IF T # {} THEN Min(T) ELSE 0
  BY DEF Start, SelectInSeq, IsHead
<1>2. T \subseteq Nat /\ T \subseteq 1 .. Len(md) /\ \A i \in T : IsHead(md, key, i)
  OBVIOUS
<1>3. \A i \in 1 .. Len(md) : IsHead(md, key, i) => i \in T
  OBVIOUS
<1> HIDE DEF T
<1>4. T # {} => Min(T) \in T /\ \A m \in T : Min(T) <= m
  BY <1>2, MinLeast
<1> QED BY <1>1, <1>2, <1>3, <1>4

\* The first heading after it that is not deeper.
LEMMA EndIs ==
    ASSUME NEW md \in Seq(Line), NEW start \in 1 .. Len(md)
    PROVE  /\ End(md, start) \in start + 1 .. Len(md) + 1
           /\ \A i \in start + 1 .. End(md, start) - 1 : ~IsEnd(md, start, i)
           /\ End(md, start) <= Len(md) => IsEnd(md, start, End(md, start))
<1> DEFINE T == {i \in start + 1 .. Len(md) : IsEnd(md, start, i)}
<1>1. End(md, start) = LET next == IF T # {} THEN Min(T) ELSE 0
                       IN  IF next = 0 THEN Len(md) + 1 ELSE next
  BY DEF End, SelectInSubSeq, IsEnd
<1>2. T \subseteq Nat /\ T \subseteq start + 1 .. Len(md) /\ \A i \in T : IsEnd(md, start, i)
  OBVIOUS
<1>3. \A i \in start + 1 .. Len(md) : IsEnd(md, start, i) => i \in T
  OBVIOUS
<1> HIDE DEF T
<1>4. T # {} => Min(T) \in T /\ \A m \in T : Min(T) <= m
  BY <1>2, MinLeast
<1>5. CASE T = {}
  BY <1>1, <1>3, <1>5
<1>6. CASE T # {}
  <2>1. Min(T) \in start + 1 .. Len(md) /\ IsEnd(md, start, Min(T)) /\ End(md, start) = Min(T)
    <3>1. Min(T) \in T
      BY <1>4, <1>6
    <3>2. Min(T) \in start + 1 .. Len(md) /\ IsEnd(md, start, Min(T))
      BY <1>2, <3>1
    <3>3. Min(T) # 0
      BY <3>2
    <3>4. End(md, start) = Min(T)
      BY <1>1, <1>6, <3>3, Zenon
    <3> QED BY <3>2, <3>4
  <2>2. \A i \in start + 1 .. Min(T) - 1 : ~IsEnd(md, start, i)
    BY <1>3, <1>4, <1>6, <2>1
  <2> QED BY <2>1, <2>2
<1> QED BY <1>5, <1>6

\* Both are the only places of which this is true.
LEMMA StartHere ==
    ASSUME NEW md \in Seq(Line), NEW key, NEW n \in 1 .. Len(md), IsHead(md, key, n),
           \A i \in 1 .. n - 1 : ~IsHead(md, key, i)
    PROVE  Start(md, key) = n
<1>1. Start(md, key) \in 1 .. Len(md) /\ IsHead(md, key, Start(md, key)) /\ Start(md, key) <= n
  BY StartIs
<1> QED BY <1>1

LEMMA EndHere ==
    ASSUME NEW md \in Seq(Line), NEW start \in 1 .. Len(md), NEW n \in start + 1 .. Len(md) + 1,
           \A i \in start + 1 .. n - 1 : ~IsEnd(md, start, i),
           n <= Len(md) => IsEnd(md, start, n)
    PROVE  End(md, start) = n
<1>1. /\ End(md, start) \in start + 1 .. Len(md) + 1
      /\ \A i \in start + 1 .. End(md, start) - 1 : ~IsEnd(md, start, i)
      /\ End(md, start) <= Len(md) => IsEnd(md, start, End(md, start))
  BY EndIs
<1>2. ~(End(md, start) < n)
  BY <1>1
<1>3. ~(n < End(md, start))
  BY <1>1
<1> QED BY <1>1, <1>2, <1>3

-----------------------------------------------------------------------------
(* What apply_section_update puts where. *)

\* A section's lines from start to end are replaced, its heading kept.
Spliced(md, start, new, end) == SubSeq(md, 1, start) \o new \o SubSeq(md, end, Len(md))

Splices(r, md, start, new, end) ==
    /\ Len(r) = start + Len(new) + (Len(md) - end + 1)
    /\ \A i \in 1 .. start : r[i] = md[i]
    /\ \A i \in 1 .. Len(new) : r[start + i] = new[i]
    /\ \A i \in end .. Len(md) : r[i + (start + Len(new) + 1 - end)] = md[i]

LEMMA SplicedIs ==
    ASSUME NEW md \in Seq(Line), NEW new \in Seq(Line), NEW start \in 1 .. Len(md),
           NEW end \in start + 1 .. Len(md) + 1
    PROVE  /\ Spliced(md, start, new, end) \in Seq(Line)
           /\ Splices(Spliced(md, start, new, end), md, start, new, end)
<1> DEFINE a == SubSeq(md, 1, start)
           b == SubSeq(md, end, Len(md))
<1>1. a \in Seq(Line) /\ Len(a) = start /\ \A i \in 1 .. start : a[i] = md[i]
  OBVIOUS
<1>2. b \in Seq(Line) /\ Len(b) = Len(md) - end + 1
      /\ \A i \in 1 .. Len(md) - end + 1 : b[i] = md[end + i - 1]
  OBVIOUS
<1> HIDE DEF a, b
<1>3. a \o new \in Seq(Line) /\ Len(a \o new) = start + Len(new)
      /\ (\A i \in 1 .. start : (a \o new)[i] = md[i])
      /\ \A i \in 1 .. Len(new) : (a \o new)[start + i] = new[i]
  BY <1>1
<1> DEFINE c == a \o new
<1>4. c \in Seq(Line) /\ Len(c) = start + Len(new) /\ (\A i \in 1 .. start : c[i] = md[i])
      /\ \A i \in 1 .. Len(new) : c[start + i] = new[i]
  BY <1>3
<1> HIDE DEF c
<1>5. /\ c \o b \in Seq(Line) /\ Len(c \o b) = start + Len(new) + (Len(md) - end + 1)
      /\ \A i \in 1 .. start + Len(new) : (c \o b)[i] = c[i]
      /\ \A i \in 1 .. Len(md) - end + 1 : (c \o b)[start + Len(new) + i] = b[i]
  <2>1. c \in Seq(Line) /\ b \in Seq(Line)
    BY <1>2, <1>4
  <2>2. c \o b \in Seq(Line) /\ Len(c \o b) = Len(c) + Len(b)
    BY ONLY <2>1
  <2>3. \A i \in 1 .. Len(c) : (c \o b)[i] = c[i]
    BY ONLY <2>1
  <2>4. \A i \in 1 .. Len(b) : (c \o b)[Len(c) + i] = b[i]
    BY ONLY <2>1
  <2> QED BY <1>2, <1>4, <2>2, <2>3, <2>4
<1>6. \A i \in 1 .. Len(new) : start + i \in 1 .. start + Len(new)
  OBVIOUS
<1>7. \A i \in end .. Len(md) :
         /\ i - end + 1 \in 1 .. Len(md) - end + 1 /\ b[i - end + 1] = md[i]
         /\ start + Len(new) + (i - end + 1) = i + (start + Len(new) + 1 - end)
  BY <1>2
<1>8. Spliced(md, start, new, end) = c \o b
  BY DEF Spliced, a, b, c
<1>9. \A i \in end .. Len(md) : (c \o b)[i + (start + Len(new) + 1 - end)] = md[i]
  BY <1>5, <1>7
<1>10. \A i \in 1 .. start : (c \o b)[i] = md[i]
  BY <1>4, <1>5
<1>11. \A i \in 1 .. Len(new) : (c \o b)[start + i] = new[i]
  BY <1>4, <1>5, <1>6
<1>12. c \o b \in Seq(Line) /\ Len(c \o b) = start + Len(new) + (Len(md) - end + 1)
  BY <1>5
<1>13. Splices(c \o b, md, start, new, end)
  BY ONLY <1>9, <1>10, <1>11, <1>12 DEF Splices
<1> QED BY ONLY <1>8, <1>12, <1>13

\* A new section is added at the end.
LEMMA AddedIs ==
    ASSUME NEW md \in Seq(Line), NEW new \in Seq(Line), NEW h \in Line
    PROVE  /\ Append(md, h) \o new \in Seq(Line)
           /\ Len(Append(md, h) \o new) = Len(md) + 1 + Len(new)
           /\ \A i \in 1 .. Len(md) : (Append(md, h) \o new)[i] = md[i]
           /\ (Append(md, h) \o new)[Len(md) + 1] = h
           /\ \A i \in 1 .. Len(new) : (Append(md, h) \o new)[Len(md) + 1 + i] = new[i]
<1> DEFINE a == Append(md, h)
<1>1. a \in Seq(Line) /\ Len(a) = Len(md) + 1 /\ (\A i \in 1 .. Len(md) : a[i] = md[i])
      /\ a[Len(md) + 1] = h
  OBVIOUS
<1> HIDE DEF a
<1>2. a \o new \in Seq(Line) /\ Len(a \o new) = Len(md) + 1 + Len(new)
      /\ (\A i \in 1 .. Len(md) + 1 : (a \o new)[i] = a[i])
      /\ \A i \in 1 .. Len(new) : (a \o new)[Len(md) + 1 + i] = new[i]
  BY <1>1
<1>3. /\ a \o new \in Seq(Line) /\ Len(a \o new) = Len(md) + 1 + Len(new)
      /\ (\A i \in 1 .. Len(md) : (a \o new)[i] = md[i]) /\ (a \o new)[Len(md) + 1] = h
      /\ \A i \in 1 .. Len(new) : (a \o new)[Len(md) + 1 + i] = new[i]
  BY <1>1, <1>2
<1> QED BY <1>3 DEF a

\* The same lines make the same text.
Piece(md, a, n) == SubSeq(md, a + 1, a + n)
Alike(r, a, md, b, n) ==
    a + n <= Len(r) /\ b + n <= Len(md) /\ \A i \in 1 .. n : r[a + i] = md[b + i]

LEMMA SameText ==
    ASSUME NEW r \in Seq(Line), NEW md \in Seq(Line), NEW a \in Nat, NEW b \in Nat, NEW n \in Nat,
           Alike(r, a, md, b, n)
    PROVE  Piece(r, a, n) = Piece(md, b, n)
<1> DEFINE x == SubSeq(r, a + 1, a + n)
           y == SubSeq(md, b + 1, b + n)
<1>1. x \in Seq(Line) /\ Len(x) = n /\ \A i \in 1 .. n : x[i] = r[a + i]
  BY DEF Alike
<1>2. y \in Seq(Line) /\ Len(y) = n /\ \A i \in 1 .. n : y[i] = md[b + i]
  BY DEF Alike
<1> HIDE DEF x, y
<1>3. DOMAIN x = 1 .. n /\ DOMAIN y = 1 .. n
  BY <1>1, <1>2
<1>4. \A i \in 1 .. n : x[i] = y[i]
  BY <1>1, <1>2 DEF Alike
<1>5. x = [i \in DOMAIN x |-> x[i]] /\ y = [i \in DOMAIN y |-> y[i]]
  BY <1>1, <1>2
<1>6. x = y
  BY <1>3, <1>4, <1>5
<1> QED BY <1>6 DEF x, y, Piece

-----------------------------------------------------------------------------
(* The doc and its headings. *)

\* No heading of the doc comes twice, but those that came with an answer.
HeadsOnce ==
    \A k \in Keys \ echoed : \A i, j \in 1 .. Len(doc) :
        IsHead(doc, k, i) /\ IsHead(doc, k, j) => i = j

DocInv ==
    /\ doc \in Seq(Line) /\ body \in [Keys -> Seq(Line)]
    /\ echoed \subseteq STRING /\ stirred \subseteq Keys

BodyInv == \A k \in Keys \ (echoed \cup stirred) : extract_section(doc, k) = body[k]

\* What publish_to_db does to the doc: the section of the key is replaced, or added.
LEMMA UpdateIs ==
    ASSUME DocInv, NEW key \in Keys, NEW new \in Seq(Line)
    PROVE  LET start == Start(doc, key)
               new_md == apply_section_update(doc, key, new)
           IN  /\ new_md \in Seq(Line)
               /\ start = 0 => new_md = Append(doc, [level |-> 2, text |-> key]) \o new
               /\ start # 0 => /\ start \in 1 .. Len(doc)
                               /\ End(doc, start) \in start + 1 .. Len(doc) + 1
                               /\ new_md = Spliced(doc, start, new, End(doc, start))
<1> DEFINE start == Start(doc, key)
           new_md == apply_section_update(doc, key, new)
<1>1. doc \in Seq(Line) /\ start \in 0 .. Len(doc)
  BY StartIs DEF DocInv
<1>2. [level |-> 2, text |-> key] \in Line
  BY DocTextAssumption DEF Line
<1>3. CASE start = 0
  <2>1. new_md = Append(doc, [level |-> 2, text |-> key]) \o new
    BY <1>3 DEF apply_section_update
  <2>2. new_md \in Seq(Line)
    BY <1>1, <1>2, <2>1, AddedIs
  <2> QED BY <1>3, <2>1, <2>2
<1>4. CASE start # 0
  <2>1. start \in 1 .. Len(doc) /\ End(doc, start) \in start + 1 .. Len(doc) + 1
    BY <1>1, <1>4, EndIs
  <2>2. new_md = Spliced(doc, start, new, End(doc, start))
    BY <1>4 DEF apply_section_update, Spliced
  <2>3. new_md \in Seq(Line)
    BY <1>1, <2>1, <2>2, SplicedIs
  <2> QED BY <1>4, <2>1, <2>2, <2>3
<1> QED BY <1>3, <1>4

\* Its lines.
LEMMA ReplacedIs ==
    ASSUME DocInv, NEW key \in Keys, NEW new \in Seq(Line), Start(doc, key) # 0
    PROVE  /\ Start(doc, key) \in 1 .. Len(doc)
           /\ End(doc, Start(doc, key)) \in Start(doc, key) + 1 .. Len(doc) + 1
           /\ Splices(apply_section_update(doc, key, new), doc, Start(doc, key), new,
                      End(doc, Start(doc, key)))
<1> DEFINE start == Start(doc, key)
           end == End(doc, start)
           r == apply_section_update(doc, key, new)
<1>1. start \in 1 .. Len(doc) /\ end \in start + 1 .. Len(doc) + 1
      /\ r = Spliced(doc, start, new, end) /\ doc \in Seq(Line)
  BY UpdateIs DEF DocInv
<1> HIDE DEF start, end, r
<1>2. Splices(r, doc, start, new, end)
  BY <1>1, SplicedIs
<1> QED BY <1>1, <1>2 DEF start, end, r

LEMMA UpdateTyped ==
    ASSUME DocInv, NEW key \in Keys, NEW new \in Seq(Line)
    PROVE  /\ apply_section_update(doc, key, new) \in Seq(Line)
           /\ doc \in Seq(Line) /\ Len(doc) \in Nat /\ Len(new) \in Nat
           /\ [level |-> 2, text |-> key] \in Line
<1>1. apply_section_update(doc, key, new) \in Seq(Line)
  BY UpdateIs
<1>2. doc \in Seq(Line) /\ Len(doc) \in Nat /\ Len(new) \in Nat
  BY DEF DocInv
<1>3. [level |-> 2, text |-> key] \in Line
  BY DocTextAssumption DEF Line
<1> QED BY <1>1, <1>2, <1>3

\* An answer brings its headings into echoed.
LEMMA Echoes ==
    ASSUME NEW new \in Seq(Line), NEW k, k \notin HeadingsIn(new), NEW i \in 1 .. Len(new)
    PROVE  ~IsHead(new, k, i)
BY DEF HeadingsIn, IsHead

\* Where the headings of a key come from after an update.
LEMMA HeadsMove ==
    ASSUME DocInv, NEW key \in Keys, NEW new \in Seq(Line), NEW k, k \notin HeadingsIn(new),
           NEW i \in 1 .. Len(apply_section_update(doc, key, new)),
           IsHead(apply_section_update(doc, key, new), k, i)
    PROVE  \/ Start(doc, key) = 0 /\ i \in 1 .. Len(doc) /\ IsHead(doc, k, i)
           \/ Start(doc, key) = 0 /\ i = Len(doc) + 1 /\ k = key
           \/ Start(doc, key) # 0 /\ i \in 1 .. Start(doc, key) /\ IsHead(doc, k, i)
           \/ /\ Start(doc, key) # 0
              /\ \E j \in End(doc, Start(doc, key)) .. Len(doc) :
                    /\ i = j + (Start(doc, key) + Len(new) + 1 - End(doc, Start(doc, key)))
                    /\ IsHead(doc, k, j)
<1> DEFINE start == Start(doc, key)
           end == End(doc, start)
           h == [level |-> 2, text |-> key]
           md == apply_section_update(doc, key, new)
<1>1. doc \in Seq(Line) /\ h \in Line /\ Len(doc) \in Nat /\ Len(new) \in Nat
  BY DocTextAssumption DEF DocInv, Line
<1>2. CASE start = 0
  <2>1. md = Append(doc, h) \o new
    BY <1>2, UpdateIs
  <2>2. /\ Len(md) = Len(doc) + 1 + Len(new) /\ (\A j \in 1 .. Len(doc) : md[j] = doc[j])
        /\ md[Len(doc) + 1] = h /\ \A j \in 1 .. Len(new) : md[Len(doc) + 1 + j] = new[j]
    BY <1>1, <2>1, AddedIs
  <2> HIDE DEF md
  <2>3. CASE i \in 1 .. Len(doc)
    BY <1>2, <2>2, <2>3 DEF IsHead, md
  <2>4. CASE i = Len(doc) + 1
    BY <1>2, <2>2, <2>4 DEF IsHead, md
  <2>5. CASE i - (Len(doc) + 1) \in 1 .. Len(new)
    <3>1. md[i] = new[i - (Len(doc) + 1)]
      BY <1>1, <2>2, <2>5
    <3> QED BY <2>5, <3>1, Echoes DEF IsHead, md
  <2> QED BY <1>1, <2>2, <2>3, <2>4, <2>5 DEF md
<1>3. CASE start # 0
  <2>1. /\ md = Spliced(doc, start, new, end) /\ start \in 1 .. Len(doc)
        /\ end \in start + 1 .. Len(doc) + 1
    BY <1>3, UpdateIs
  <2>2. /\ Len(md) = start + Len(new) + (Len(doc) - end + 1)
        /\ \A j \in 1 .. start : md[j] = doc[j]
        /\ \A j \in 1 .. Len(new) : md[start + j] = new[j]
        /\ \A j \in end .. Len(doc) : md[j + (start + Len(new) + 1 - end)] = doc[j]
    <3> HIDE DEF md, start, end, h
    <3>1. Splices(md, doc, start, new, end)
      BY <1>1, <2>1, SplicedIs
    <3> QED BY ONLY <3>1 DEF Splices
  <2> HIDE DEF md, start, end
  <2>3. CASE i \in 1 .. start
    BY <1>3, <2>2, <2>3 DEF IsHead, md, start
  <2>4. CASE i - start \in 1 .. Len(new)
    <3>1. md[i] = new[i - start]
      BY <1>1, <2>1, <2>2, <2>4
    <3> QED BY <2>4, <3>1, Echoes DEF IsHead, md
  <2>5. CASE i \in start + Len(new) + 1 .. Len(md)
    <3> DEFINE j == i - (start + Len(new) + 1 - end)
    <3>1. j \in end .. Len(doc) /\ i = j + (start + Len(new) + 1 - end)
      BY <1>1, <2>1, <2>2, <2>5
    <3>2. md[i] = doc[j]
      BY <2>2, <3>1
    <3> HIDE DEF j
    <3> QED BY <1>3, <3>1, <3>2 DEF IsHead, md, start, end
  <2> QED BY <1>1, <2>1, <2>2, <2>3, <2>4, <2>5 DEF md
<1> QED BY <1>2, <1>3

\* An update adds no second heading of its own.
LEMMA OnceKeeps ==
    ASSUME DocInv, HeadsOnce, NEW key \in Keys, NEW new \in Seq(Line), NEW k \in Keys \ echoed,
           k \notin HeadingsIn(new),
           NEW i \in 1 .. Len(apply_section_update(doc, key, new)),
           NEW j \in 1 .. Len(apply_section_update(doc, key, new)),
           IsHead(apply_section_update(doc, key, new), k, i),
           IsHead(apply_section_update(doc, key, new), k, j)
    PROVE  i = j
<1> DEFINE start == Start(doc, key)
           end == End(doc, start)
           delta == start + Len(new) + 1 - end
<1>1. doc \in Seq(Line) /\ Len(doc) \in Nat /\ Len(new) \in Nat /\ start \in Nat
      /\ (start # 0 => start \in 1 .. Len(doc) /\ end \in start + 1 .. Len(doc) + 1)
  <2>1. doc \in Seq(Line) /\ start \in 0 .. Len(doc)
    BY StartIs DEF DocInv
  <2> HIDE DEF start
  <2>2. start # 0 => start \in 1 .. Len(doc)
    BY <2>1
  <2>3. start # 0 => end \in start + 1 .. Len(doc) + 1
    BY <2>1, <2>2, EndIs
  <2> QED BY <2>1, <2>2, <2>3
<1>2. \A m, n \in 1 .. Len(doc) : IsHead(doc, k, m) /\ IsHead(doc, k, n) => m = n
  BY DEF HeadsOnce
<1>3. \/ start = 0 /\ i \in 1 .. Len(doc) /\ IsHead(doc, k, i)
      \/ start = 0 /\ i = Len(doc) + 1 /\ k = key
      \/ start # 0 /\ i \in 1 .. start /\ IsHead(doc, k, i)
      \/ start # 0 /\ \E n \in end .. Len(doc) : i = n + delta /\ IsHead(doc, k, n)
  BY HeadsMove
<1>4. \/ start = 0 /\ j \in 1 .. Len(doc) /\ IsHead(doc, k, j)
      \/ start = 0 /\ j = Len(doc) + 1 /\ k = key
      \/ start # 0 /\ j \in 1 .. start /\ IsHead(doc, k, j)
      \/ start # 0 /\ \E n \in end .. Len(doc) : j = n + delta /\ IsHead(doc, k, n)
  BY HeadsMove
<1>5. start = 0 => \A n \in 1 .. Len(doc) : ~IsHead(doc, key, n)
  BY <1>1, StartIs
<1> HIDE DEF start, end
<1>6. CASE start = 0
  BY <1>2, <1>3, <1>4, <1>5, <1>6
<1>7. CASE start # 0
  <2>1. PICK m \in 1 .. Len(doc) : IsHead(doc, k, m) /\ ((m <= start /\ i = m) \/ (m >= end /\ i = m + delta))
    BY <1>1, <1>3, <1>7
  <2>2. PICK n \in 1 .. Len(doc) : IsHead(doc, k, n) /\ ((n <= start /\ j = n) \/ (n >= end /\ j = n + delta))
    BY <1>1, <1>4, <1>7
  <2>3. m = n
    BY <1>2, <2>1, <2>2
  <2> QED BY <1>1, <1>7, <2>1, <2>2, <2>3
<1> QED BY <1>6, <1>7

-----------------------------------------------------------------------------
(* What the sections say. *)

\* A section that only moves says the same.
Moved(r, md, k, own, e, d) ==
    /\ own + d \in 1 .. Len(r) /\ e + d <= Len(r) + 1
    /\ \A i \in own .. e - 1 : r[i + d] = md[i]
    /\ \A i \in 1 .. own + d - 1 : ~IsHead(r, k, i)
    /\ e + d <= Len(r) => IsEnd(r, own + d, e + d)

LEMMA SectionMoves ==
    ASSUME NEW md \in Seq(Line), NEW r \in Seq(Line), NEW k, NEW own \in 1 .. Len(md),
           NEW e \in Nat, NEW d \in Int, Start(md, k) = own, End(md, own) = e,
           Moved(r, md, k, own, e, d)
    PROVE  extract_section(r, k) = extract_section(md, k)
<1> DEFINE Moves == \A i \in own .. e - 1 : r[i + d] = md[i]
           First == \A i \in 1 .. own + d - 1 : ~IsHead(r, k, i)
           Ends  == e + d <= Len(r) => IsEnd(r, own + d, e + d)
<1>0. Moves /\ First /\ Ends
  BY Zenon DEF Moved
<1>a. /\ md \in Seq(Line) /\ r \in Seq(Line) /\ own \in 1 .. Len(md) /\ e \in Nat /\ d \in Int
      /\ Start(md, k) = own /\ End(md, own) = e /\ own + d \in 1 .. Len(r) /\ e + d <= Len(r) + 1
  BY Zenon DEF Moved
<1> HIDE DEF Moves, First, Ends
<1>1. /\ IsHead(md, k, own) /\ e \in own + 1 .. Len(md) + 1
      /\ \A i \in own + 1 .. e - 1 : ~IsEnd(md, own, i)
  <2>1. IsHead(md, k, own)
    BY ONLY <1>a, StartIs
  <2>2. e \in own + 1 .. Len(md) + 1 /\ \A i \in own + 1 .. e - 1 : ~IsEnd(md, own, i)
    BY ONLY <1>a, EndIs
  <2> QED BY <2>1, <2>2
<1>2. r[own + d] = md[own] /\ IsHead(r, k, own + d)
  <2>1. own \in own .. e - 1
    BY ONLY <1>1, <1>a
  <2>2. r[own + d] = md[own]
    BY ONLY <1>0, <2>1 DEF Moves
  <2> QED BY ONLY <1>1, <2>2 DEF IsHead
<1>3. Start(r, k) = own + d
  BY ONLY <1>0, <1>2, <1>a, StartHere DEF First
<1>4. \A i \in own + d + 1 .. e + d - 1 : ~IsEnd(r, own + d, i)
  <2> SUFFICES ASSUME NEW i \in own + d + 1 .. e + d - 1 PROVE ~IsEnd(r, own + d, i)
    OBVIOUS
  <2>1. i - d \in own + 1 .. e - 1 /\ i - d \in own .. e - 1 /\ (i - d) + d = i
    BY ONLY <1>1, <1>a, i \in own + d + 1 .. e + d - 1
  <2>2. r[i] = md[i - d] /\ ~IsEnd(md, own, i - d)
    BY ONLY <1>0, <1>1, <2>1 DEF Moves
  <2> QED BY <1>2, <2>2 DEF IsEnd
<1>5. End(r, own + d) = e + d
  <2> DEFINE a == own + d
             b == e + d
  <2>1. a \in 1 .. Len(r) /\ b \in a + 1 .. Len(r) + 1 /\ (\A i \in a + 1 .. b - 1 : ~IsEnd(r, a, i))
        /\ (b <= Len(r) => IsEnd(r, a, b))
    BY ONLY <1>0, <1>1, <1>4, <1>a DEF Ends
  <2> HIDE DEF a, b
  <2>2. End(r, a) = b
    BY <2>1, EndHere
  <2> QED BY <2>2 DEF a, b
<1>6. SubSeq(r, own + d + 1, e + d - 1) = SubSeq(md, own + 1, e - 1)
  <2> DEFINE a == own + d
             n == e - 1 - own
  <2>1. /\ a \in Nat /\ n \in Nat /\ own \in Nat /\ a + n <= Len(r) /\ own + n <= Len(md)
        /\ a + n = e + d - 1 /\ own + n = e - 1
    BY ONLY <1>1, <1>a
  <2>2. \A i \in 1 .. n : r[a + i] = md[own + i]
    <3> SUFFICES ASSUME NEW i \in 1 .. n PROVE r[a + i] = md[own + i]
      OBVIOUS
    <3>1. own + i \in own .. e - 1 /\ (own + i) + d = a + i
      BY ONLY <1>1, <1>a, i \in 1 .. n
    <3> QED BY ONLY <1>0, <3>1 DEF Moves
  <2> HIDE DEF n, a
  <2>3. Piece(r, a, n) = Piece(md, own, n)
    <3>1. r \in Seq(Line) /\ md \in Seq(Line) /\ a \in Nat /\ own \in Nat /\ n \in Nat
      BY <2>1
    <3>2. Alike(r, a, md, own, n)
      BY ONLY <2>1, <2>2 DEF Alike
    <3> QED BY ONLY <3>1, <3>2, SameText
  <2> QED BY <2>1, <2>3 DEF a, Piece
<1>7. extract_section(r, k) = SubSeq(r, own + d + 1, e + d - 1)
  <2>1. own + d # 0
    BY <1>a
  <2> QED BY ONLY <1>3, <1>5, <2>1 DEF extract_section
<1>8. extract_section(md, k) = SubSeq(md, own + 1, e - 1)
  <2>1. own # 0
    BY <1>a
  <2> QED BY ONLY <1>a, <2>1 DEF extract_section
<1> QED BY <1>6, <1>7, <1>8

\* A section whose lines are an answer without headings says that answer.
Says(r, new, k, n) ==
    /\ IsHead(r, k, n) /\ \A i \in 1 .. n - 1 : ~IsHead(r, k, i)
    /\ n + Len(new) <= Len(r) /\ \A i \in 1 .. Len(new) : r[n + i] = new[i]
    /\ n + Len(new) + 1 <= Len(r) => IsEnd(r, n, n + Len(new) + 1)

LEMMA SectionSays ==
    ASSUME NEW r \in Seq(Line), NEW new \in Seq(Line), NEW k, NEW n \in 1 .. Len(r),
           HeadingsIn(new) = {}, Says(r, new, k, n)
    PROVE  extract_section(r, k) = new
<1>0. /\ IsHead(r, k, n) /\ \A i \in 1 .. n - 1 : ~IsHead(r, k, i)
      /\ n + Len(new) <= Len(r) /\ \A i \in 1 .. Len(new) : r[n + i] = new[i]
      /\ n + Len(new) + 1 <= Len(r) => IsEnd(r, n, n + Len(new) + 1)
  BY Zenon DEF Says
<1> DEFINE e == n + Len(new) + 1
<1>1. Len(new) \in Nat /\ n \in Nat /\ Len(r) \in Nat
  OBVIOUS
<1>2. Start(r, k) = n
  BY <1>0, StartHere
<1>3. \A i \in n + 1 .. e - 1 : ~IsEnd(r, n, i)
  <2> SUFFICES ASSUME NEW i \in n + 1 .. e - 1 PROVE ~IsEnd(r, n, i)
    OBVIOUS
  <2>1. i - n \in 1 .. Len(new) /\ n + (i - n) = i
    BY <1>1
  <2>2. r[i] = new[i - n] /\ ~(new[i - n].level > 0)
    <3>1. r[i] = new[i - n]
      BY <1>0, <2>1
    <3>2. ~(new[i - n].level > 0)
      <4>1. i - n \in DOMAIN new
        BY <2>1
      <4> QED BY <4>1, Zenon DEF HeadingsIn
    <3> QED BY <3>1, <3>2
  <2> QED BY <2>2 DEF IsEnd
<1>4. End(r, n) = e
  <2>1. e \in n + 1 .. Len(r) + 1 /\ (e <= Len(r) => IsEnd(r, n, e))
    BY <1>0, <1>1
  <2> HIDE DEF e
  <2> QED BY <1>3, <2>1, EndHere
<1>5. SubSeq(r, n + 1, n + Len(new)) = new
  <2>1. Piece(r, n, Len(new)) = Piece(new, 0, Len(new))
    <3>1. Alike(r, n, new, 0, Len(new))
      BY <1>0, <1>1 DEF Alike
    <3>2. r \in Seq(Line) /\ new \in Seq(Line) /\ 0 \in Nat
      OBVIOUS
    <3> QED BY ONLY <1>1, <3>1, <3>2, SameText
  <2>2. Piece(new, 0, Len(new)) = new
    BY DEF Piece
  <2> QED BY <2>1, <2>2 DEF Piece
<1>6. extract_section(r, k) = SubSeq(r, n + 1, e - 1)
  BY <1>1, <1>2, <1>4 DEF extract_section
<1>7. e - 1 = n + Len(new)
  BY <1>1
<1> QED BY <1>5, <1>6, <1>7

\* The section of another key, when one is added at the end.
LEMMA OtherWhenAdded ==
    ASSUME DocInv, NEW key \in Keys, NEW new \in Seq(Line), NEW k \in Keys, k # key,
           k \notin HeadingsIn(new), ~Around(k, Start(doc, key)), Start(doc, key) = 0
    PROVE  extract_section(apply_section_update(doc, key, new), k) = extract_section(doc, k)
<1> DEFINE h == [level |-> 2, text |-> key]
           r == apply_section_update(doc, key, new)
           own == Start(doc, k)
           e == End(doc, own)
<1>1. doc \in Seq(Line) /\ h \in Line /\ Len(doc) \in Nat /\ Len(new) \in Nat /\ r \in Seq(Line)
  BY UpdateTyped
<1>2. /\ Len(r) = Len(doc) + 1 + Len(new) /\ (\A j \in 1 .. Len(doc) : r[j] = doc[j])
      /\ r[Len(doc) + 1] = h
  <2>1. r = Append(doc, h) \o new
    BY UpdateIs
  <2> HIDE DEF r, h
  <2> QED BY <1>1, <2>1, AddedIs
<1>3. \A i \in 1 .. Len(r) : IsHead(r, k, i) => i \in 1 .. Len(doc) /\ IsHead(doc, k, i)
  BY HeadsMove
<1>4. \/ own = 0 /\ \A i \in 1 .. Len(doc) : ~IsHead(doc, k, i)
      \/ /\ own \in 1 .. Len(doc) /\ IsHead(doc, k, own)
         /\ \A i \in 1 .. Len(doc) : IsHead(doc, k, i) => own <= i
  BY <1>1, StartIs
<1>5. CASE own = 0
  <2>1. Start(r, k) = 0
    <3> HIDE DEF r, own
    <3>1. \A i \in 1 .. Len(r) : ~IsHead(r, k, i)
      BY <1>3, <1>4, <1>5
    <3> QED BY <1>1, <3>1, StartIs
  <2> HIDE DEF r
  <2>2. extract_section(r, k) = <<>>
    BY ONLY <2>1 DEF extract_section
  <2>3. extract_section(doc, k) = <<>>
    BY ONLY <1>5 DEF extract_section, own
  <2> QED BY <2>2, <2>3 DEF r
<1>6. CASE own # 0
  <2>1. own \in 1 .. Len(doc) /\ IsHead(doc, k, own)
        /\ \A i \in 1 .. Len(doc) : IsHead(doc, k, i) => own <= i
    BY <1>4, <1>6
  <2>2. e \in own + 1 .. Len(doc) + 1 /\ (e <= Len(doc) => IsEnd(doc, own, e))
    <3> HIDE DEF own
    <3> QED BY <1>1, <2>1, EndIs
  <2>3. e <= Len(doc) \/ doc[own].level # 1
    BY <1>1, <1>6, <2>1, <2>2 DEF Around
  <2> HIDE DEF r, own, e, h
  <2>4. IsEnd(r, own, e)
    <3>1. CASE e <= Len(doc)
      BY <1>2, <2>1, <2>2, <3>1 DEF IsEnd
    <3>2. CASE e > Len(doc)
      <4>1. e = Len(doc) + 1 /\ r[e] = h /\ r[own] = doc[own]
        BY <1>1, <1>2, <2>1, <2>2, <3>2
      <4>2. doc[own].level >= 2
        <5>1. doc[own].level \in 0 .. 6
          <6>1. doc[own] \in Line
            BY <1>1, <2>1
          <6> QED BY ONLY <6>1 DEF Line
        <5>2. doc[own].level > 0 /\ doc[own].level # 1
          BY <1>1, <2>1, <2>2, <2>3, <3>2 DEF IsHead
        <5> QED BY ONLY <5>1, <5>2
      <4> QED BY <4>1, <4>2 DEF IsEnd, h
    <3> QED BY <1>1, <2>2, <3>1, <3>2
  <2>5. Moved(r, doc, k, own, e, 0)
    <3>1. own + 0 = own /\ e + 0 = e /\ own \in 1 .. Len(r) /\ e <= Len(r) + 1
      BY <1>1, <1>2, <2>1, <2>2
    <3>2. \A i \in own .. e - 1 : r[i + 0] = doc[i]
      <4>1. \A i \in own .. e - 1 : i \in 1 .. Len(doc) /\ i + 0 = i
        BY <1>1, <2>1, <2>2
      <4> QED BY <1>2, <4>1
    <3>3. \A i \in 1 .. own - 1 : ~IsHead(r, k, i)
      BY <1>1, <1>2, <1>3, <2>1
    <3> QED BY ONLY <2>4, <3>1, <3>2, <3>3 DEF Moved
  <2>6. Start(doc, k) = own /\ End(doc, own) = e /\ e \in Nat /\ 0 \in Int
    BY <2>1, <2>2 DEF own, e
  <2> QED BY ONLY <1>1, <2>1, <2>5, <2>6, SectionMoves DEF r
<1> QED BY <1>5, <1>6

\* The section of another key, when one is replaced.
LEMMA OtherWhenReplaced ==
    ASSUME DocInv, NEW key \in Keys, NEW new \in Seq(Line), NEW k \in Keys, k # key,
           k \notin HeadingsIn(new), ~Around(k, Start(doc, key)), Start(doc, key) # 0
    PROVE  extract_section(apply_section_update(doc, key, new), k) = extract_section(doc, k)
<1> DEFINE r == apply_section_update(doc, key, new)
           start == Start(doc, key)
           end == End(doc, start)
           d == start + Len(new) + 1 - end
           own == Start(doc, k)
           e == End(doc, own)
<1>1. /\ doc \in Seq(Line) /\ Len(doc) \in Nat /\ Len(new) \in Nat /\ r \in Seq(Line)
      /\ start \in 1 .. Len(doc) /\ end \in start + 1 .. Len(doc) + 1
  BY UpdateTyped, ReplacedIs
<1>2. /\ Len(r) = start + Len(new) + (Len(doc) - end + 1)
      /\ (\A j \in 1 .. start : r[j] = doc[j])
      /\ \A j \in end .. Len(doc) : r[j + d] = doc[j]
  <2>1. Splices(r, doc, start, new, end)
    BY ReplacedIs
  <2> HIDE DEF r, start, end
  <2> QED BY ONLY <2>1 DEF Splices, d
<1>3. \A i \in 1 .. Len(r) : IsHead(r, k, i) =>
         \/ i \in 1 .. start /\ IsHead(doc, k, i)
         \/ \E j \in end .. Len(doc) : i = j + d /\ IsHead(doc, k, j)
  BY HeadsMove
<1>4. \/ own = 0 /\ \A i \in 1 .. Len(doc) : ~IsHead(doc, k, i)
      \/ /\ own \in 1 .. Len(doc) /\ IsHead(doc, k, own)
         /\ \A i \in 1 .. Len(doc) : IsHead(doc, k, i) => own <= i
  BY <1>1, StartIs
<1>5. CASE own = 0
  <2>1. Start(r, k) = 0
    <3> HIDE DEF r, own, start, end, d
    <3>1. \A i \in 1 .. Len(r) : ~IsHead(r, k, i)
      BY <1>1, <1>3, <1>4, <1>5
    <3> QED BY <1>1, <3>1, StartIs
  <2> HIDE DEF r
  <2>2. extract_section(r, k) = <<>>
    BY ONLY <2>1 DEF extract_section
  <2>3. extract_section(doc, k) = <<>>
    BY ONLY <1>5 DEF extract_section, own
  <2> QED BY <2>2, <2>3 DEF r
<1>6. CASE own # 0
  <2>1. own \in 1 .. Len(doc) /\ IsHead(doc, k, own)
        /\ \A i \in 1 .. Len(doc) : IsHead(doc, k, i) => own <= i
    BY <1>4, <1>6
  <2>2. e \in own + 1 .. Len(doc) + 1 /\ (e <= Len(doc) => IsEnd(doc, own, e))
    <3> HIDE DEF own
    <3> QED BY <1>1, <2>1, EndIs
  <2>3. own # start
    <3>1. IsHead(doc, key, start)
      BY <1>1, StartIs
    <3> QED BY <2>1, <3>1 DEF IsHead
  <2>4. (own < start => e <= start) /\ (own > start => own >= end)
    <3>1. ~(own < start /\ start < e) /\ ~(start < own /\ own < end)
      BY <1>6, <2>3 DEF Around
    <3> HIDE DEF r, own, e, start, end
    <3> QED BY <1>1, <2>1, <2>2, <3>1
  <2>5. Start(doc, k) = own /\ End(doc, own) = e /\ e \in Nat
    <3>1. e \in Nat
      <4> HIDE DEF own, e
      <4> QED BY <2>1, <2>2
    <3> QED BY <3>1
  <2> HIDE DEF r, own, e, start, end
  <2>6. CASE own < start
    <3>1. own + 0 = own /\ e + 0 = e /\ own \in 1 .. Len(r) /\ e <= Len(r) + 1 /\ e <= Len(doc)
      BY <1>1, <1>2, <2>1, <2>2, <2>4, <2>6
    <3>2. \A i \in own .. e - 1 : r[i + 0] = doc[i]
      <4>1. \A i \in own .. e - 1 : i \in 1 .. start /\ i + 0 = i
        BY <1>1, <2>1, <2>2, <2>4, <2>6
      <4> QED BY <1>2, <4>1
    <3>3. \A i \in 1 .. own - 1 : ~IsHead(r, k, i)
      <4>1. \A i \in 1 .. own - 1 : i \in 1 .. start /\ i \in 1 .. Len(doc) /\ ~IsHead(doc, k, i)
        BY <1>1, <2>1, <2>6
      <4> QED BY <1>2, <4>1 DEF IsHead
    <3>4. IsEnd(r, own, e)
      <4>1. e \in 1 .. start /\ own \in 1 .. start
        BY <1>1, <2>1, <2>2, <2>4, <2>6
      <4> QED BY <1>2, <2>2, <3>1, <4>1 DEF IsEnd
    <3>5. Moved(r, doc, k, own, e, 0)
      BY ONLY <3>1, <3>2, <3>3, <3>4 DEF Moved
    <3> QED BY ONLY <1>1, <2>1, <2>5, <3>5, SectionMoves DEF r
  <2>7. CASE own > start
    <3>1. d \in Int /\ own >= end /\ own + d \in 1 .. Len(r) /\ e + d <= Len(r) + 1
      <4>1. own >= end /\ Len(r) = start + Len(new) + (Len(doc) - end + 1)
        BY <1>2, <2>4, <2>7
      <4>2. start \in Nat /\ end \in Nat /\ own \in Nat /\ e \in Nat /\ Len(r) \in Nat
        BY <1>1, <2>1, <2>2
      <4>3. own <= Len(doc) /\ e <= Len(doc) + 1 /\ start >= 1
        BY <1>1, <2>1, <2>2
      <4> QED BY ONLY <1>1, <4>1, <4>2, <4>3 DEF d
    <3>2. \A i \in own .. e - 1 : r[i + d] = doc[i]
      <4>1. \A i \in own .. e - 1 : i \in end .. Len(doc)
        BY <1>1, <2>1, <2>2, <3>1
      <4> QED BY <1>2, <4>1
    <3>3. \A i \in 1 .. own + d - 1 : ~IsHead(r, k, i)
      <4> SUFFICES ASSUME NEW i \in 1 .. own + d - 1, IsHead(r, k, i) PROVE FALSE
        OBVIOUS
      <4>1. i \in 1 .. Len(r)
        BY <2>1, <3>1
      <4>2. CASE i \in 1 .. start /\ IsHead(doc, k, i)
        BY <1>1, <2>1, <2>7, <4>2
      <4>3. ASSUME NEW j \in end .. Len(doc), i = j + d, IsHead(doc, k, j) PROVE FALSE
        <5>1. own <= j
          BY <1>1, <2>1, <4>3
        <5> QED BY <1>1, <2>1, <3>1, <4>3, <5>1
      <4> QED BY <1>3, <4>1, <4>2, <4>3
    <3>4. e + d <= Len(r) => IsEnd(r, own + d, e + d)
      <4> SUFFICES ASSUME e + d <= Len(r) PROVE IsEnd(r, own + d, e + d)
        OBVIOUS
      <4>1. e \in end .. Len(doc) /\ own \in end .. Len(doc)
        BY <1>1, <1>2, <2>1, <2>2, <3>1
      <4>2. r[e + d] = doc[e] /\ r[own + d] = doc[own] /\ IsEnd(doc, own, e)
        BY <1>2, <2>2, <4>1
      <4> QED BY <4>2 DEF IsEnd
    <3> HIDE DEF d
    <3>5. Moved(r, doc, k, own, e, d)
      BY ONLY <3>1, <3>2, <3>3, <3>4 DEF Moved
    <3> QED BY ONLY <1>1, <2>1, <2>5, <3>1, <3>5, SectionMoves DEF r
  <2> QED BY <1>1, <2>1, <2>3, <2>6, <2>7
<1> QED BY <1>5, <1>6

\* The section that is updated.
LEMMA UpdatedSays ==
    ASSUME DocInv, NEW key \in Keys, NEW new \in Seq(Line), HeadingsIn(new) = {}
    PROVE  extract_section(apply_section_update(doc, key, new), key) = new
<1> DEFINE h == [level |-> 2, text |-> key]
           r == apply_section_update(doc, key, new)
           start == Start(doc, key)
           end == End(doc, start)
<1>1. doc \in Seq(Line) /\ h \in Line /\ Len(doc) \in Nat /\ Len(new) \in Nat /\ r \in Seq(Line)
  BY UpdateTyped
<1>2. CASE start = 0
  <2> DEFINE n == Len(doc) + 1
  <2>1. r = Append(doc, h) \o new
    BY <1>2, UpdateIs
  <2>2. \A i \in 1 .. Len(doc) : ~IsHead(doc, key, i)
    BY <1>1, <1>2, StartIs
  <2> HIDE DEF r, h
  <2>3. /\ Len(r) = Len(doc) + 1 + Len(new) /\ (\A j \in 1 .. Len(doc) : r[j] = doc[j])
        /\ r[Len(doc) + 1] = h /\ \A j \in 1 .. Len(new) : r[Len(doc) + 1 + j] = new[j]
    BY <1>1, <2>1, AddedIs
  <2>4. n \in 1 .. Len(r) /\ n + Len(new) <= Len(r) /\ ~(n + Len(new) + 1 <= Len(r)) /\ r[n] = h
    BY <1>1, <2>3
  <2>5. IsHead(r, key, n)
    BY <2>4 DEF IsHead, h
  <2>6. \A i \in 1 .. n - 1 : ~IsHead(r, key, i)
    BY <1>1, <2>2, <2>3 DEF IsHead
  <2>7. \A i \in 1 .. Len(new) : r[n + i] = new[i]
    BY <2>3
  <2> HIDE DEF n
  <2>8. Says(r, new, key, n)
    BY ONLY <2>4, <2>5, <2>6, <2>7 DEF Says
  <2> QED BY <1>1, <2>4, <2>8, SectionSays DEF r
<1>3. CASE start # 0
  <2>1. /\ Splices(r, doc, start, new, end) /\ start \in 1 .. Len(doc)
        /\ end \in start + 1 .. Len(doc) + 1
    BY <1>3, ReplacedIs
  <2>2. /\ IsHead(doc, key, start)
        /\ \A i \in 1 .. Len(doc) : IsHead(doc, key, i) => start <= i
    BY <1>1, <1>3, StartIs
  <2>3. end <= Len(doc) => IsEnd(doc, start, end)
    <3> HIDE DEF start
    <3> QED BY <1>1, <2>1, EndIs
  <2> HIDE DEF r, start, end
  <2>4. Len(r) = start + Len(new) + (Len(doc) - end + 1) /\ \A j \in 1 .. start : r[j] = doc[j]
    BY ONLY <2>1 DEF Splices
  <2>5. \A i \in 1 .. Len(new) : r[start + i] = new[i]
    BY ONLY <2>1 DEF Splices
  <2>6. \A j \in end .. Len(doc) : r[j + (start + Len(new) + 1 - end)] = doc[j]
    BY ONLY <2>1 DEF Splices
  <2>7. start \in 1 .. Len(r) /\ start + Len(new) <= Len(r) /\ r[start] = doc[start]
    <3>1. start \in 1 .. start /\ start \in Nat /\ end \in Nat /\ end <= Len(doc) + 1 /\ start >= 1
      BY <1>1, <2>1
    <3>2. r[start] = doc[start]
      BY <2>4, <3>1
    <3> QED BY <1>1, <2>4, <3>1, <3>2
  <2>8. IsHead(r, key, start)
    BY <2>2, <2>7 DEF IsHead
  <2>9. \A i \in 1 .. start - 1 : ~IsHead(r, key, i)
    <3>1. \A i \in 1 .. start - 1 : i \in 1 .. Len(doc) /\ i \in 1 .. start /\ ~IsHead(doc, key, i)
      BY <1>1, <2>1, <2>2
    <3> QED BY <2>4, <3>1 DEF IsHead
  <2>10. start + Len(new) + 1 <= Len(r) => IsEnd(r, start, start + Len(new) + 1)
    <3> SUFFICES ASSUME start + Len(new) + 1 <= Len(r) PROVE IsEnd(r, start, start + Len(new) + 1)
      OBVIOUS
    <3>1. end \in end .. Len(doc) /\ end + (start + Len(new) + 1 - end) = start + Len(new) + 1
      BY <1>1, <2>1, <2>4
    <3>2. r[start + Len(new) + 1] = doc[end] /\ IsEnd(doc, start, end)
      BY <2>3, <2>6, <3>1
    <3> QED BY <2>7, <3>2 DEF IsEnd
  <2>11. Says(r, new, key, start)
    BY ONLY <2>5, <2>7, <2>8, <2>9, <2>10 DEF Says
  <2> QED BY <1>1, <2>7, <2>11, SectionSays DEF r
<1> QED BY <1>2, <1>3

-----------------------------------------------------------------------------
(* The steps of the doc. *)

LEMMA SectionTyped ==
    ASSUME NEW md \in Seq(Line), NEW k
    PROVE  extract_section(md, k) \in Seq(Line)
<1> DEFINE s == Start(md, k)
           e == End(md, s)
<1>1. CASE s = 0
  BY <1>1 DEF extract_section
<1>2. CASE s # 0
  <2>1. s \in 1 .. Len(md)
    BY <1>2, StartIs
  <2> HIDE DEF s
  <2>2. e \in s + 1 .. Len(md) + 1
    BY <2>1, EndIs
  <2> HIDE DEF e
  <2>3. SubSeq(md, s + 1, e - 1) \in Seq(Line)
    BY <2>1, <2>2
  <2> QED BY <1>2, <2>3 DEF extract_section, s, e
<1> QED BY <1>1, <1>2

LEMMA DocBegins == DocTextInit => DocInv /\ BodyInv
<1> SUFFICES ASSUME DocTextInit PROVE DocInv /\ BodyInv
  OBVIOUS
<1>1. doc \in Seq(Line) /\ body = [k \in Keys |-> extract_section(doc, k)]
      /\ echoed = {} /\ stirred = {}
  BY DocTextAssumption DEF DocTextInit
<1>2. \A k \in Keys : extract_section(doc, k) \in Seq(Line)
  BY <1>1, SectionTyped
<1> QED BY <1>1, <1>2 DEF DocInv, BodyInv

\* A published update keeps the types, the headings and what the sections say.
LEMMA PublishKeeps ==
    ASSUME DocInv, NEW words, NEW spaces, NEW key \in Keys, NEW new \in Answers,
           PublishedRun(words, spaces, key, new)
    PROVE  DocInv' /\ (HeadsOnce => HeadsOnce') /\ (BodyInv => BodyInv')
<1> DEFINE r == apply_section_update(doc, key, new)
           start == Start(doc, key)
<1>1. /\ doc' = r /\ body' = [body EXCEPT ![key] = new]
      /\ echoed' = echoed \cup HeadingsIn(new)
      /\ stirred' = (stirred \cup {k \in Keys : Around(k, start)})
                     \cup (IF HeadingsIn(new) = {} THEN {} ELSE {key})
  BY DEF PublishedRun
<1>2. new \in Seq(Line) /\ body \in [Keys -> Seq(Line)] /\ echoed \subseteq STRING
      /\ stirred \subseteq Keys
  BY DocTextAssumption DEF DocInv
<1>3. r \in Seq(Line)
  BY <1>2, UpdateTyped
<1>4. HeadingsIn(new) \subseteq STRING
  <2>1. \A i \in DOMAIN new : new[i] \in Line
    BY <1>2
  <2>2. \A l \in Line : l.text \in STRING
    BY DEF Line
  <2> QED BY <2>1, <2>2 DEF HeadingsIn
<1> HIDE DEF r
<1>5. DocInv'
  BY <1>1, <1>2, <1>3, <1>4 DEF DocInv
<1>6. ASSUME HeadsOnce PROVE HeadsOnce'
  <2> SUFFICES ASSUME NEW k \in Keys \ (echoed \cup HeadingsIn(new)),
                      NEW i \in 1 .. Len(r), NEW j \in 1 .. Len(r),
                      IsHead(r, k, i), IsHead(r, k, j)
               PROVE  i = j
    BY <1>1 DEF HeadsOnce
  <2>1. k \in Keys \ echoed /\ k \notin HeadingsIn(new)
    OBVIOUS
  <2> QED BY <1>2, <1>6, <2>1, OnceKeeps DEF r
<1>7. ASSUME BodyInv PROVE BodyInv'
  <2> SUFFICES ASSUME NEW k \in Keys, k \notin echoed', k \notin stirred'
               PROVE  extract_section(r, k) = body'[k]
    BY <1>1 DEF BodyInv
  <2>1. k \notin echoed /\ k \notin HeadingsIn(new) /\ k \notin stirred /\ ~Around(k, start)
        /\ (k = key => HeadingsIn(new) = {})
    BY <1>1
  <2>2. CASE k = key
    <3>1. extract_section(r, key) = new
      BY <1>2, <2>1, <2>2, UpdatedSays DEF r
    <3> QED BY <1>1, <1>2, <2>2, <3>1
  <2>3. CASE k # key
    <3>1. extract_section(r, k) = extract_section(doc, k)
      <4>1. CASE start = 0
        BY <1>2, <2>1, <2>3, <4>1, OtherWhenAdded DEF r
      <4>2. CASE start # 0
        BY <1>2, <2>1, <2>3, <4>2, OtherWhenReplaced DEF r
      <4> QED BY <4>1, <4>2
    <3>2. extract_section(doc, k) = body[k]
      BY <1>7, <2>1 DEF BodyInv
    <3>3. body'[k] = body[k]
      BY <1>1, <1>2, <2>3
    <3> QED BY <3>1, <3>2, <3>3
  <2> QED BY <2>2, <2>3
<1> QED BY <1>5, <1>6, <1>7

LEMMA DocNextKeeps ==
    ASSUME DocInv, [Next]_vars
    PROVE  DocInv' /\ (HeadsOnce => HeadsOnce') /\ (BodyInv => BodyInv')
<1>1. CASE UNCHANGED <<doc, body, echoed, stirred>>
  BY <1>1 DEF DocInv, HeadsOnce, BodyInv
<1>2. ASSUME NEW words, NEW spaces, NEW key \in Keys, NEW new \in Answers,
             PublishedRun(words, spaces, key, new)
      PROVE  DocInv' /\ (HeadsOnce => HeadsOnce') /\ (BodyInv => BodyInv')
  BY <1>2, PublishKeeps
<1> QED
  BY <1>1, <1>2
  DEF Next, Crawls, Returns, Later, DocTextNext, TrivialRun, UnansweredRun, RefusedRun,
      Unanswered, vars, docText

-----------------------------------------------------------------------------
\* SectionsOnce, for every initial doc that has no heading twice and any answers: an
\* update goes under the heading that is there, however the sections move.
THEOREM SectionsStayOnce ==
    (\A md \in InitialDocs : \A k \in Keys : \A i, j \in 1 .. Len(md) :
        IsHead(md, k, i) /\ IsHead(md, k, j) => i = j)
    => (Spec => []SectionsOnce)
<1> DEFINE Once == \A md \in InitialDocs : \A k \in Keys : \A i, j \in 1 .. Len(md) :
                      IsHead(md, k, i) /\ IsHead(md, k, j) => i = j
<1>1. ASSUME Once, Init PROVE DocInv /\ HeadsOnce
  BY <1>1, DocBegins DEF Init, DocTextInit, HeadsOnce
<1>2. DocInv /\ HeadsOnce /\ [Next]_vars => (DocInv /\ HeadsOnce)'
  BY DocNextKeeps
<1>3. DocInv /\ HeadsOnce => SectionsOnce
  <2> SUFFICES ASSUME DocInv, HeadsOnce, NEW k \in Keys, k \notin echoed PROVE Count(k) <= 1
    BY DEF SectionsOnce
  <2> DEFINE T == {i \in DOMAIN doc : doc[i].level > 0 /\ doc[i].text = k}
  <2>1. DOMAIN doc = 1 .. Len(doc)
    BY DEF DocInv
  <2>2. \A i, j \in T : i = j
    BY <2>1 DEF HeadsOnce, IsHead
  <2>3. Cardinality(T) <= 1
    <3> HIDE DEF T
    <3>1. CASE T = {}
      BY <3>1, FS_EmptySet
    <3>2. CASE T # {}
      <4>1. PICK i \in T : T = {i}
        BY <2>2, <3>2
      <4>2. Cardinality(T) = 1
        BY <4>1, FS_Singleton
      <4> QED BY <4>2
    <3> QED BY <3>1, <3>2
  <2> QED BY <2>3 DEF Count
<1> QED BY <1>1, <1>2, <1>3, PTL DEF Spec

\* BodyIsLastUpdate, for every doc and any answers: a section that no answer brought
\* a heading into, and that is not nested with one that was updated, says what was
\* last published for it.
THEOREM SectionsSayLastUpdate == Spec => []BodyIsLastUpdate
<1>1. Init => DocInv /\ BodyInv
  BY DocBegins DEF Init
<1>2. DocInv /\ BodyInv /\ [Next]_vars => (DocInv /\ BodyInv)'
  BY DocNextKeeps
<1>3. BodyInv => BodyIsLastUpdate
  BY DEF BodyInv, BodyIsLastUpdate
<1> QED BY <1>1, <1>2, <1>3, PTL DEF Spec

-----------------------------------------------------------------------------
(* What the doc misses. *)

CountsInv ==
    /\ untold \subseteq Lines /\ failed \subseteq Lines
    /\ runs \in 0 .. MaxRuns /\ trivial \in 0 .. runs
    /\ UntoldBounded

LEMMA Unions ==
    ASSUME NEW A, NEW B, NEW C, IsFiniteSet(A), IsFiniteSet(B), C \subseteq A \cup B
    PROVE  /\ Cardinality(C) \in Nat /\ Cardinality(A) \in Nat /\ Cardinality(B) \in Nat
           /\ Cardinality(C) <= Cardinality(A) + Cardinality(B)
<1>1. IsFiniteSet(A \cup B) /\ Cardinality(A \cup B) = Cardinality(A) + Cardinality(B) - Cardinality(A \cap B)
  BY FS_Union
<1>2. IsFiniteSet(C) /\ Cardinality(C) <= Cardinality(A \cup B)
  BY <1>1, FS_Subset
<1>3. IsFiniteSet(A \cap B)
  BY FS_Subset
<1>4. /\ Cardinality(A) \in Nat /\ Cardinality(B) \in Nat /\ Cardinality(C) \in Nat
      /\ Cardinality(A \cap B) \in Nat /\ Cardinality(A \cup B) \in Nat
  BY <1>1, <1>2, <1>3, FS_CardinalityType
<1> QED BY <1>1, <1>2, <1>4

LEMMA CountsKeep == CountsInv /\ [Next]_vars => CountsInv'
<1> SUFFICES ASSUME CountsInv, [Next]_vars PROVE CountsInv'
  OBVIOUS
<1> DEFINE missing == untold \ failed
           missing2 == untold' \ failed'
<1>1. /\ untold \subseteq Lines /\ failed \subseteq Lines /\ runs \in Nat /\ trivial \in Nat
      /\ runs <= MaxRuns /\ trivial <= runs /\ MaxRuns \in Nat /\ Length \in Nat \ {0}
      /\ 50 * Cardinality(missing) <= trivial * (Length - 1)
      /\ IsFiniteSet(missing) /\ Cardinality(missing) \in Nat
  <2>1. IsFiniteSet(missing) /\ Cardinality(missing) \in Nat
    BY DocTextAssumption, FS_Subset, FS_CardinalityType DEF CountsInv
  <2> QED BY <2>1, DocTextAssumption DEF CountsInv, UntoldBounded
<1>2. ASSUME UNCHANGED <<untold, failed, trivial, runs>> PROVE CountsInv'
  BY <1>2 DEF CountsInv, UntoldBounded
<1>3. ASSUME NEW words \in SUBSET Lines, NEW spaces \in SUBSET Lines,
             TrivialRun(words, spaces), words # {}
      PROVE  CountsInv'
  <2>1. /\ untold' = untold \cup words /\ failed' = failed /\ trivial' = trivial + 1
        /\ runs' = runs + 1 /\ runs < MaxRuns /\ 50 * Cardinality(words \cup spaces) < Length
    BY <1>3 DEF TrivialRun, Starts, IsTrivial
  <2>2. IsFiniteSet(words) /\ 50 * Cardinality(words) < Length
    <3>1. IsFiniteSet(words \cup spaces) /\ IsFiniteSet(words)
      BY DocTextAssumption, FS_Subset
    <3>2. Cardinality(words) <= Cardinality(words \cup spaces)
      BY <3>1, FS_Subset
    <3>3. Cardinality(words) \in Nat /\ Cardinality(words \cup spaces) \in Nat
      BY <3>1, FS_CardinalityType
    <3> QED BY <1>1, <2>1, <3>1, <3>2, <3>3
  <2>3. missing2 \subseteq missing \cup words
    BY <2>1
  <2>4. Cardinality(missing2) \in Nat /\ Cardinality(words) \in Nat
        /\ Cardinality(missing2) <= Cardinality(missing) + Cardinality(words)
    <3> HIDE DEF missing, missing2
    <3> QED BY <1>1, <2>2, <2>3, Unions
  <2>5. 50 * Cardinality(missing2) <= (trivial + 1) * (Length - 1)
    <3> DEFINE c == Cardinality(missing)
               c2 == Cardinality(missing2)
               n == Cardinality(words)
               bound == trivial * (Length - 1)
    <3>1. (trivial + 1) * (Length - 1) = bound + (Length - 1)
      BY <1>1
    <3>2. /\ bound \in Int /\ c \in Nat /\ c2 \in Nat /\ n \in Nat /\ Length \in Nat
          /\ 50 * c <= bound /\ 50 * n < Length /\ c2 <= c + n
      BY <1>1, <2>2, <2>4
    <3> HIDE DEF c, c2, n, bound
    <3>3. 50 * c2 <= bound + (Length - 1)
      BY <3>2
    <3> QED BY <3>1, <3>3 DEF c2
  <2> QED BY <1>1, <2>1, <2>5 DEF CountsInv, UntoldBounded
<1>4. ASSUME missing2 \subseteq missing, trivial' = trivial,
             untold' \subseteq Lines, failed' \subseteq Lines, runs' = runs + 1, runs < MaxRuns
      PROVE  CountsInv'
  <2>1. Cardinality(missing2) <= Cardinality(missing) /\ Cardinality(missing2) \in Nat
    <3> HIDE DEF missing, missing2
    <3> QED BY <1>1, <1>4, FS_Subset, FS_CardinalityType
  <2>2. trivial * (Length - 1) \in Int
    BY <1>1
  <2> DEFINE bound == trivial * (Length - 1)
  <2>3. 50 * Cardinality(missing2) <= bound
    <3> HIDE DEF bound
    <3> QED BY <1>1, <2>1, <2>2 DEF bound
  <2> QED BY <1>1, <1>4, <2>3 DEF CountsInv, UntoldBounded
<1>5. ASSUME NEW words \in SUBSET Lines, NEW spaces \in SUBSET Lines,
             \/ TrivialRun(words, spaces) /\ words = {}
             \/ UnansweredRun(words, spaces)
             \/ \E new \in Answers : RefusedRun(words, spaces, new)
             \/ \E key \in Keys, new \in Answers : PublishedRun(words, spaces, key, new)
      PROVE  CountsInv'
  <2>1. /\ \/ untold' = untold /\ failed' = failed
           \/ untold' = untold \cup words /\ failed' = failed \cup words
           \/ untold' = untold \ words /\ failed' = failed \ words
        /\ trivial' = trivial /\ runs' = runs + 1 /\ runs < MaxRuns
    <3>1. CASE TrivialRun(words, spaces) /\ words = {}
      BY <3>1 DEF TrivialRun, Starts
    <3>2. CASE UnansweredRun(words, spaces)
      BY <3>2 DEF UnansweredRun, Unanswered, Starts
    <3>3. CASE \E new \in Answers : RefusedRun(words, spaces, new)
      BY <3>3 DEF RefusedRun, Unanswered, Starts
    <3>4. CASE \E key \in Keys, new \in Answers : PublishedRun(words, spaces, key, new)
      BY <3>4 DEF PublishedRun, Starts
    <3> QED BY <1>5, <3>1, <3>2, <3>3, <3>4
  <2> QED BY <1>1, <1>4, <2>1
<1> QED
  BY <1>2, <1>3, <1>5 DEF Next, Crawls, Returns, Later, DocTextNext, vars, docText

LEMMA CountsHold == Spec => []CountsInv
<1>1. Init => CountsInv
  <2> SUFFICES ASSUME Init PROVE CountsInv
    OBVIOUS
  <2>1. untold = {} /\ failed = {} /\ runs = 0 /\ trivial = 0
    BY DEF Init, DocTextInit
  <2>2. Cardinality(untold \ failed) = 0
    <3>1. untold \ failed = {}
      BY <2>1
    <3> QED BY <3>1, FS_EmptySet
  <2> QED BY <2>1, <2>2, DocTextAssumption DEF CountsInv, UntoldBounded
<1> QED BY <1>1, CountsKeep, PTL DEF Spec

\* UntoldBounded, for texts of any length and any number of runs: of the words that no
\* update was told of, those of failed and refused runs aside, there are at most what
\* the trivial runs below the threshold have swallowed.  Whitespace is not counted.
THEOREM UntoldIsBounded == Spec => []UntoldBounded
<1>1. CountsInv => UntoldBounded
  BY DEF CountsInv
<1> QED BY <1>1, CountsHold, PTL

\* TypeOK, for every site, doc and answers.
THEOREM SourceTextTypes == Spec => []TypeOK
<1>1. Init => DocInv /\ phase \in {"first", "later"}
  BY DocBegins DEF Init
<1>2. DocInv /\ phase \in {"first", "later"} /\ [Next]_vars
      => (DocInv /\ phase \in {"first", "later"})'
  BY DocNextKeeps DEF Next, Crawls, Returns, Later, vars
<1>3. CrawlAlways /\ CountsInv /\ DocInv /\ phase \in {"first", "later"} => TypeOK
  BY DEF CrawlAlways, CountsInv, DocInv, TypeOK, DocTextTypes
<1> QED BY <1>1, <1>2, <1>3, CrawlHolds, CountsHold, PTL DEF Spec

==============================================================================
