--------------------------------- MODULE Crawl ---------------------------------
(***************************************************************************)
(* ScraperWorkerPool.scrape_url (app/scraper/worker_pool.py): a crawl of   *)
(* one site by a browser, and from the start again over plain HTTP when    *)
(* the browser fails.  Urls are the links of the site that _normalize_link *)
(* and _is_internal_link let through; a page the URL check refuses is      *)
(* skipped as one that does not load.                                      *)
(***************************************************************************)
EXTENDS Integers, SequencesExt

CONSTANTS
    Urls,
    Root,       \* the source's target_url, validated before the crawl
    MaxPages    \* max_pages

ASSUME CrawlAssumption == Root \in Urls /\ IsFiniteSet(Urls) /\ MaxPages \in Nat \ {0}

VARIABLE crawl

CrawlTypes ==
    crawl \in [engine  : {"browser", "http", "done", "failed"},
               links   : [Urls -> SUBSET Urls], \* the site
               bad     : SUBSET Urls,           \* pages with a link that cannot be parsed
               visited : SUBSET Urls, to_visit : Seq(Urls), scraped : Seq(Urls),
               skipped : SUBSET Urls,           \* history: pages that did not load,
               blind   : SUBSET Urls]           \* and pages whose links were not read

Begun(links, bad, engine) ==
    [engine |-> engine, links |-> links, bad |-> bad, visited |-> {Root}, to_visit |-> <<Root>>,
     scraped |-> <<>>, skipped |-> {}, blind |-> {}]

CrawlInit == crawl \in {Begun(links, bad, "browser") : links \in [Urls -> SUBSET Urls],
                                                      bad \in SUBSET Urls}

Crawling == crawl.engine \in {"browser", "http"}
Loops    == Crawling /\ crawl.to_visit # <<>> /\ Len(crawl.scraped) < MaxPages
Current  == Head(crawl.to_visit)
Popped   == Tail(crawl.to_visit)

-----------------------------------------------------------------------------
(* The page does not load, or validate_target_url refuses it. *)
SkipPage ==
    /\ Loops
    /\ crawl' = [crawl EXCEPT !.to_visit = Popped, !.skipped = @ \cup {Current}]

(* The page is read, and its new links queued in the order they come. *)
ScrapePage ==
    /\ Loops /\ Current \notin crawl.bad
    /\ \E found \in SetToSeqs(crawl.links[Current] \ crawl.visited) :
          crawl' = [crawl EXCEPT
              !.to_visit = Popped \o found, !.visited = @ \cup ToSet(found),
              !.scraped = Append(@, Current)]

(* The browser cannot list the links of the page: it has none. *)
ScrapeBlind ==
    /\ Loops /\ crawl.engine = "browser"
    /\ crawl' = [crawl EXCEPT !.to_visit = Popped, !.scraped = Append(@, Current),
                              !.blind = @ \cup {Current}]

\* Mutant of BrowserFails: the visited set is not cleared.
BrowserFailsVisited ==
    /\ crawl.engine = "browser"
    /\ crawl' = [Begun(crawl.links, crawl.bad, "http") EXCEPT !.visited = crawl.visited]

(* Anything else in the browser fails: the HTTP client starts over. *)
BrowserFails ==
    /\ crawl.engine = "browser"
    /\ crawl' = Begun(crawl.links, crawl.bad, "http")

(* urljoin raises on one of the page's links: the browser gives way to HTTP, *)
(* and HTTP to nothing.                                                      *)
LinkFails ==
    /\ Loops /\ Current \in crawl.bad
    /\ crawl' = IF crawl.engine = "browser" THEN Begun(crawl.links, crawl.bad, "http")
                ELSE [crawl EXCEPT !.engine = "failed"]

Finish ==
    /\ Crawling /\ ~Loops
    /\ crawl' = [crawl EXCEPT !.engine = "done"]

CrawlNext ==
    \/ SkipPage \/ ScrapePage \/ ScrapeBlind \/ BrowserFails \/ LinkFails \/ Finish

-----------------------------------------------------------------------------
\* The pages a reader could reach through the pages that were read.
Closed(S) ==
    /\ Root \in crawl.skipped \/ Root \in S
    /\ \A u \in S \ crawl.blind : crawl.links[u] \ crawl.skipped \subseteq S
Reachable == {u \in Urls : \A S \in SUBSET Urls : Closed(S) => u \in S}

\* The text has every page that could be reached, once, unless it is full: no page
\* is forgotten or repeated for the engine that fails, whatever links to it, and a
\* text without pages is a root that did not load (scrape_url).
CrawlComplete ==
    crawl.engine = "done" =>
        /\ IsInjective(crawl.scraped)
        /\ ToSet(crawl.scraped) = Reachable \/ Len(crawl.scraped) = MaxPages
=============================================================================
