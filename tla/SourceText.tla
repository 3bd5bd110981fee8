------------------------------- MODULE SourceText -------------------------------
(***************************************************************************)
(* The text of a source on its way into the doc: the first run crawls it   *)
(* page by page (Crawl) and writes the doc; of the later ones only what    *)
(* has changed in the text is kept (DocText).                              *)
(***************************************************************************)
EXTENDS Crawl, DocText

VARIABLE phase

vars == <<crawl, docText, phase>>

TypeOK == CrawlTypes /\ DocTextTypes /\ phase \in {"first", "later"}

Init == phase = "first" /\ CrawlInit /\ DocTextInit

Crawls == phase = "first" /\ CrawlNext /\ UNCHANGED <<docText, phase>>

\* The crawl's variables are gone when scrape_url returns.
Returns ==
    /\ phase = "first" /\ phase' = "later"
    /\ crawl.engine = "done"
    /\ crawl' = Begun([u \in Urls |-> {}], {}, "failed")
    /\ UNCHANGED docText

Later == phase = "later" /\ DocTextNext /\ UNCHANGED <<crawl, phase>>

Next == Crawls \/ Returns \/ Later

Spec == Init /\ [][Next]_vars
=============================================================================
