-------------------------------- MODULE DocText --------------------------------
(***************************************************************************)
(* What becomes of a change of the source's text: compute_text_diff finds  *)
(* it trivial or not (app/diff/text_diff.py), and apply_section_update     *)
(* puts the model's answer into the doc (app/publish/section_apply.py,     *)
(* publish_to_db of app/publish/db_publish.py).                            *)
(*                                                                         *)
(* A markdown text is a sequence of lines, without the blank ones: a       *)
(* heading with its level, or a line of a body, which has level 0.         *)
(***************************************************************************)
EXTENDS Integers, SequencesExt

CONSTANTS
    Keys,       \* headings, up to case and surrounding blanks
    InitialDocs,
    Answers,    \* new_content of a section update
    Lines,      \* lines of the source's text that change
    Length,     \* all of its lines
    MaxRuns     \* bound: runs that find a change

Line == [level : 0 .. 6, text : STRING]

ASSUME DocTextAssumption ==
    /\ Keys \subseteq STRING /\ InitialDocs \subseteq Seq(Line) /\ Answers \subseteq Seq(Line)
    /\ IsFiniteSet(Lines) /\ Length \in Nat \ {0} /\ MaxRuns \in Nat

VARIABLES
    doc,        \* docs.current_content_md
    body,       \* history: each section's text as it was last published
    echoed,     \* history: headings that came with an answer
    stirred,    \* history: sections around or inside a section that was updated
    untold,     \* history: lines with new words that no published update was told of,
    trivial,    \* the trivial runs that found some,
    failed,     \* and the lines of runs without an answer, or with a refused one
    runs

docText == <<doc, body, echoed, stirred, untold, trivial, failed, runs>>

DocTextTypes ==
    /\ doc \in Seq(Line)
    /\ echoed \subseteq STRING /\ stirred \subseteq Keys
    /\ untold \subseteq Lines /\ failed \subseteq Lines
    /\ runs \in 0 .. MaxRuns /\ trivial \in 0 .. runs

-----------------------------------------------------------------------------
\* The first heading of a section, 0 if there is none; the heading that ends it.
Start(md, key) == SelectInSeq(md, LAMBDA l : l.level > 0 /\ l.text = key)

\* Mutant of End: a section ends at a heading of its own level only.
EndAtLevel(md, start) ==
    LET next == SelectInSubSeq(md, start + 1, Len(md), LAMBDA l : l.level = md[start].level)
    IN IF next = 0 THEN Len(md) + 1 ELSE next

End(md, start) ==
    LET next == SelectInSubSeq(md, start + 1, Len(md),
                               LAMBDA l : l.level > 0 /\ l.level <= md[start].level)
    IN IF next = 0 THEN Len(md) + 1 ELSE next

extract_section(md, key) ==
    LET start == Start(md, key)
    IN IF start = 0 THEN <<>> ELSE SubSeq(md, start + 1, End(md, start) - 1)

Replaces(new) == Len(SelectSeq(new, LAMBDA l : l.level = 2)) >= 3

\* Mutant of apply_section_update: a section is always added.
AppendSection(md, key, new) == Append(md, [level |-> 2, text |-> key]) \o new

apply_section_update(md, key, new) ==
    LET start == Start(md, key)
    IN IF start = 0 THEN Append(md, [level |-> 2, text |-> key]) \o new
       ELSE SubSeq(md, 1, start) \o new \o SubSeq(md, End(md, start), Len(md))

DocTextInit ==
    /\ doc \in InitialDocs
    /\ body = [k \in Keys |-> extract_section(doc, k)]
    /\ echoed = {} /\ stirred = {} /\ untold = {} /\ failed = {}
    /\ trivial = 0 /\ runs = 0

-----------------------------------------------------------------------------
\* Mutant of IsTrivial: whitespace on some line is enough.
IsTrivialWithSpaces(words, spaces) ==
    spaces # {} \/ 50 * Cardinality(words \cup spaces) < Length

\* compute_text_diff: less than one line in fifty changes, or nothing but whitespace,
\* be it on every line.  A run finds new words on some lines, whitespace on others.
IsTrivial(words, spaces) ==
    words = {} \/ 50 * Cardinality(words \cup spaces) < Length

Starts(words, spaces) == runs < MaxRuns /\ runs' = runs + 1 /\ words \cup spaces # {}

(* A trivial diff: nothing is published, and the next diff starts from here. *)
TrivialRun(words, spaces) ==
    /\ Starts(words, spaces) /\ IsTrivial(words, spaces)
    /\ untold' = untold \cup words
    /\ trivial' = IF words = {} THEN trivial ELSE trivial + 1
    /\ UNCHANGED <<doc, body, echoed, stirred, failed>>

Unanswered(words) ==
    /\ untold' = untold \cup words /\ failed' = failed \cup words
    /\ UNCHANGED <<doc, body, echoed, stirred, trivial>>

(* The diff cannot be computed; or it is not trivial, and the organization is *)
(* over quota, has no key, or the call of the model fails.  The next diff     *)
(* starts from here all the same,                                             *)
UnansweredRun(words, spaces) == Starts(words, spaces) /\ Unanswered(words)

(* and so it does when the answer has three top-level sections and is refused. *)
RefusedRun(words, spaces, new) ==
    /\ Starts(words, spaces) /\ ~IsTrivial(words, spaces) /\ Replaces(new)
    /\ Unanswered(words)

HeadingsIn(md) == {md[i].text : i \in {j \in DOMAIN md : md[j].level > 0}}

\* The section of k contains the one at start, or is inside it; or it is a title's
\* that goes to the end, where a new section (start 0) is added.
Around(k, start) ==
    LET own == Start(doc, k)
    IN /\ own # 0 /\ own # start
       /\ \/ start = 0 /\ doc[own].level = 1 /\ End(doc, own) > Len(doc)
          \/ own < start /\ start < End(doc, own)
          \/ start # 0 /\ start < own /\ own < End(doc, start)

(* publish_to_db. *)
PublishedRun(words, spaces, key, new) ==
    /\ Starts(words, spaces) /\ ~IsTrivial(words, spaces) /\ ~Replaces(new)
    /\ doc' = apply_section_update(doc, key, new)
    /\ body' = [body EXCEPT ![key] = new]
    /\ echoed' = echoed \cup HeadingsIn(new)
    /\ stirred' = stirred \cup {k \in Keys : Around(k, Start(doc, key))}
                          \cup (IF HeadingsIn(new) = {} THEN {} ELSE {key})
    /\ untold' = untold \ words /\ failed' = failed \ words
    /\ UNCHANGED trivial

DocTextNext ==
    \E words \in SUBSET Lines : \E spaces \in SUBSET (Lines \ words) :
        \/ TrivialRun(words, spaces) \/ UnansweredRun(words, spaces)
        \/ \E new \in Answers :
              \/ RefusedRun(words, spaces, new)
              \/ \E key \in Keys : PublishedRun(words, spaces, key, new)

-----------------------------------------------------------------------------
Count(key) == Cardinality({i \in DOMAIN doc : doc[i].level > 0 /\ doc[i].text = key})

\* A doc never gets a section twice, unless an answer brought the heading with it:
\* it is put under the heading that is there already (apply_section_update).
SectionsOnce == \A k \in Keys : Count(k) <= 1 \/ k \in echoed

\* Each section says what was last published for it, through any number of updates
\* of the others, unless answers with headings or nested sections came into it:
\* the doc is the view of its trail section by section.
BodyIsLastUpdate ==
    \A k \in Keys \ (echoed \cup stirred) : extract_section(doc, k) = body[k]

\* Of the words that change the doc misses, besides those of runs that failed or were
\* refused an answer, one line in fifty for every trivial run there has been: no diff
\* looks further back than to the run before, and small changes add up.  (Whitespace
\* it misses altogether.)
UntoldBounded == 50 * Cardinality(untold \ failed) <= trivial * (Length - 1)
=============================================================================
