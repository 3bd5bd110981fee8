------------------------------ MODULE MCSourceText ------------------------------
(* A small instance of SourceText: three pages, four sections, a text of 51 lines. *)
EXTENDS SourceText, TLC

CONSTANTS root, page1, page2, l1, l2, l3

H(n, key) == [level |-> n, text |-> key]
T(text)   == [level |-> 0, text |-> text]

\* What the prompt for initial documentation asks for, and a doc with a title.
MCDocs == {<<H(2, "Overview"), T("old"), H(2, "How"), T("old"), H(3, "Step"), T("old")>>,
           <<H(1, "Title"), H(2, "Overview"), T("old"), H(3, "Step"), T("old"), H(2, "How")>>}

\* Bodies; a section with its heading, as the prompt for updates asks for; with a
\* subsection; with its neighbour; three sections.
MCAnswers == {<<>>, <<T("new")>>, <<T("newer")>>,
              <<H(2, "Overview"), T("new")>>, <<H(2, "Overview"), T("newer")>>,
              <<T("new"), H(3, "Step"), T("new")>>,
              <<H(2, "Overview"), H(2, "How")>>,
              <<H(2, "Overview"), H(2, "How"), H(2, "Webhooks")>>}
=============================================================================
