--------------------------- MODULE MCLibrarySurvey ---------------------------
(***************************************************************************)
(* Corpora of at most two files with at most two containers each.          *)
(***************************************************************************)
EXTENDS LibrarySurvey

Box(parsed, entries, noted, wrong) ==
  [parsed |-> parsed, entries |-> entries, noted |-> noted, wrong |-> wrong]

\* Unreadable; without a live entry and noted; clean; two entries, a note and
\* a reading that is wrong.
MCContainers == {Box(FALSE, 0, FALSE, {}), Box(TRUE, 0, TRUE, {}),
                 Box(TRUE, 1, FALSE, {}),
                 Box(TRUE, 2, TRUE, {"first-match"})}

MCLists == {<<>>} \cup {<<c>> : c \in MCContainers}
           \cup {<<c, d>> : c, d \in MCContainers}

MCLibraries ==
  [large : {FALSE}, containers : MCLists,
   raises : {"nothing", "ValueError", "another error"}]
  \cup [large : {TRUE}, containers : {<<Box(TRUE, 1, FALSE, {})>>},
        raises : {"nothing", "another error"}]

MCCorpora == {<<f>> : f \in MCLibraries} \cup {<<f, g>> : f, g \in MCLibraries}

\* One library: a clean container, and one whose fatbin_size truncates to a
\* negative size, so that it has a note and no entry.
MCTruncated == {<<[large |-> FALSE, raises |-> "nothing",
                   containers |-> <<Box(TRUE, 1, FALSE, {}),
                                    Box(TRUE, 0, TRUE, {})>>]>>}
==============================================================================
