----------------------------- MODULE MCChunking -----------------------------
(* Lines for small instances of Chunking.                                    *)
EXTENDS Chunking

Line(kind, level, indented, tokens) ==
    [kind |-> kind, level |-> level, indented |-> indented, tokens |-> tokens]

\* A line of each kind, a fence inside a list, a paragraph longer than a chunk
\* and a word that is.
MCLineTypes ==
    {Line("blank", 0, FALSE, <<0>>),
     Line("heading", 1, FALSE, <<1>>), Line("heading", 2, FALSE, <<1>>),
     Line("text", 0, FALSE, <<1, 1>>), Line("text", 0, FALSE, <<1, 2, 1, 1, 2>>),
     Line("text", 0, FALSE, <<6>>),
     Line("item", 0, FALSE, <<1>>), Line("backticks", 0, TRUE, <<1>>),
     Line("tildes", 0, FALSE, <<1>>), Line("row", 0, FALSE, <<2>>),
     Line("rule", 0, FALSE, <<1>>)}

MCConfigs ==
    {[target |-> 3, max |-> 5, overlap |-> 0], [target |-> 3, max |-> 5, overlap |-> 2]}

=============================================================================
