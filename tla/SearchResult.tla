---------------------------- MODULE SearchResult ----------------------------
(***************************************************************************)
(* The data that flows through the aggregator: scraped search results, the *)
(* lines of the block and allow list files, and the vectors that hold      *)
(* results.  Text is abstracted to members of small sets; a regular        *)
(* expression is the set of texts in which it finds a match.               *)
(***************************************************************************)
EXTENDS Naturals, Sequences

CONSTANTS
    Engines,    \* names of upstream search engines
    Urls,       \* urls of results
    Texts       \* titles and descriptions of results

\* What an engine puts in one result besides its own name.
Hit == [url: Urls, title: Texts, description: Texts]

\* One (key, SearchResult) pair of a result map; the key is the url.
Entry == [url: Urls, title: Texts, description: Texts, engine: Seq(Engines)]

\* SearchResult::new as every engine calls it, with its own name.
Scraped(hit, name) ==
    [url |-> hit.url, title |-> hit.title,
     description |-> hit.description, engine |-> <<name>>]

\* A line of a list file: whether it can be read and compiled (File::lines and
\* Regex::new both succeed) and the texts in which it then finds a match.
Line == [valid: BOOLEAN, found_in: SUBSET (Urls \cup Texts)]

\* A list file: whether file_path finds it and File::open opens it, its lines.
ListFile == [exists: BOOLEAN, lines: Seq(Line)]

\* The test filter_with_lists makes on every entry.
Matches(re, e) ==
    e.url \in re.found_in \/ e.title \in re.found_in \/ e.description \in re.found_in

\* The entries a Rust Vec holds.
Members(vec) == {vec[i] : i \in DOMAIN vec}

\* Vec::swap_remove: the last element takes the place of the removed one.
SwapRemove(vec, i) ==
    [j \in 1 .. Len(vec) - 1 |-> IF j = i THEN vec[Len(vec)] ELSE vec[j]]

\* No two entries of the vector are for the same url.
DistinctUrls(vec) ==
    \A i, j \in DOMAIN vec : vec[i].url = vec[j].url => i = j

\* No url is in the two vectors more than once between them.
DistinctAcross(v, w) ==
    /\ DistinctUrls(v)
    /\ DistinctUrls(w)
    /\ \A i \in DOMAIN v, j \in DOMAIN w : v[i].url # w[j].url
=============================================================================
