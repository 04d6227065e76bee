------------------------------- MODULE Engines ------------------------------
(***************************************************************************)
(* One task of aggregate: an engine turns the page and the safe search     *)
(* level into a request, sends it upstream and scrapes the answer.  What   *)
(* the engines do alike is in the actions; where they differ is in one     *)
(* record for each of them.                                                *)
(***************************************************************************)
EXTENDS YahooRedirect

CONSTANTS
    Modulus,        \* number of values of a u32
    Pages,          \* page numbers asked for
    Profiles,       \* cargo profiles: "release" or "dev"
    MaxItems,       \* bound on the items of an engine's upstream page
    Links           \* links of Yahoo's pages, with the target they stand for

Levels == 0 .. 4

ASSUME ModulusAssumption == Modulus \in Nat \ {0}
ASSUME PagesAssumption == Pages \subseteq 0 .. Modulus - 1
ASSUME ProfilesAssumption == Profiles \subseteq {"release", "dev"}

Byte == 0 .. 255

\* How Yahoo may write a byte: as it is, unless it is '%', or as '%' and two
\* hexadecimal digits, in upper or lower case.
Digits(d) == IF d < 10 THEN {48 + d} ELSE {55 + d, 87 + d}
Forms(b) ==
    {<<Percent, high, low>> : high \in Digits(b \div 16), low \in Digits(b % 16)}
        \cup (IF b = Percent THEN {} ELSE {<<b>>})

\* The text can be cut into forms of the target's bytes, one after the other.
Encodes(encoded, target) ==
    \E cut \in [1 .. Len(target) + 1 -> 1 .. Len(encoded) + 1] :
        /\ cut[1] = 1 /\ cut[Len(target) + 1] = Len(encoded) + 1
        /\ \A i \in DOMAIN target : SubSeq(encoded, cut[i], cut[i + 1] - 1) \in Forms(target[i])

\* A redirect has its target encoded after the first RU, up to a marker or the end.
Redirects(raw, target) ==
    \E start \in DOMAIN raw, end \in DOMAIN raw \cup {Len(raw) + 1} :
        /\ raw[start] = RU /\ \A i \in 1 .. start - 1 : raw[i] # RU
        /\ start < end /\ \A i \in start + 1 .. end - 1 : raw[i] \in Byte
        /\ end \in DOMAIN raw => raw[end] \in {RS, RK}
        /\ Encodes(SubSeq(raw, start + 1, end - 1), target)

\* A link of Yahoo's is a redirect or its target itself, in either case a text.
ASSUME LinksAssumption ==
    \A link \in Links :
        /\ link.target \in Seq(Byte) /\ link.raw \in Seq(Byte \cup {RU, RS, RK})
        /\ Utf8(link.raw)
        /\ link.raw = link.target \/ Redirects(link.raw, link.target)

-----------------------------------------------------------------------------
(* The engines.                                                            *)
(*   factor, plus: the page parameter is factor * page + plus, as u32      *)
(*   omitted:      there is no page parameter for page 0                   *)
(*   checked:      the multiplication is a checked_mul                     *)
(*   first, unit:  how upstream counts: its first value, and the results   *)
(*                 that one step of it stands for                          *)
(*   per_page:     results of a page                                       *)
(*   query:        "raw" before the page parameter, "last" or "encoded"    *)
(*   safe:         value sent for safe search at each level                *)
(*   format:       "html" or "json"                                        *)
(*   notice:       the match of the no-result selector whose text or class *)
(*                 is looked at; 0 if any match will do                    *)
(*   href:         what becomes of an item whose link has no href          *)

\* The values that stand for a strictness: none, moderate (or on) and strict.
Strictness == 0 .. 2

Unrestricted == [l \in Levels |-> 0]
Fixed == [l \in Levels |-> 1]

\* Mutant of Bing: counts the results from 0.
BingFromZero ==
    [factor |-> 10, plus |-> 0, omitted |-> TRUE, checked |-> FALSE, first |-> 1, unit |-> 1,
     per_page |-> 10, query |-> "raw", safe |-> Unrestricted, format |-> "html", notice |-> 1,
     href |-> "unwrap"]

Bing ==
    [factor |-> 10, plus |-> 1, omitted |-> TRUE, checked |-> FALSE, first |-> 1, unit |-> 1,
     per_page |-> 10, query |-> "raw", safe |-> Unrestricted, format |-> "html", notice |-> 1,
     href |-> "unwrap"]

\* Mutant of Brave: the last arm of the match is for level 2 alone.
BraveUpToTwo ==
    [factor |-> 1, plus |-> 0, omitted |-> FALSE, checked |-> FALSE, first |-> 0, unit |-> 10,
     per_page |-> 10, query |-> "raw",
     safe |-> [l \in Levels |-> IF l = 1 THEN 1 ELSE IF l = 2 THEN 2 ELSE 0],
     format |-> "html", notice |-> 1, href |-> "skip"]

Brave ==
    [factor |-> 1, plus |-> 0, omitted |-> FALSE, checked |-> FALSE, first |-> 0, unit |-> 10,
     per_page |-> 10, query |-> "raw", safe |-> [l \in Levels |-> IF l >= 2 THEN 2 ELSE l],
     format |-> "html", notice |-> 1, href |-> "skip"]

DuckDuckGo ==
    [factor |-> 30, plus |-> 0, omitted |-> TRUE, checked |-> FALSE, first |-> 0, unit |-> 1,
     per_page |-> 30, query |-> "raw", safe |-> Unrestricted, format |-> "html", notice |-> 0,
     href |-> "text"]

LibreX ==
    [factor |-> 10, plus |-> 0, omitted |-> FALSE, checked |-> FALSE, first |-> 0, unit |-> 1,
     per_page |-> 10, query |-> "raw", safe |-> Fixed, format |-> "html", notice |-> 0,
     href |-> "skip"]

Mojeek ==
    [factor |-> 10, plus |-> 1, omitted |-> TRUE, checked |-> FALSE, first |-> 1, unit |-> 1,
     per_page |-> 10, query |-> "raw", safe |-> [l \in Levels |-> IF l = 0 THEN 0 ELSE 1],
     format |-> "html", notice |-> 1, href |-> "skip"]

\* Levels 3 and 4 are sent as they are and are no strictness to Qwant.
Qwant ==
    [factor |-> 10, plus |-> 0, omitted |-> FALSE, checked |-> TRUE, first |-> 0, unit |-> 1,
     per_page |-> 10, query |-> "encoded", safe |-> [l \in Levels |-> l], format |-> "json",
     notice |-> 0, href |-> "skip"]

Searx ==
    [factor |-> 1, plus |-> 1, omitted |-> FALSE, checked |-> FALSE, first |-> 1, unit |-> 10,
     per_page |-> 10, query |-> "raw", safe |-> [l \in Levels |-> IF l >= 3 THEN 2 ELSE 0],
     format |-> "html", notice |-> 2, href |-> "skip"]

SepiaSearch ==
    [factor |-> 10, plus |-> 0, omitted |-> FALSE, checked |-> FALSE, first |-> 0, unit |-> 1,
     per_page |-> 10, query |-> "encoded", safe |-> [l \in Levels |-> IF l = 0 THEN 0 ELSE 1],
     format |-> "json", notice |-> 0, href |-> "skip"]

Startpage ==
    [factor |-> 10, plus |-> 0, omitted |-> FALSE, checked |-> FALSE, first |-> 0, unit |-> 1,
     per_page |-> 10, query |-> "raw", safe |-> Fixed, format |-> "html", notice |-> 0,
     href |-> "text"]

Wikipedia ==
    [factor |-> 20, plus |-> 0, omitted |-> FALSE, checked |-> FALSE, first |-> 0, unit |-> 1,
     per_page |-> 20, query |-> "last", safe |-> Unrestricted, format |-> "html", notice |-> 0,
     href |-> "skip"]

Yahoo ==
    [factor |-> 10, plus |-> 1, omitted |-> TRUE, checked |-> FALSE, first |-> 1, unit |-> 1,
     per_page |-> 10, query |-> "raw", safe |-> Unrestricted, format |-> "html", notice |-> 0,
     href |-> "placeholder"]

\* EngineHandler::new of a name in lower case.
Handlers ==
    [bing |-> Bing, brave |-> Brave, duckduckgo |-> DuckDuckGo, librex |-> LibreX,
     mojeek |-> Mojeek, qwant |-> Qwant, searx |-> Searx, sepiasearch |-> SepiaSearch,
     startpage |-> Startpage, wikipedia |-> Wikipedia, yahoo |-> Yahoo]

Names == DOMAIN Handlers \cup {"unknown"}

ASSUME MaxItemsAssumption == MaxItems \in [DOMAIN Handlers -> Nat]

-----------------------------------------------------------------------------
(* Upstream pages.                                                         *)

\* An item of an html page has elements for its title, its link and its
\* description ("whole"), lacks one ("partial"), or has a link without href.  An
\* item of a json answer is one of the results, or of a kind that is passed over.
ItemKinds(e) ==
    IF Handlers[e].format = "html" THEN {"whole", "partial", "no href"}
    ELSE IF e = "qwant" THEN {"whole", "other"} ELSE {"whole"}
NoLink == [target |-> <<>>, raw |-> <<>>]
Items(e) ==
    IF e = "yahoo"
      THEN [kind: {"whole"}, link: Links] \cup [kind: {"partial", "no href"}, link: {NoLink}]
      ELSE [kind: ItemKinds(e), link: {NoLink}]

UpTo(S, n) == UNION {[1 .. m -> S] : m \in 0 .. n}

\* The matches of the selector for "nothing found", which may say so or not.
Notices == UpTo({"said", "other"}, 2)

\* A json answer may be no json of the expected form, or report an error.
Documents(e) ==
    IF Handlers[e].format = "html"
      THEN [body: {"html"}, notices: Notices, items: UpTo(Items(e), MaxItems[e])]
      ELSE [body: {"json"}, notices: {<<>>}, items: UpTo(Items(e), MaxItems[e])]
             \cup [body: {"unreadable", "error"}, notices: {<<>>}, items: {<<>>}]

NoDocument == [body |-> "none", notices |-> <<>>, items |-> <<>>]

-----------------------------------------------------------------------------
VARIABLES
    task,           \* engine, page, level, query and profile: never assigned
    at,             \* "new", "request", "sent", "answered" or "done"
    sent,           \* page and safe parameters of the url
    document,       \* what upstream answered
    outcome,        \* "results", an EngineError, or "panic"
    results         \* the urls scraped, with their items

vars == <<task, at, sent, document, outcome, results>>

engine == task.engine
handler == Handlers[engine]

\* A url without a page parameter has an empty set for it.
NotSent == [page |-> {}, safe |-> 0]

Init ==
    \* A query may contain a '#', which ends the url's parameters unless encoded.
    /\ task \in [engine: Names, page: Pages, level: Levels, query: {"plain", "hash"},
                 profile: Profiles]
    /\ at = "new"
    /\ sent = NotSent
    /\ document = NoDocument
    /\ outcome = "none"
    /\ results = <<>>

End(how) == at' = "done" /\ outcome' = how

\* EngineHandler::new, again by the Clone of the handler in aggregate.
Create ==
    /\ at = "new"
    /\ IF engine \in DOMAIN Handlers THEN at' = "request" /\ UNCHANGED outcome
                                     ELSE End("NoSuchEngineFound")
    /\ UNCHANGED <<task, sent, document, results>>

Start == handler.factor * task.page + handler.plus
Overflows == Start >= Modulus

\* The page parameter is in the url's fragment.
Cut == task.query = "hash" /\ handler.query = "raw"

PageParameter ==
    IF (handler.omitted /\ task.page = 0) \/ Cut THEN {} ELSE {Start % Modulus}

\* Searx's safesearch parameter is then cut off too, and a cookie asks for 2.
Safe(l) == IF Cut /\ engine = "searx" THEN 2 ELSE handler.safe[l]

\* The arithmetic is checked by qwant, panics in a dev build, and wraps otherwise.
Request ==
    /\ at = "request"
    /\ \/ /\ Overflows /\ handler.checked
          /\ End("UnexpectedError")
          /\ UNCHANGED sent
       \/ /\ Overflows /\ ~handler.checked /\ task.profile = "dev"
          /\ End("panic")
          /\ UNCHANGED sent
       \/ /\ Overflows => ~handler.checked /\ task.profile = "release"
          /\ at' = "sent"
          /\ sent' = [page |-> PageParameter, safe |-> Safe(task.level)]
          /\ UNCHANGED outcome
    /\ UNCHANGED <<task, document, results>>

\* A document comes back; its HTTP status is not looked at.
UpstreamAnswers ==
    /\ at = "sent"
    /\ at' = "answered"
    /\ document' \in Documents(engine)
    /\ UNCHANGED <<task, sent, outcome, results>>

\* Mutant of RequestFails: what did not come is an empty page.
RequestFailsEmpty ==
    /\ at = "sent"
    /\ End("EmptyResultSet")
    /\ UNCHANGED <<task, sent, document, results>>

\* fetch_html_from_upstream and fetch_json_as_bytes_from_upstream: no connection,
\* a timeout, or a body that breaks off.  Yahoo changes the error's context.
RequestFails ==
    /\ at = "sent"
    /\ End(IF engine = "yahoo" THEN "UnexpectedError" ELSE "RequestError")
    /\ UNCHANGED <<task, sent, document, results>>

NothingFound(doc) ==
    IF handler.format = "json" THEN \A i \in DOMAIN doc.items : doc.items[i].kind # "whole"
    ELSE IF handler.notice = 0 THEN doc.notices # <<>>
    ELSE handler.notice \in DOMAIN doc.notices /\ doc.notices[handler.notice] = "said"

\* parse_for_results passes over items that lack an element, and the closure of
\* some engines over those without href; others read the link's text.
Scraped(item) ==
    item.kind = "whole" \/ (item.kind = "no href" /\ handler.href \in {"text", "placeholder"})

\* The items that are kept, in their order; kept[n] are those among the first n.
Kept(items) ==
    LET kept[n \in 0 .. Len(items)] ==
          IF n = 0 THEN <<>>
          ELSE IF Scraped(items[n]) THEN Append(kept[n - 1], items[n]) ELSE kept[n - 1]
    IN  kept[Len(items)]

UrlOf(item) ==
    IF engine = "yahoo" /\ item.kind = "whole"
      THEN parse_yahoo_redirect_url(item.link.raw) ELSE item.link.raw

Unwraps(doc) ==
    handler.href = "unwrap" /\ \E i \in DOMAIN doc.items : doc.items[i].kind = "no href"

Parse ==
    /\ at = "answered"
    /\ \/ /\ document.body \in {"unreadable", "error"}
          /\ End("UnexpectedError") /\ UNCHANGED results
       \/ /\ document.body \in {"html", "json"} /\ NothingFound(document)
          /\ End("EmptyResultSet") /\ UNCHANGED results
       \/ /\ document.body = "html" /\ ~NothingFound(document) /\ Unwraps(document)
          /\ End("panic") /\ UNCHANGED results
       \/ /\ document.body \in {"html", "json"} /\ ~NothingFound(document) /\ ~Unwraps(document)
          /\ End("results")
          /\ LET kept == Kept(document.items)
             IN  results' = [i \in DOMAIN kept |-> [item |-> kept[i], url |-> UrlOf(kept[i])]]
    /\ UNCHANGED <<task, sent, document>>

Next == Create \/ Request \/ UpstreamAnswers \/ RequestFails \/ Parse

Spec == Init /\ [][Next]_vars

-----------------------------------------------------------------------------
(* Properties.                                                             *)

\* Where upstream starts, counting results from 0, when it gets a page parameter.
FirstResult ==
    IF sent.page = {} THEN 0
    ELSE ((CHOOSE n \in sent.page : TRUE) - handler.first) * handler.unit

WasSent == at \in {"sent", "answered"} \/ outcome \in {"results", "EmptyResultSet", "RequestError"}

\* A page's request asks for the results right after those of the page before:
\* no engine repeats or skips results from one page to the next, page 0 without a
\* parameter included, up to the page whose parameter overflows u32 (qwant sends
\* nothing from there on), and unless a '#' in the query cuts the parameter off.
PagesTile ==
    WasSent /\ (handler.checked \/ ~Overflows) /\ ~Cut =>
        FirstResult = task.page * handler.per_page

\* Raising the safe search level never asks an engine for less strictness, and from
\* level 3 on every engine that can be restricted is asked for the strictest it
\* has; but for qwant, which is sent a strictness up to level 2 only, and above it
\* a number of which this says nothing.  It says nothing of level 2 either, which the
\* documentation calls restricted and at which Searx is asked for no strictness.
StricterLevels ==
    WasSent =>
        /\ sent.safe \in Strictness =>
             \A l \in task.level .. 4 : Safe(l) \in Strictness => sent.safe <= Safe(l)
        /\ task.level >= 3 /\ engine # "qwant" =>
             sent.safe \in Strictness /\ \A l \in Levels : Safe(l) <= sent.safe
        /\ sent.safe \notin Strictness => engine = "qwant" /\ task.level >= 3

\* What a task reports is what happened: results are the items upstream sent that
\* have a link, in order; "no results" only if upstream said so or sent none; a
\* failed request is an error that says neither; and a task panics only over a
\* link of Bing's without href, or over an overflow in a dev build.
OutcomesAreTruthful ==
    /\ outcome = "results" =>
         /\ document.body \in {"html", "json"}
         /\ \E place \in [DOMAIN results -> DOMAIN document.items] :
              /\ \A i, j \in DOMAIN results : i < j => place[i] < place[j]
              /\ \A i \in DOMAIN results : results[i].item = document.items[place[i]]
              /\ \A n \in DOMAIN document.items :
                   document.items[n].kind = "whole" => \E i \in DOMAIN results : place[i] = n
         /\ \A i \in DOMAIN results : results[i].item.kind \notin {"partial", "other"}
         /\ handler.format = "json" => results # <<>>
    /\ outcome = "EmptyResultSet" =>
         \/ document.body = "html" /\ document.notices # <<>>
         \/ document.body = "json" /\ \A i \in DOMAIN document.items : document.items[i].kind = "other"
    /\ outcome \in {"RequestError", "UnexpectedError"} => document.body \notin {"html", "json"}
    /\ outcome = "panic" =>
         \/ document = NoDocument /\ Overflows /\ task.profile = "dev"
         \/ engine = "bing" /\ \E i \in DOMAIN document.items : document.items[i].kind = "no href"

\* The url of a Yahoo result is the link's target, with characters of several bytes
\* too, whichever of its bytes Yahoo encoded and whichever markers follow; it is
\* the whole link if the target's bytes are no text.
RedirectsAreUndone ==
    engine = "yahoo" => \A i \in DOMAIN results :
        results[i].item.kind = "whole" =>
            results[i].url = IF Utf8(results[i].item.link.target)
                               THEN results[i].item.link.target
                               ELSE results[i].item.link.raw
=============================================================================
