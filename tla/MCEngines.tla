------------------------------ MODULE MCEngines -----------------------------
(* Engines with a u32 of six bits, and so 64 values. *)
EXTENDS Engines, TLC

\* Around page 0 and the pages whose parameter overflows with factors 30, 20 and 10.
MCPages == {0, 1, 2, 3, 6, 7, 63}

\* Two items show order and neighbours; one is enough for Yahoo's links.
MCMaxItems == [e \in DOMAIN Handlers |-> IF e = "yahoo" THEN 1 ELSE 2]

\* Targets over '%', '2', 'o' and a byte that is no character of its own; two that
\* are characters of two and three bytes, and two of the same bytes that are none.
MCBytes == {37, 50, 111, 233}
MCTargets ==
    UpTo(MCBytes, 1) \cup {<<Percent, 50>>, <<111, Percent>>, <<195, 169>>, <<169, 195>>,
                           <<226, 130, 172>>, <<224, 130, 172>>}

\* All encodings of a short target.
Encodings(target) ==
    CASE Len(target) = 0 -> {<<>>}
      [] Len(target) = 1 -> Forms(target[1])
      [] Len(target) = 2 -> {f \o g : f \in Forms(target[1]), g \in Forms(target[2])}
      [] Len(target) = 3 -> {f \o g \o h : f \in Forms(target[1]), g \in Forms(target[2]),
                                           h \in Forms(target[3])}

\* What follows the target: the markers in either order, or nothing.
Endings == {<<>>, <<RK, 50>>, <<RS, 50>>, <<RK, 50, RS, 50>>, <<RS, 50, RK, 50>>}

\* Redirects, and links that are none, where they are text.
MCLinks ==
    LET links == UNION {{[target |-> t, raw |-> <<50, RU>> \o e \o end] :
                            e \in Encodings(t), end \in Endings} : t \in MCTargets}
                   \cup {[target |-> t, raw |-> t] : t \in MCTargets}
    IN  {link \in links : Utf8(link.raw)}
=============================================================================
