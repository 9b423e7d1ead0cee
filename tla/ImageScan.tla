----------------------------- MODULE ImageScan -----------------------------
(***************************************************************************)
(* The image of a saved article: what extractMetadata takes from the html  *)
(* when the LLM names none.  firstMetaImageURL and firstImageURL look for  *)
(* tags in a lower-cased copy of the html and cut them out of the html at  *)
(* the same byte offsets.  But lower-casing does not keep the length of    *)
(* every character, and makes three bytes of a byte that is no UTF-8.      *)
(*                                                                         *)
(* Html is a sequence of pieces: tags, from their name to the next >, and  *)
(* the text between them.  A piece has the byte where it ends, in the html *)
(* and in the lower-cased copy, whether each of its characters keeps its   *)
(* width, and the values of the attributes that are tried, in the order    *)
(* they are tried: content of a <meta> with the name of an image; src,     *)
(* data-src, data-original and srcset of an <img>.                         *)
(***************************************************************************)
EXTENDS Integers, Sequences

CONSTANT Pages \* bound: the html that is looked at

Values == {"missing", "data", "url"} \* a data: url is not acceptable

Pieces == [tag: {"text", "meta", "img"}, values: UNION {[1..n -> Values] : n \in 0..4},
           end: Nat, low: Nat, kept: BOOLEAN]

\* Later pieces end later, and the copy runs along with the html for as long as
\* every character keeps its width.
IsPage(h) ==
    /\ h \in Seq(Pieces)
    /\ \A i, k \in DOMAIN h : i < k => h[i].end < h[k].end /\ h[i].low < h[k].low
    /\ \A k \in DOMAIN h : (\A i \in 1..k : h[i].kept) => h[k].low = h[k].end

ASSUME PagesAssumption == \A h \in Pages : IsPage(h)

VARIABLES
    html,
    pass,  \* "meta", "img", "done", or "idle" (nothing happens)
    at,    \* the first piece this pass has not seen
    image  \* doc.ImageURL, with its piece and attribute when it is from there

scan == <<html, pass, at, image>>

Image(kind, k, a) == [kind |-> kind, piece |-> k, attr |-> a]
NoImage == Image("none", 0, 0)

\* The LLM has found an image or has not.
ScanInit ==
    /\ html \in Pages /\ at = 1
    /\ \/ pass = "meta" /\ image = NoImage
       \/ pass = "done" /\ image = Image("given", 0, 0)

-----------------------------------------------------------------------------
\* The length of the html.
Size == IF html = <<>> THEN 0 ELSE html[Len(html)].end

\* The slice of html that is taken for tag k ends here, and begins where the piece
\* before ends in the copy.
TagEnd(k) == html[k].low

\* The slice is tag k, and its attributes are where they are in the copy.
InPlace(k) == html[k].kept /\ TagEnd(k) = html[k].end

\* The attributes that give an image.
\* FirstPresent: the first attribute decides, acceptable or not.
FirstPresent(p) == {a \in DOMAIN p.values : /\ p.values[a] = "url"
                                            /\ \A b \in 1..(a - 1) : p.values[b] = "missing"}
Acceptable(p) == {a \in DOMAIN p.values : p.values[a] = "url"}

Tags == {k \in at..Len(html) : html[k].tag = pass}

Find(found) == image' = found /\ pass' = "done" /\ UNCHANGED at
Skip(k) == at' = k + 1 /\ UNCHANGED <<pass, image>>

First(x, S) == x \in S /\ \A y \in S : x <= y

\* One round of the loop of firstMetaImageURL or firstImageURL.  Slicing beyond
\* the html panics, and nobody recovers: the process ends.
NextTag ==
    /\ pass \in {"meta", "img"}
    /\ \E k \in Tags :
          /\ First(k, Tags)
          /\ \/ TagEnd(k) > Size /\ Find(Image("panic", 0, 0))
             \/ /\ TagEnd(k) <= Size /\ InPlace(k)
                /\ \/ Acceptable(html[k]) = {} /\ Skip(k)
                   \/ \E a \in Acceptable(html[k]) : /\ First(a, Acceptable(html[k]))
                                                     /\ Find(Image("html", k, a))
             \/ /\ TagEnd(k) <= Size /\ ~InPlace(k)
                /\ (Skip(k) \/ Find(Image("displaced", 0, 0)))
    /\ UNCHANGED html

\* No image in any <meta>: try each <img>.
EndOfPass ==
    /\ pass \in {"meta", "img"} /\ Tags = {}
    /\ pass' = IF pass = "meta" THEN "img" ELSE "done"
    /\ at' = 1
    /\ UNCHANGED <<html, image>>

ScanNext == NextTag \/ EndOfPass

ScanSpec == ScanInit /\ [][ScanNext]_scan

-----------------------------------------------------------------------------
\* Where an image is, by any reading of the html.
Places(tag) == {p \in (DOMAIN html) \X (1..4) :
                    /\ html[p[1]].tag = tag /\ p[2] \in DOMAIN html[p[1]].values
                    /\ html[p[1]].values[p[2]] = "url"}
Before(p, q) == p[1] < q[1] \/ (p[1] = q[1] /\ p[2] <= q[2])

AllKept == \A k \in DOMAIN html : html[k].kept

\* Without characters that change their length, the article's image is that of
\* the first <meta> that names an acceptable one, and else the first acceptable
\* attribute of the first <img> that has one; no image means there is none.
FirstImage ==
    pass = "done" /\ image.kind # "given" /\ AllKept =>
        LET places == IF Places("meta") # {} THEN Places("meta") ELSE Places("img")
        IN \/ places = {} /\ image = NoImage
           \/ \E p \in places : /\ image = Image("html", p[1], p[2])
                                /\ \A q \in places : Before(p, q)

\* What makes FirstImage inductive: a pass leaves no image behind it.
Searched ==
    /\ html \in Pages /\ at \in Nat \ {0}
    /\ pass \in {"meta", "img", "done"}
    /\ pass # "done" => image = NoImage
    /\ pass # "done" /\ AllKept => \A p \in Places(pass) : at <= p[1]
    /\ pass = "img" /\ AllKept => Places("meta") = {}
=============================================================================
