------------------------------- MODULE MCPure -------------------------------
(* The instance of MsgCrypt and of ImageScan for TLC: a run is a run of one   *)
(* of them while the other is idle.                                           *)
EXTENDS MsgCrypt, ImageScan, FiniteSets

MCIdLen == [id \in Names |-> IF id = "nobody" THEN 0 ELSE IF id = "long" THEN 19 ELSE 12]

\* Around whole blocks, the head and the end of a uint32, which is a byte here.
MCLens == 0..80
MCTextLens == {0, 8, 16, 32, 64, 96}
MCFields == {0, 1, 12, 31, 32, 43, 44, 63, 76, 235, 236, 237, 255}
MCLasts == {0, 1, 12, 20, 32, 33, 64, 65}

\* Pieces by their width and by what lower-casing adds to it.
Shape(tag, v, w, g, kept) == [tag |-> tag, values |-> v, width |-> w, grow |-> g, kept |-> kept]

Texts == {Shape("text", <<>>, 3, g, g = 0) : g \in {-2, 0, 1}}
Metas == {<<>>} \cup {<<v>> : v \in Values}
Imgs == {v \in [1..4 -> Values] : Cardinality({a \in 1..4 : v[a] # "missing"}) <= 2}
Moved == {w \in Imgs : w[1] = "url"}
MCTags == {Shape("meta", v, 10, g, g = 0) : v \in Metas, g \in {0, 1}}
          \cup {Shape("img", v, 10, 0, TRUE) : v \in Imgs}
          \cup {Shape("img", v, 10, g, FALSE) : v \in Moved, g \in {0, 1}}
MCShapes == {<<t, a>> : t \in Texts, a \in MCTags}
            \cup {<<t, a, b>> : t \in Texts, a \in MCTags, b \in MCTags}
            \cup {<<a, b, t>> : t \in Texts, a \in MCTags, b \in MCTags}

\* The page that is made of these pieces.
PageOf(h) ==
    LET end[k \in 0..Len(h)] == IF k = 0 THEN 0 ELSE end[k - 1] + h[k].width
        low[k \in 0..Len(h)] == IF k = 0 THEN 0 ELSE low[k - 1] + h[k].width + h[k].grow
    IN [k \in DOMAIN h |-> [tag |-> h[k].tag, values |-> h[k].values, kept |-> h[k].kept,
                            end |-> end[k], low |-> low[k]]]
MCPages == {PageOf(h) : h \in MCShapes}

CryptIdle == own = "nobody" /\ key = "good" /\ CryptStart("idle")
ScanIdle == html = <<>> /\ pass = "idle" /\ at = 1 /\ image = NoImage

Init == \/ CryptInit /\ ScanIdle
        \/ CryptIdle /\ ScanInit
Next == \/ CryptNext /\ UNCHANGED scan
        \/ ScanNext /\ UNCHANGED crypt
Spec == Init /\ [][Next]_<<crypt, scan>>
=============================================================================
