---------------------------- MODULE PureProofs ----------------------------
(***************************************************************************)
(* Proofs about the two algorithms of the robot that only compute:         *)
(* MsgCrypt, for messages, receiver ids and texts of every length below    *)
(* the width of the length field, and ImageScan, for html of any length,   *)
(* with tags in any order and characters that lower-casing widens or       *)
(* narrows anywhere.                                                       *)
(***************************************************************************)
EXTENDS MsgCrypt, ImageScan, TLAPS

Text == [len: Nat, field: 0..(Word - 1), last: 0..255, idAt: Int, id: Names]

Typed == own \in Names /\ key \in Keys /\ mail \in [flaws: SUBSET Flaws, text: Text]

\* What EncryptMsg wrote is still in mail until it is opened.
SentSound ==
    /\ stage = "empty" => sent = Ends("nothing")
    /\ stage \in {"empty", "sealed"} => opened = Ends("nothing")
    /\ sent.result = "ok" =>
           /\ key = "good"
           /\ \E n \in Lens : /\ sent = Returns(HeadLen, HeadLen + n)
                              /\ mail = [flaws |-> {}, text |-> Sealed(n)]

CryptInv == Typed /\ SentSound /\ RoundTrip /\ OpenedSound

\* Padding fills the last block with 1 to 32 bytes.
LEMMA PaddingFills ==
  ASSUME NEW n \in Nat
  PROVE  /\ Padding(n) \in 1..BlockSize
         /\ (n + Padding(n)) % BlockSize = 0 /\ (n + Padding(n)) % AESBlock = 0
  BY DEF Padding, BlockSize, AESBlock

LEMMA SealedText ==
  ASSUME Typed, NEW n \in Lens
  PROVE  /\ Sealed(n) \in Text
         /\ Sealed(n).len % BlockSize = 0 /\ Sealed(n).len % AESBlock = 0
         /\ Sealed(n).len >= HeadLen /\ Sealed(n).last \in 1..BlockSize
         /\ Unpadded(Sealed(n)) = HeadLen + n + IdLen[own]
         /\ MessageEnd(Sealed(n)) = HeadLen + n
  <1> DEFINE body == HeadLen + n + IdLen[own]
  <1>1. /\ n \in Nat /\ IdLen[own] \in Nat /\ body \in Nat
        /\ body + BlockSize < Word /\ n < Word /\ Word \in Nat
    BY NamesAssumption, WordAssumption DEF Typed, HeadLen, BlockSize
  <1>2. /\ Padding(body) \in 1..BlockSize
        /\ (body + Padding(body)) % BlockSize = 0 /\ (body + Padding(body)) % AESBlock = 0
    BY <1>1, PaddingFills
  <1> HIDE DEF body
  <1>3. Sealed(n) = TextOf(body + Padding(body), n, Padding(body), HeadLen + n, own)
    BY DEF Sealed, body
  <1>4. Sealed(n) \in Text /\ Sealed(n).len >= HeadLen
    BY <1>1, <1>2, <1>3 DEF TextOf, Text, Typed, HeadLen, BlockSize, body
  <1>5. Unpadded(Sealed(n)) = body /\ MessageEnd(Sealed(n)) = HeadLen + n
    BY <1>1, <1>2, <1>3 DEF TextOf, Unpadded, MessageEnd, Sum32, HeadLen, BlockSize, body
  <1> QED BY <1>2, <1>3, <1>4, <1>5 DEF TextOf, body

\* The two ends agree: what one writes, the other reads.
LEMMA SealedOpens ==
  ASSUME Typed, key = "good", NEW n \in Lens, NEW m, m = [flaws |-> {}, text |-> Sealed(n)]
  PROVE  Open(m) = Returns(HeadLen, HeadLen + n)
  <1>1. n \in Nat /\ IdLen[own] \in Nat
    BY NamesAssumption, WordAssumption DEF Typed
  <1>2. ParsePlainText(m.text) = Returns(HeadLen, HeadLen + n)
    BY <1>1, SealedText DEF ParsePlainText, TooSmall, HeadLen, Text
  <1>3. CbcError(m) = "none"
    BY SealedText DEF CbcError, HeadLen, AESBlock, Text
  <1>4. NamesUs(m.text)
    BY SealedText DEF NamesUs, Sealed, TextOf
  <1> QED BY <1>2, <1>3, <1>4 DEF Open, Returns

\* What a text returns lies between its head and its padding.
LEMMA ParsedInside ==
  ASSUME NEW t \in Text, ParsePlainText(t).result = "ok"
  PROVE  /\ ParsePlainText(t) = Returns(HeadLen, HeadLen + t.field)
         /\ MessageEnd(t) = HeadLen + t.field /\ HeadLen + t.field <= t.len - t.last
  <1>1. /\ Unpadded(t) >= MessageEnd(t) /\ MessageEnd(t) >= HeadLen
        /\ ParsePlainText(t) = Returns(HeadLen, MessageEnd(t))
    <2>1. /\ ~TooSmall(t) /\ ~(MessageEnd(t) < HeadLen)
          /\ ParsePlainText(t) = Returns(HeadLen, MessageEnd(t))
      BY DEF ParsePlainText, Ends
    <2> QED BY <2>1, WordAssumption DEF TooSmall, Unpadded, MessageEnd, Sum32, HeadLen, Text
  <1>2. MessageEnd(t) = HeadLen + t.field
    BY <1>1, WordAssumption DEF MessageEnd, Sum32, HeadLen, Text
  <1> QED BY <1>1, <1>2 DEF Unpadded

\* So does what is returned for an envelope, and it is signed and for us.
LEMMA OpenSound ==
  ASSUME Typed, Open(mail).result = "ok", opened' = Open(mail),
         UNCHANGED <<own, key, mail>>
  PROVE  OpenedSound'
  <1> DEFINE parsed == ParsePlainText(mail.text)
  <1>1. /\ "signature" \notin mail.flaws /\ CbcError(mail) = "none"
        /\ parsed.result = "ok" /\ Open(mail) = parsed
        /\ IdLen[own] > 0 => NamesUs(mail.text)
    <2>1. Ends(CbcError(mail)).result # "ok"
      BY DEF Ends, CbcError
    <2>2. Ends("ValidateSignatureError").result # "ok" /\ Ends("ValidateCorpidError").result # "ok"
      BY DEF Ends
    <2> QED BY <2>1, <2>2 DEF Open
  <1>2. key = "good"
    BY <1>1 DEF CbcError, Typed, Keys
  <1>3. /\ parsed = Returns(HeadLen, HeadLen + mail.text.field)
        /\ MessageEnd(mail.text) = HeadLen + mail.text.field
        /\ HeadLen + mail.text.field <= mail.text.len - mail.text.last
    BY <1>1, ParsedInside DEF Typed
  <1> QED BY <1>1, <1>2, <1>3 DEF OpenedSound, NamesUs, Unpadded, Returns

-----------------------------------------------------------------------------
LEMMA CryptInitInv == CryptInit => CryptInv
  <1> SUFFICES ASSUME CryptInit PROVE CryptInv
    OBVIOUS
  <1> USE DEF CryptInit, CryptStart, Ends
  <1>1. IdLen[own] \in Nat
    BY NamesAssumption
  <1>2. Typed
    BY WordAssumption DEF Typed, Text, TextOf, HeadLen, BlockSize
  <1> QED BY <1>2 DEF CryptInv, SentSound, RoundTrip, OpenedSound

LEMMA OpenStep ==
  ASSUME CryptInv, stage = "sealed", stage' = "opened", UNCHANGED <<own, key, mail, sent>>,
         \/ opened' = Open(mail)
         \/ opened' = Ends("ParseXmlError") /\ "xml" \in mail.flaws
  PROVE  CryptInv'
  <1>1. Typed' /\ SentSound'
    BY DEF CryptInv, Typed, SentSound, Sealed
  <1>2. RoundTrip'
    BY SealedOpens DEF CryptInv, SentSound, RoundTrip
  <1>3. OpenedSound'
    BY OpenSound DEF CryptInv, OpenedSound, Ends
  <1> QED BY <1>1, <1>2, <1>3 DEF CryptInv

LEMMA CryptNextInv == CryptInv /\ [CryptNext]_crypt => CryptInv'
  <1> SUFFICES ASSUME CryptInv, [CryptNext]_crypt PROVE CryptInv'
    OBVIOUS
  <1> USE DEF CryptInv, Typed, SentSound, RoundTrip, OpenedSound
  <1>1. ASSUME NEW n \in Lens, EncryptMsg(n) PROVE CryptInv'
    <2>1. CASE key = "good"
      BY <1>1, <2>1, SealedText DEF EncryptMsg, Sealed, Returns, Ends
    <2>2. CASE key # "good"
      BY <1>1, <2>2 DEF EncryptMsg, Ends, KeyError
    <2> QED BY <2>1, <2>2
  <1>2. CASE Arrive
    <2>1. mail' \in [flaws: SUBSET Flaws, text: Text]
      BY <1>2, WordAssumption, TextAssumption DEF Arrive, Text, TextOf, Sum32, HeadLen
    <2> QED BY <1>2, <2>1 DEF Arrive, Ends
  <1>3. CASE VerifyURL \/ DecryptMsg
    <2>1. /\ stage = "sealed" /\ stage' = "opened" /\ UNCHANGED <<own, key, mail, sent>>
          /\ \/ opened' = Open(mail)
             \/ opened' = Ends("ParseXmlError") /\ "xml" \in mail.flaws
      BY <1>3 DEF VerifyURL, DecryptMsg
    <2> QED BY ONLY CryptInv, <2>1, OpenStep
  <1>4. CASE UNCHANGED crypt
    BY <1>4 DEF crypt, Sealed
  <1> QED BY <1>1, <1>2, <1>3, <1>4 DEF CryptNext

LEMMA CryptInvariance == CryptSpec => []CryptInv
  BY CryptInitInv, CryptNextInv, PTL DEF CryptSpec

\* Whatever EncryptMsg seals, DecryptMsg opens with the same settings, unchanged:
\* for messages and receiver ids of every length.
THEOREM RoundTripAlways == CryptSpec => []RoundTrip
  <1>1. CryptInv => RoundTrip
    BY DEF CryptInv
  <1> QED BY <1>1, CryptInvariance, PTL

\* Whatever arrives, DecryptMsg and VerifyURL return nothing but a signed message
\* for the configured receiver, in its full length.
THEOREM OpenedAlwaysSound == CryptSpec => []OpenedSound
  <1>1. CryptInv => OpenedSound
    BY DEF CryptInv
  <1> QED BY <1>1, CryptInvariance, PTL

-----------------------------------------------------------------------------
ScanInv == Searched /\ FirstImage

\* The first of a set of numbers is before all of them.
LEMMA FirstIsLeast ==
    ASSUME NEW S \in SUBSET Nat, NEW x, First(x, S), NEW y \in S
    PROVE  x \in S /\ x <= y
BY DEF First

\* A place is a piece of the html and one of its attributes.
LEMMA PlaceIs ==
    ASSUME NEW tag, NEW p
    PROVE  p \in Places(tag) <=>
               /\ p = <<p[1], p[2]>>
               /\ p[1] \in DOMAIN html /\ p[2] \in 1..4
               /\ html[p[1]].tag = tag /\ p[2] \in Acceptable(html[p[1]])
BY DEF Places, Acceptable

\* The pieces of a page are numbered, end inside it, and end in order in the copy.
LEMMA PageSound ==
    ASSUME html \in Pages, NEW k \in DOMAIN html
    PROVE  /\ html # <<>> /\ Len(html) \in Nat /\ DOMAIN html = 1..Len(html)
           /\ html[k] \in Pieces /\ Size = html[Len(html)].end
           /\ html[k].end <= Size /\ html[k].low <= html[Len(html)].low
           /\ Size \in Nat /\ html[Len(html)].low \in Nat
           /\ AllKept => InPlace(k)
<1>1. /\ html \in Seq(Pieces) /\ Len(html) \in Nat /\ DOMAIN html = 1..Len(html)
      /\ \A i, m \in DOMAIN html : i < m => html[i].end < html[m].end /\ html[i].low < html[m].low
      /\ \A m \in DOMAIN html : (\A i \in 1..m : html[i].kept) => html[m].low = html[m].end
  BY PagesAssumption DEF IsPage
<1>2. k \in 1..Len(html) /\ Len(html) \in DOMAIN html /\ html # <<>>
  BY <1>1
<1>3. \A m \in DOMAIN html : html[m] \in Pieces /\ html[m].end \in Nat /\ html[m].low \in Nat
  <2>1. \A m \in DOMAIN html : html[m] \in Pieces
    BY <1>1
  <2> QED
    BY <2>1 DEF Pieces
<1>4. html[k].end <= html[Len(html)].end /\ html[k].low <= html[Len(html)].low
  <2>1. CASE k = Len(html)
    BY <1>2, <1>3, <2>1
  <2>2. CASE k < Len(html)
    BY <1>1, <1>2, <1>3, <2>2
  <2> QED
    BY <1>1, <1>2, <2>1, <2>2
<1>5. AllKept => InPlace(k)
  BY <1>1, <1>2 DEF AllKept, InPlace, TagEnd
<1> QED
  BY <1>1, <1>2, <1>3, <1>4, <1>5 DEF Size

\* The scan begins at the first piece.
LEMMA ScanInitInv == ScanInit => ScanInv
<1> SUFFICES ASSUME ScanInit PROVE ScanInv
  OBVIOUS
<1>1. html \in Pages /\ at = 1
  BY DEF ScanInit
<1>2. \A p \in Places("meta") : at <= p[1]
  <2> SUFFICES ASSUME NEW p \in Places("meta") PROVE at <= p[1]
    OBVIOUS
  <2>1. p[1] \in DOMAIN html
    BY PlaceIs
  <2> QED
    BY <1>1, <2>1, PageSound
<1> QED
  BY <1>1, <1>2 DEF ScanInit, ScanInv, Searched, FirstImage, Image, NoImage

-----------------------------------------------------------------------------
\* The first tag that is left has no place of the pass before it.
LEMMA TagsAhead ==
    ASSUME ScanInv, pass # "done", AllKept, NEW k, First(k, Tags), NEW p \in Places(pass)
    PROVE  k \in Nat /\ p[1] \in Nat /\ k <= p[1]
<1>1. p[1] \in DOMAIN html /\ html[p[1]].tag = pass /\ at <= p[1]
  BY PlaceIs DEF ScanInv, Searched
<1>2. DOMAIN html = 1..Len(html) /\ Len(html) \in Nat
  BY <1>1, PageSound DEF ScanInv, Searched
<1>3. at \in Nat
  BY DEF ScanInv, Searched
<1>4. Tags \in SUBSET Nat /\ p[1] \in Tags
  BY <1>1, <1>2, <1>3 DEF Tags
<1> QED
  BY <1>4, FirstIsLeast

\* A tag without an image is passed over, a displaced one may be.
LEMMA SkipInv ==
    ASSUME ScanInv, pass \in {"meta", "img"}, NEW k, First(k, Tags), Skip(k), UNCHANGED html,
           AllKept => Acceptable(html[k]) = {}
    PROVE  ScanInv'
<1>1. k \in DOMAIN html /\ k \in Nat
  <2>1. k \in at..Len(html) /\ at \in Nat \ {0}
    BY DEF First, Tags, ScanInv, Searched
  <2>2. html \in Seq(Pieces)
    BY PagesAssumption DEF ScanInv, Searched, IsPage
  <2> QED
    BY <2>1, <2>2
<1>2. at' = k + 1 /\ pass' = pass /\ image' = image /\ html' = html
  BY DEF Skip
<1>3. \A tag : Places(tag)' = Places(tag)
  BY <1>2 DEF Places
<1>4. AllKept' = AllKept
  BY <1>2 DEF AllKept
<1>5. ASSUME AllKept, NEW p \in Places(pass) PROVE k + 1 <= p[1]
  <2>1. p[1] \in Nat /\ k <= p[1]
    BY <1>5, TagsAhead
  <2>2. p[1] # k
    BY <1>5, PlaceIs
  <2> QED
    BY <1>1, <2>1, <2>2
<1>6. Searched'
  BY <1>1, <1>2, <1>3, <1>4, <1>5 DEF ScanInv, Searched
<1> QED
  BY <1>2, <1>6 DEF ScanInv, FirstImage, Searched, Image, NoImage

\* What is found in its place is the first image of the pass.
LEMMA FindInv ==
    ASSUME ScanInv, pass \in {"meta", "img"}, NEW k, First(k, Tags), UNCHANGED html,
           NEW a, First(a, Acceptable(html[k])), Find(Image("html", k, a))
    PROVE  ScanInv'
<1>1. k \in DOMAIN html /\ k \in Nat /\ html[k].tag = pass
  <2>1. k \in at..Len(html) /\ at \in Nat \ {0} /\ html[k].tag = pass
    BY DEF First, Tags, ScanInv, Searched
  <2>2. html \in Seq(Pieces)
    BY PagesAssumption DEF ScanInv, Searched, IsPage
  <2> QED
    BY <2>1, <2>2
<1>2. pass' = "done" /\ image' = Image("html", k, a) /\ at' = at /\ html' = html
  BY DEF Find
<1>3. \A tag : Places(tag)' = Places(tag)
  BY <1>2 DEF Places
<1>4. html[k].values \in UNION {[1..n -> Values] : n \in 0..4}
  BY <1>1, PageSound DEF ScanInv, Searched, Pieces
<1>5. Acceptable(html[k]) \in SUBSET (1..4) /\ a \in Acceptable(html[k])
  BY <1>4 DEF Acceptable, First
<1>6. <<k, a>> \in Places(pass)
  BY <1>1, <1>5, PlaceIs
<1>7. ASSUME AllKept, NEW q \in Places(pass) PROVE Before(<<k, a>>, q)
  <2>1. q[1] \in Nat /\ k <= q[1]
    BY <1>7, TagsAhead
  <2>2. q[2] \in Acceptable(html[q[1]])
    BY PlaceIs
  <2>3. q[1] = k => a <= q[2]
    BY <1>5, <2>2, FirstIsLeast
  <2> QED
    BY <1>1, <2>1, <2>3 DEF Before
<1>8. AllKept => pass = "meta" \/ Places("meta") = {}
  BY DEF ScanInv, Searched
<1>9. FirstImage'
  <2> SUFFICES ASSUME AllKept
               PROVE  LET places == IF Places("meta") # {} THEN Places("meta") ELSE Places("img")
                      IN \E p \in places : /\ image' = Image("html", p[1], p[2])
                                           /\ \A q \in places : Before(p, q)
    BY <1>2, <1>3 DEF FirstImage, AllKept
  <2>1. (IF Places("meta") # {} THEN Places("meta") ELSE Places("img")) = Places(pass)
    BY <1>6, <1>8
  <2>2. \A q \in Places(pass) : Before(<<k, a>>, q)
    BY <1>7
  <2> QED
    BY <1>2, <1>6, <2>1, <2>2
<1> QED
  BY <1>2, <1>9 DEF ScanInv, Searched, Image

\* Only where a character changed its width is anything else found.
LEMMA OtherFindInv ==
    ASSUME ScanInv, NEW kind \in {"panic", "displaced"}, Find(Image(kind, 0, 0)), UNCHANGED html,
           ~AllKept
    PROVE  ScanInv'
<1>1. pass' = "done" /\ image' = Image(kind, 0, 0) /\ at' = at /\ html' = html
  BY DEF Find
<1>2. ~AllKept'
  BY <1>1 DEF AllKept
<1> QED
  BY <1>1, <1>2 DEF ScanInv, Searched, FirstImage, Image, Size

\* A round of the loop.
LEMMA NextTagInv == ASSUME ScanInv, NextTag PROVE ScanInv'
<1>1. PICK k \in Tags :
          /\ First(k, Tags)
          /\ \/ TagEnd(k) > Size /\ Find(Image("panic", 0, 0))
             \/ /\ TagEnd(k) <= Size /\ InPlace(k)
                /\ \/ Acceptable(html[k]) = {} /\ Skip(k)
                   \/ \E a \in Acceptable(html[k]) : /\ First(a, Acceptable(html[k]))
                                                     /\ Find(Image("html", k, a))
             \/ /\ TagEnd(k) <= Size /\ ~InPlace(k)
                /\ (Skip(k) \/ Find(Image("displaced", 0, 0)))
  BY DEF NextTag
<1>2. pass \in {"meta", "img"} /\ UNCHANGED html
  BY DEF NextTag
<1>3. k \in DOMAIN html
  <2>1. k \in at..Len(html) /\ at \in Nat \ {0}
    BY DEF Tags, ScanInv, Searched
  <2>2. html \in Seq(Pieces)
    BY PagesAssumption DEF ScanInv, Searched, IsPage
  <2> QED
    BY <2>1, <2>2
<1>4. /\ html # <<>> /\ html[k].end \in Nat /\ html[k].low \in Nat
      /\ html[k].end <= Size /\ html[k].low <= html[Len(html)].low
      /\ Size \in Nat /\ html[Len(html)].low \in Nat
      /\ AllKept => InPlace(k)
  BY <1>3, PageSound DEF ScanInv, Searched, Pieces
<1>5. CASE TagEnd(k) > Size /\ Find(Image("panic", 0, 0))
  <2>1. html[Len(html)].low > Size /\ ~InPlace(k)
    BY <1>4, <1>5 DEF TagEnd, InPlace
  <2> QED
    BY <1>2, <1>4, <1>5, <2>1, OtherFindInv
<1>6. CASE Acceptable(html[k]) = {} /\ Skip(k)
  BY <1>1, <1>2, <1>6, SkipInv
<1>7. ASSUME NEW a, First(a, Acceptable(html[k])), Find(Image("html", k, a)) PROVE ScanInv'
  BY <1>1, <1>2, <1>7, FindInv
<1>8. CASE ~InPlace(k) /\ Skip(k)
  BY <1>1, <1>2, <1>4, <1>8, SkipInv
<1>9. CASE ~InPlace(k) /\ Find(Image("displaced", 0, 0))
  BY <1>2, <1>4, <1>9, OtherFindInv
<1> QED
  BY <1>1, <1>5, <1>6, <1>7, <1>8, <1>9

\* A pass that found nothing has left no place behind.
LEMMA EndOfPassInv == ASSUME ScanInv, EndOfPass PROVE ScanInv'
<1>1. /\ pass \in {"meta", "img"} /\ Tags = {} /\ html' = html /\ image' = image /\ at' = 1
      /\ pass' = IF pass = "meta" THEN "img" ELSE "done"
  BY DEF EndOfPass
<1>2. ASSUME AllKept PROVE Places(pass) = {}
  <2> SUFFICES ASSUME NEW p \in Places(pass) PROVE FALSE
    OBVIOUS
  <2>1. p[1] \in DOMAIN html /\ html[p[1]].tag = pass /\ at <= p[1]
    BY <1>1, <1>2, PlaceIs DEF ScanInv, Searched
  <2>2. DOMAIN html = 1..Len(html) /\ Len(html) \in Nat /\ at \in Nat
    BY <2>1, PageSound DEF ScanInv, Searched
  <2>3. p[1] \in Tags
    BY <2>1, <2>2 DEF Tags
  <2> QED
    BY <1>1, <2>3
<1>3. \A tag : Places(tag)' = Places(tag)
  BY <1>1 DEF Places
<1>4. AllKept' = AllKept /\ image = NoImage
  BY <1>1 DEF AllKept, ScanInv, Searched
<1>5. \A p \in Places("img") : 1 <= p[1]
  <2> SUFFICES ASSUME NEW p \in Places("img") PROVE 1 <= p[1]
    OBVIOUS
  <2>1. p[1] \in DOMAIN html
    BY PlaceIs
  <2> QED
    BY <2>1, PageSound DEF ScanInv, Searched
<1>6. Searched'
  BY <1>1, <1>2, <1>3, <1>4, <1>5 DEF ScanInv, Searched
<1>7. FirstImage'
  <2> SUFFICES ASSUME pass = "img", AllKept
               PROVE  Places("meta") = {} /\ Places("img") = {} /\ image' = NoImage
    BY <1>1, <1>3, <1>4 DEF FirstImage
  <2> QED
    BY <1>1, <1>2, <1>4 DEF ScanInv, Searched
<1> QED
  BY <1>1, <1>4, <1>6, <1>7 DEF ScanInv, NoImage, Image

-----------------------------------------------------------------------------
LEMMA ScanNextInv == ScanInv /\ [ScanNext]_scan => ScanInv'
<1> SUFFICES ASSUME ScanInv, [ScanNext]_scan PROVE ScanInv'
  OBVIOUS
<1>1. CASE UNCHANGED scan
  BY <1>1 DEF scan, ScanInv, Searched, FirstImage, AllKept, Places, Size
<1> QED
  BY <1>1, NextTagInv, EndOfPassInv DEF ScanNext

LEMMA ScanInvariance == ScanSpec => []ScanInv
BY ScanInitInv, ScanNextInv, PTL DEF ScanSpec

\* Html that keeps its width gives the article the first acceptable image, and
\* none only if there is none (firstMetaImageURL, firstImageURL).
THEOREM FirstImageAlways == ScanSpec => []FirstImage
<1>1. ScanInv => FirstImage
  BY DEF ScanInv
<1> QED
  BY ScanInvariance, <1>1, PTL
=============================================================================
