------------------------------ MODULE MsgCrypt ------------------------------
(***************************************************************************)
(* WXBizMsgCrypt: one message in its envelope.                             *)
(*                                                                         *)
(*     envelope = XML of base64 of AES-CBC of text, signed                 *)
(*     text     = 16 random bytes, length of the message as a uint32,      *)
(*                message, receiver id, padding                            *)
(*                                                                         *)
(* A text is its length and the three things that are read from it: the    *)
(* length field, the last byte, and which receiver id begins where.  AES,  *)
(* SHA-1, base64 and XML do what they are meant to or report an error; a   *)
(* text that was not written by EncryptMsg, or not with this key, may have *)
(* any length of whole blocks, any field and any last byte.  A message is  *)
(* the place it is read from.  Go's slices panic when their bounds are not *)
(* in order; uint32 sums wrap around.                                      *)
(***************************************************************************)
EXTENDS Integers

CONSTANTS
    Word,           \* 2^32
    Names, IdLen,   \* receiver ids and their lengths
    Lens,           \* bound: lengths of messages
    TextLens, Fields, Lasts \* bounds: lengths, fields and last bytes of texts

BlockSize == 32
AESBlock == 16
HeadLen == 20 \* of a text: what precedes the message

ASSUME NamesAssumption == IdLen \in [Names -> Nat]
ASSUME WordAssumption ==
    /\ Word \in Nat /\ HeadLen + BlockSize < Word /\ Lens \subseteq Nat
    /\ \A n \in Lens, id \in Names : HeadLen + n + IdLen[id] + BlockSize < Word
ASSUME TextAssumption ==
    TextLens \subseteq Nat /\ Fields \subseteq 0..(Word - 1) /\ Lasts \subseteq 0..255

\* The sum of two uint32.
Sum32(a, b) == IF a + b < Word THEN a + b ELSE a + b - Word

Flaws == {"xml", "signature", "base64"}
Keys == {"good", "undecodable", "size"}

\* A text; a receiver id begins at idAt.
TextOf(len, field, last, idAt, id) ==
    [len |-> len, field |-> field, last |-> last, idAt |-> idAt, id |-> id]

Returns(from, to) == [result |-> "ok", from |-> from, to |-> to]
Ends(result) == [result |-> result, from |-> 0, to |-> 0]

VARIABLES
    own,    \* the receiver id in the configuration
    key,    \* what the configured EncodingAESKey is like
    mail,   \* the envelope's flaws and text
    sent,   \* where EncryptMsg put its message in mail, or its error
    opened, \* what DecryptMsg or VerifyURL made of mail
    stage   \* "empty", "sealed", "opened", or "idle" (nothing happens)

crypt == <<own, key, mail, sent, opened, stage>>

CryptStart(s) ==
    /\ mail = [flaws |-> {}, text |-> TextOf(0, 0, 0, 0, own)]
    /\ sent = Ends("nothing") /\ opened = Ends("nothing") /\ stage = s

CryptInit == own \in Names /\ key \in Keys /\ CryptStart("empty")

-----------------------------------------------------------------------------
\* pKCS7Padding, to 32 bytes though AES has blocks of 16.
\* ToAESBlock: to 16.
ToAESBlock(n) == AESBlock - (n % AESBlock)
Padding(n) == BlockSize - (n % BlockSize)

\* cbcEncrypter, and what aes.NewCipher thinks of the key.
KeyError(failure) == IF key = "undecodable" THEN "DecodeBase64Error" ELSE failure

\* The text EncryptMsg writes.
Sealed(n) ==
    LET body == HeadLen + n + IdLen[own]
    IN TextOf(body + Padding(body), n, Padding(body), HeadLen + n, own)

EncryptMsg(n) ==
    /\ stage = "empty"
    /\ \/ /\ key = "good"
          /\ mail' = [flaws |-> {}, text |-> Sealed(n)]
          /\ sent' = Returns(HeadLen, HeadLen + n) /\ stage' = "sealed"
       \/ /\ key # "good"
          /\ sent' = Ends(KeyError("EncryptAESError"))
          /\ stage' = "opened" /\ UNCHANGED mail
    /\ UNCHANGED <<own, key, opened>>

\* Anything else that may come.
Arrive ==
    /\ stage = "empty" /\ stage' = "sealed"
    /\ \E flaws \in SUBSET Flaws, len \in TextLens, field \in Fields, last \in Lasts, id \in Names :
           mail' = [flaws |-> flaws,
                    text |-> TextOf(len, field, last, Sum32(HeadLen, field), id)]
    /\ UNCHANGED <<own, key, sent, opened>>

-----------------------------------------------------------------------------
\* pKCS7Unpadding and ParsePlainText: the first check that fails decides.
\* PaddedEnd: the length field is compared with the padded text.
Unpadded(t) == t.len - t.last
MessageEnd(t) == Sum32(HeadLen, t.field)
PaddedEnd(t) == t.len < MessageEnd(t)
TooSmall(t) == Unpadded(t) < MessageEnd(t)

ParsePlainText(t) ==
    IF t.len = 0 \/ t.len % BlockSize # 0 THEN Ends("DecryptAESError")
    ELSE IF Unpadded(t) < 0               THEN Ends("panic")
    ELSE IF Unpadded(t) < HeadLen            THEN Ends("IllegalBuffer")
    ELSE IF TooSmall(t)                   THEN Ends("IllegalBuffer")
    ELSE IF MessageEnd(t) < HeadLen          THEN Ends("panic")
    ELSE Returns(HeadLen, MessageEnd(t))

\* cbcDecrypter: the key, the text, the key's size, the text's size.
CbcError(m) ==
    IF key = "undecodable" \/ "base64" \in m.flaws       THEN "DecodeBase64Error"
    ELSE IF key = "size"                                 THEN "DecryptAESError"
    ELSE IF m.text.len < AESBlock                        THEN "DecryptAESError"
    ELSE IF m.text.len % AESBlock # 0                    THEN "DecryptAESError"
    ELSE "none"

\* What follows the message is the configured receiver id, if there is one.
NamesUs(t) == /\ t.id = own /\ t.idAt = MessageEnd(t)
              /\ Unpadded(t) = t.idAt + IdLen[t.id]

\* What VerifyURL and DecryptMsg have in common.
Open(m) ==
    LET parsed == ParsePlainText(m.text)
    IN IF "signature" \in m.flaws                       THEN Ends("ValidateSignatureError")
       ELSE IF CbcError(m) # "none"                     THEN Ends(CbcError(m))
       ELSE IF parsed.result # "ok"                     THEN parsed
       ELSE IF IdLen[own] > 0 /\ ~NamesUs(m.text)       THEN Ends("ValidateCorpidError")
       ELSE parsed

VerifyURL ==
    /\ stage = "sealed" /\ stage' = "opened"
    /\ opened' = Open(mail)
    /\ UNCHANGED <<own, key, mail, sent>>

DecryptMsg ==
    /\ stage = "sealed" /\ stage' = "opened"
    /\ opened' = IF "xml" \in mail.flaws THEN Ends("ParseXmlError") ELSE Open(mail)
    /\ UNCHANGED <<own, key, mail, sent>>

CryptNext ==
    \/ \E n \in Lens : EncryptMsg(n)
    \/ Arrive
    \/ VerifyURL
    \/ DecryptMsg

CryptSpec == CryptInit /\ [][CryptNext]_crypt

-----------------------------------------------------------------------------
\* Every reply can be opened with the settings it was sealed with, and nothing
\* is lost or added at either end: the length field, the padding and the receiver
\* id agree, for messages that fill whole blocks, too.
RoundTrip ==
    stage = "opened" /\ sent.result = "ok" => opened = sent

\* Whatever comes: what is returned was signed, is as long as its length field
\* says, lies in front of the padding, and is for the configured receiver; so a
\* length that wrapped around returns nothing.
OpenedSound ==
    opened.result = "ok" =>
        /\ "signature" \notin mail.flaws /\ key = "good"
        /\ opened.from = HeadLen /\ opened.to = HeadLen + mail.text.field
        /\ opened.to <= mail.text.len - mail.text.last
        /\ IdLen[own] > 0 =>
               /\ mail.text.id = own
               /\ opened.to + IdLen[own] = mail.text.len - mail.text.last
=============================================================================
