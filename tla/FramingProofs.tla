--------------------------- MODULE FramingProofs ---------------------------
(***************************************************************************)
(* What wechat/crypto.rs encrypts, it reads back, whatever the sizes of    *)
(* the block, the prefix, the XML and the app id.                          *)
(***************************************************************************)
EXTENDS Framing, SequenceTheorems, TLAPS

\* The padding is never empty and never more than a block.
LEMMA PaddingRange ==
    ASSUME NEW n \in Nat
    PROVE  PaddingFor(n) \in 1..Block
<1>1. Block \in Nat /\ Block > 0
  BY FramingAssumption
<1>2. n % Block \in 0..(Block - 1)
  BY <1>1
<1> QED  BY <1>1, <1>2 DEF PaddingFor

\* What Pad adds, byte by byte.
LEMMA PadShape ==
    ASSUME NEW text \in Seq(Nat)
    PROVE  /\ Pad(text) \in Seq(Nat)
           /\ Len(Pad(text)) = Len(text) + PaddingFor(Len(text))
           /\ \A i \in 1..Len(text) : Pad(text)[i] = text[i]
           /\ \A i \in (Len(text) + 1)..Len(Pad(text)) :
                 Pad(text)[i] = PaddingFor(Len(text))
<1> DEFINE p == PaddingFor(Len(text))
           tail == [i \in 1..p |-> p]
<1>1. Len(text) \in Nat
  OBVIOUS
<1>2. p \in 1..Block /\ p \in Nat
  BY <1>1, PaddingRange, FramingAssumption
<1>3. tail \in Seq(Nat) /\ Len(tail) = p
  BY <1>2
<1>4. Pad(text) = text \o tail
  BY DEF Pad
<1> QED  BY <1>1, <1>2, <1>3, <1>4

\* Padding is recognised and removed exactly, also when the text itself ends
\* in bytes that look like padding (remove_wechat_pkcs7_padding undoes
\* add_wechat_pkcs7_padding).
THEOREM PaddingRoundTrip ==
    ASSUME NEW text \in Seq(Nat)
    PROVE  PaddingIsValid(Pad(text)) /\ Unpad(Pad(text)) = text
<1> DEFINE p == PaddingFor(Len(text))
           b == Pad(text)
<1>1. Len(text) \in Nat /\ p \in 1..Block /\ p \in Nat /\ p > 0
  BY PaddingRange, FramingAssumption
<1>2. b \in Seq(Nat) /\ Len(b) = Len(text) + p
  BY PadShape
<1>3. \A i \in (Len(text) + 1)..Len(b) : b[i] = p
  BY PadShape
<1>4. b[Len(b)] = p
  BY <1>1, <1>2, <1>3
<1>5. PaddingIsValid(b)
  <2>1. b /= <<>>
    BY <1>1, <1>2
  <2>2. p <= Len(b) /\ Len(b) - p + 1 = Len(text) + 1
    BY <1>1, <1>2
  <2> HIDE DEF b, p
  <2> QED  BY <1>1, <1>3, <1>4, <2>1, <2>2 DEF PaddingIsValid
<1>6. Unpad(b) = text
  <2>1. Unpad(b) = SubSeq(b, 1, Len(text))
    BY <1>1, <1>2, <1>4 DEF Unpad
  <2>2. \A i \in 1..Len(text) : b[i] = text[i]
    BY PadShape
  <2> HIDE DEF b, p
  <2> QED  BY <1>1, <1>2, <2>1, <2>2
<1> QED  BY <1>5, <1>6

\* A framed message is split into the XML and the app id it was made of
\* (decrypt_payload and split_plaintext undo encrypt_payload).
THEOREM FrameRoundTrip ==
    ASSUME NEW xml \in Seq(Nat), NEW app \in Seq(Nat)
    PROVE  Unframe(Frame(xml, app)) = [xml |-> xml, app |-> app]
<1> DEFINE head == Prefix \o <<Len(xml)>>
           plain == head \o xml \o app
<1>1. /\ head \in Seq(Nat) /\ Len(head) = HeaderLen
      /\ head[HeaderLen] = Len(xml)
      /\ HeaderLen \in Nat /\ HeaderLen > 0
  <2>1. Prefix \in Seq(Nat) /\ Len(Prefix) = Random /\ Random \in Nat
    BY FramingAssumption DEF Prefix
  <2>2. <<Len(xml)>> \in Seq(Nat) /\ Len(<<Len(xml)>>) = 1
    OBVIOUS
  <2> QED  BY <2>1, <2>2 DEF HeaderLen
<1> HIDE DEF head
<1>2. /\ plain \in Seq(Nat)
      /\ Len(plain) = HeaderLen + Len(xml) + Len(app)
  <2>1. head \o xml \in Seq(Nat) /\ Len(head \o xml) = HeaderLen + Len(xml)
    BY <1>1, ConcatProperties
  <2>2. plain \in Seq(Nat) /\ Len(plain) = Len(head \o xml) + Len(app)
    BY <2>1, ConcatProperties
  <2> QED  BY <1>1, <2>1, <2>2
<1>3. plain[HeaderLen] = Len(xml)
  BY <1>1
<1>4. \A i \in 1..Len(xml) : plain[HeaderLen + i] = xml[i]
  BY <1>1
<1>5. \A i \in 1..Len(app) : plain[HeaderLen + Len(xml) + i] = app[i]
  BY <1>1
<1>6. PaddingIsValid(Pad(plain)) /\ Unpad(Pad(plain)) = plain
  BY <1>2, PaddingRoundTrip
<1>7. Len(xml) \in Nat /\ Len(app) \in Nat
  OBVIOUS
<1> HIDE DEF plain
<1>8. IsSplittable(plain)
  BY <1>1, <1>2, <1>3, <1>7 DEF IsSplittable
<1>9. SubSeq(plain, HeaderLen + 1, HeaderLen + Len(xml)) = xml
  BY <1>1, <1>2, <1>4, <1>7
<1>10. SubSeq(plain, HeaderLen + Len(xml) + 1, Len(plain)) = app
  <2> DEFINE rest == SubSeq(plain, HeaderLen + Len(xml) + 1, Len(plain))
  <2>1. rest \in Seq(Nat) /\ Len(rest) = Len(app)
    BY <1>1, <1>2, <1>7
  <2>2. \A i \in 1..Len(app) : rest[i] = plain[HeaderLen + Len(xml) + i]
    BY <1>1, <1>2, <1>7
  <2> HIDE DEF rest
  <2>3. rest = app
    BY <1>5, <2>1, <2>2
  <2> QED  BY <2>3 DEF rest
<1>11. Unframe(Pad(plain)) = Split(plain)
  BY <1>6, <1>8 DEF Unframe
<1>12. Split(plain) = [xml |-> xml, app |-> app]
  BY <1>3, <1>9, <1>10 DEF Split
<1>13. Frame(xml, app) = Pad(plain)
  BY DEF Frame, plain, head
<1> QED  BY <1>11, <1>12, <1>13
============================================================================
