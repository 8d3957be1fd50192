------------------------------ MODULE Framing ------------------------------
(***************************************************************************)
(* The layout of an encrypted callback (src/src/wechat/crypto.rs): what is *)
(* put between the cipher and the XML, as operators on sequences of bytes. *)
(* AES and Base64 are external: a payload is the sequence they carry.      *)
(*                                                                         *)
(* Block is the padding unit (32 in the code), Random the number of bytes  *)
(* before the length (16).  The length takes four bytes in the code and    *)
(* one cell here.                                                          *)
(***************************************************************************)
EXTENDS Integers, Sequences

CONSTANTS Block, Random

ASSUME FramingAssumption == /\ Block \in Nat \ {0}
                            /\ Random \in Nat

\* What an operator returns when the code returns an error.
Malformed == [error |-> TRUE]

----------------------------------------------------------------------------
PaddingFor(n) == Block - (n % Block)

\* add_wechat_pkcs7_padding: a full block when the text fills its last one.
Pad(text) == text \o [i \in 1..PaddingFor(Len(text)) |-> PaddingFor(Len(text))]

\* Whether `bytes` ends in as many copies of its last byte as that byte says.
PaddingIsValid(bytes) ==
    /\ bytes /= <<>>
    /\ LET padding == bytes[Len(bytes)] IN
         /\ padding \in 1..Block
         /\ padding <= Len(bytes)
         /\ \A i \in (Len(bytes) - padding + 1)..Len(bytes) : bytes[i] = padding

\* remove_wechat_pkcs7_padding, of bytes whose padding is valid.
Unpad(bytes) == SubSeq(bytes, 1, Len(bytes) - bytes[Len(bytes)])

----------------------------------------------------------------------------
Prefix == [i \in 1..Random |-> 48]

\* encrypt_payload, without the cipher.
Frame(xml, app) == Pad(Prefix \o <<Len(xml)>> \o xml \o app)

HeaderLen == Random + 1

\* split_plaintext's two refusals.
IsSplittable(plain) ==
    /\ Len(plain) >= HeaderLen
    /\ HeaderLen + plain[HeaderLen] <= Len(plain)

\* split_plaintext: the rest after the XML is the app id.
Split(plain) ==
    LET xmlEnd == HeaderLen + plain[HeaderLen] IN
      [xml |-> SubSeq(plain, HeaderLen + 1, xmlEnd),
       app |-> SubSeq(plain, xmlEnd + 1, Len(plain))]

\* decrypt_payload and split_plaintext, after the cipher.
Unframe(bytes) ==
    IF PaddingIsValid(bytes) /\ IsSplittable(Unpad(bytes))
    THEN Split(Unpad(bytes))
    ELSE Malformed
============================================================================
