----------------------------- MODULE Callback ------------------------------
(***************************************************************************)
(* What a callback must show before it becomes a message: the checks of    *)
(* src/src/wechat (signature, decryption, required elements) and the       *)
(* columns src/src/receiver keeps of a message, as operators.              *)
(*                                                                         *)
(* SHA-1, AES, Base64 and the XML reader are external.  A signature is the *)
(* record of what it was computed over; a payload is the bytes it carries  *)
(* and the key they are sealed with; Messages says which texts are XML and *)
(* what they hold.                                                         *)
(***************************************************************************)
EXTENDS Framing

CONSTANTS
    Messages,  \* the texts the XML reader reads, each with its message
    Noise      \* what opening a payload with another key may give

NoPayload == [key |-> "none", bytes |-> <<>>]
Unsigned  == [token |-> [shape |-> "absent", word |-> "none"],
              nonce |-> "none", payload |-> NoPayload]

\* calculate_signature, calculate_encrypted_signature: the parts are sorted
\* before they are hashed.  The plain one does not cover the body.
Signature(token, nonce, payload) ==
    [token |-> token, nonce |-> nonce, payload |-> payload]

\* decode_encoding_aes_key: exactly 43 characters, so not one blank more.
IsKey(text) == text.shape = "plain"

\* What the cipher gives for a payload.
Opened(key, payload) ==
    IF payload.key = key.word THEN {payload.bytes} ELSE Noise

----------------------------------------------------------------------------
(* Messages: an element is there or not                                    *)

Media == {"image", "voice", "video", "shortvideo"}

\* try_from: the elements a message of a type cannot lack.
Required(type) ==
    CASE type = "text"     -> {"Content"}
      [] type \in Media    -> {"MediaId"}
      [] type = "location" -> {"Location_X", "Location_Y"}
      [] type = "link"     -> {"Url"}
      [] OTHER             -> {}

\* The elements the row of a message keeps, by type.
Kept(type) ==
    CASE type = "text"     -> {"Content"}
      [] type = "image"    -> {"MediaId", "PicUrl"}
      [] type = "voice"    -> {"MediaId", "Format", "Recognition"}
      [] type \in {"video", "shortvideo"} -> {"MediaId", "ThumbMediaId"}
      [] type = "location" -> {"Location_X", "Location_Y", "Scale", "Label"}
      [] type = "link"     -> {"Title", "Description", "Url"}
      [] OTHER             -> {}

IsSupported(type) == type \in Media \cup {"text", "location", "link"}

\* parse_plain_message.
Parses(xml) ==
    /\ xml \in DOMAIN Messages
    /\ Required(Messages[xml].type) \subseteq Messages[xml].elements

\* The row insert_message_idempotent is given.
RowOf(xml) ==
    [type    |-> IF IsSupported(Messages[xml].type)
                 THEN Messages[xml].type ELSE "unsupported",
     columns |-> Messages[xml].elements \cap Kept(Messages[xml].type)]

\* The columns the worker refuses to do without
\* (artifact_from_stored_message, process_media_message).
WorkerNeeds(type) ==
    CASE type \in Media    -> {"MediaId"}
      [] type = "location" -> {"Location_X", "Location_Y"}
      [] type = "link"     -> {"Url"}
      [] OTHER             -> {}
============================================================================
