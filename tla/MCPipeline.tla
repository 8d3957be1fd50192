----------------------------- MODULE MCPipeline -----------------------------
(* A text with a repeated address, a text with a refused one, a link, a place *)
(* and a picture.                                                             *)
EXTENDS Pipeline

CONSTANTS text, mixed, link, place, picture, a, b, lan

MCMsg  == {text, mixed, link, place, picture}
MCKind == [m \in MCMsg |-> CASE m \in {text, mixed} -> "text"
                             [] m = link -> "link"
                             [] m = place -> "location"
                             [] m = picture -> "media"]
MCUrls == [m \in MCMsg |-> CASE m = text -> <<a, b, a>>
                             [] m = mixed -> <<a, lan>>
                             [] m = link -> <<a>>
                             [] OTHER -> <<>>]
MCKeys == {"tencentLbs", "appId", "appSecret", "gemini"}
=============================================================================
