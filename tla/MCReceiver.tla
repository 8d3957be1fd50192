----------------------------- MODULE MCReceiver -----------------------------
(* An admin and a guest; the guest joins by the magic command. *)
EXTENDS Receiver, TLC

CONSTANTS admin, guest, mItem, gJoin, gItem, gEvent, aCommand, aBare

\* A member's item, a guest's join and item.
Trio     == {mItem, gJoin, gItem}
\* With the guest's join, an event (no MsgId) and an admin command.
Events   == {gJoin, gEvent, aCommand, gItem}
\* An admin's item whose XML has no MsgId, beside the guest's.
Bare     == {aBare, gItem}

Senders  == {admin, guest}
FromAll  == mItem :> admin @@ aCommand :> admin @@ aBare :> admin
            @@ gJoin :> guest @@ gItem :> guest @@ gEvent :> guest
KindAll  == mItem :> "item" @@ gItem :> "item" @@ aBare :> "item"
            @@ gJoin :> "join" @@ gEvent :> "unsupported" @@ aCommand :> "command"
FromOf   == [m \in Message |-> FromAll[m]]
KindOf   == [m \in Message |-> KindAll[m]]
MsgIds   == [m \in Message |-> m \notin {gEvent, aBare}]
OnlyAdmin == {admin}

Interchangeable == Permutations(Handler) \cup Permutations(Conn)
=============================================================================
