---------------------------- MODULE KeyedEntries ----------------------------
(***************************************************************************)
(* What the source writer promises, with no markers and no files: each     *)
(* document is a list of entries, grouped into blocks, an entry's place    *)
(* being its block and its key.  Writing a key of a block again replaces   *)
(* its entry where it stands; a new key goes to the end of its block, a    *)
(* new block to the end of the document.  Nothing else of the document,    *)
(* and no other document, changes.                                         *)
(*                                                                         *)
(* The promise ends where a block is spoilt, that is, given what the       *)
(* writer cannot tell from its own markers: the list is cut there, once,   *)
(* and what is ahead is kept as before.                                    *)
(*                                                                         *)
(* A list is given by the entries it holds and by the order of their       *)
(* places: <<p, q>> is in the order when p is ahead of q.                  *)
(***************************************************************************)
EXTENDS Naturals

CONSTANTS Document, Block

VARIABLES
  entries,   \* per document, [held |-> entries, order |-> pairs of places]
  spoilt     \* per document, its spoilt blocks

Init ==
  /\ entries = [d \in Document |-> [held |-> {}, order |-> {}]]
  /\ spoilt = [d \in Document |-> {}]

Places(list) == {e.place : e \in list.held}
Members(list, b) == {p \in Places(list) : p[1] = b}

\* The places a new one in block b comes after: those of its block and what is
\* ahead of them, or all if it starts the block.
Ahead(list, b) ==
  LET members == Members(list, b)
  IN  IF members = {} THEN Places(list)
      ELSE {p \in Places(list) : p \in members \/ \E m \in members : <<p, m>> \in list.order}

Put(list, b, k, v) ==
  LET new   == <<b, k>>
      ahead == Ahead(list, b)
  IN  [held  |-> {e \in list.held : e.place # new} \cup {[place |-> new, version |-> v]},
       order |-> IF new \in Places(list) THEN list.order
                 ELSE list.order \cup (ahead \X {new})
                                 \cup ({new} \X (Places(list) \ ahead))]

\* The list up to its block b.
Cut(list, b) ==
  LET kept == {p \in Places(list) : \A m \in Members(list, b) : <<p, m>> \in list.order}
  IN  [held  |-> {e \in list.held : e.place \in kept},
       order |-> list.order \cap (kept \X kept)]

Write(d, before, after) ==
  /\ \E e \in after.held : after = Put(before, e.place[1], e.place[2], e.version)
  /\ UNCHANGED spoilt

Spoil(d, before, after) ==
  \E b \in Block \ spoilt[d] :
    /\ spoilt' = [spoilt EXCEPT ![d] = @ \cup {b}]
    /\ after = Cut(before, b)

\* One document changes, in one way or the other.
Next ==
  LET before == entries
      after  == entries'
  IN  /\ after # before \/ spoilt' # spoilt
      /\ \E d \in Document :
           /\ after = [before EXCEPT ![d] = after[d]]
           /\ Write(d, before[d], after[d]) \/ Spoil(d, before[d], after[d])

Spec == Init /\ [][Next]_<<entries, spoilt>>
=============================================================================
