------------------------------ MODULE NameTrie ------------------------------
(***************************************************************************)
(* The byte trie of src/src/schema/trie.rs: a sequence of nodes, the node  *)
(* of id n at index n + 1, each with its edges, a function from bytes to   *)
(* ids, and whether a name ends there.  Node 0 is the root.                *)
(***************************************************************************)
EXTENDS Pda

Root   == 0
Leaf   == [next |-> <<>>, terminal |-> FALSE]

Node(trie, id)           == trie[id + 1]
HasChild(trie, id, byte) == byte \in DOMAIN Node(trie, id).next
Child(trie, id, byte)    == Node(trie, id).next[byte]

WithEdge(node, byte, id) ==
    [node EXCEPT !.next =
       [b \in DOMAIN node.next \cup {byte} |-> IF b = byte THEN id ELSE node.next[b]]]

\* insert, for one byte: an edge is followed, or made to a new last node.
Descend(place, byte) ==
    LET trie == place.trie
        node == place.node
    IN  IF HasChild(trie, node, byte)
        THEN [place EXCEPT !.node = Child(trie, node, byte)]
        ELSE [trie |-> Append([trie EXCEPT ![node + 1] = WithEdge(@, byte, Len(trie))], Leaf),
              node |-> Len(trie)]

\* The place the bytes of a name lead to.
Descended(trie, name) ==
    LET place[n \in 0 .. Len(name)] ==
          IF n = 0 THEN [trie |-> trie, node |-> Root]
          ELSE Descend(place[n - 1], name[n])
    IN  place[Len(name)]

\* Faulty: the inner node a short name ends in is not marked.
InsertMarksLeafOnly(trie, name) ==
    LET place == Descended(trie, name)
    IN  [place.trie EXCEPT ![place.node + 1].terminal =
           Node(place.trie, place.node).next = <<>>]

Insert(trie, name) ==
    LET place == Descended(trie, name)
    IN  [place.trie EXCEPT ![place.node + 1].terminal = TRUE]

FromNames(names) ==
    LET trie[n \in 0 .. Len(names)] ==
          IF n = 0 THEN <<Leaf>> ELSE Insert(trie[n - 1], names[n])
    IN  trie[Len(names)]

(***************************************************************************)
(* walk: an edge is preferred to the end of a name.  With no edge, a name  *)
(* that ends here is complete if the byte cannot belong to it.             *)
(***************************************************************************)
Stay(node)   == [outcome |-> "Stay", node |-> node]
Complete     == [outcome |-> "Complete", node |-> Root]
Diverge      == [outcome |-> "Diverge", node |-> Root]

Walked(trie, at, byte) ==
  CASE at.outcome # "Stay" -> at
    [] at.outcome = "Stay" /\ HasChild(trie, at.node, byte) ->
         Stay(Child(trie, at.node, byte))
    [] OTHER -> IF Node(trie, at.node).terminal /\ byte \notin IdentTail
                THEN Complete ELSE Diverge

Walk(trie, node, bytes) ==
    LET at[n \in 0 .. Len(bytes)] ==
          IF n = 0 THEN Stay(node) ELSE Walked(trie, at[n - 1], bytes[n])
    IN  at[Len(bytes)]
-----------------------------------------------------------------------------
(***************************************************************************)
(* What a walk should find, without a trie.  Of the bytes typed so far,    *)
(* the longest part that begins a name is all of them, or is a name that   *)
(* its next byte ends.                                                     *)
(***************************************************************************)
BeginsName(bytes, names) == \E name \in names : IsPrefix(bytes, name)

Extends(bytes, names) ==
    LET n == Max({0} \cup {k \in 1 .. Len(bytes) : BeginsName(SubSeq(bytes, 1, k), names)})
    IN  \/ n = Len(bytes)
        \/ SubSeq(bytes, 1, n) \in names /\ bytes[n + 1] \notin IdentTail
=============================================================================
