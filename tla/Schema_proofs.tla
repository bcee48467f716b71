---------------------------- MODULE Schema_proofs ----------------------------
(***************************************************************************)
(* What the schema offers, whatever the schema: the trie of any list of    *)
(* names tells exactly the bytes that can still be one of them; the names  *)
(* the narrower collects for a class and the names the scope machine       *)
(* resolves are the same, those of every class inherited from; and a       *)
(* class's own declaration of a name counts before any it inherits.        *)
(***************************************************************************)
EXTENDS NameTrie, SchemaNavigation, Pda_proofs, FiniteSetTheorems

(***************************************************************************)
(* The trie.  Each node stands for the bytes that lead to it: p[i] for the *)
(* node at index i.  `live` are the bytes that lead anywhere, and `ends`   *)
(* those that lead to a node marked as the end of a name.                  *)
(***************************************************************************)
Longer(bytes, b) == Append(bytes, b)

NodeType == [next : UNION {[D -> Nat] : D \in SUBSET Byte}, terminal : BOOLEAN]

Indices(trie) == 1 .. Len(trie)

Spells(trie, p, live, ends) ==
    /\ trie \in Seq(NodeType) /\ 1 \in Indices(trie)
    /\ p \in [Indices(trie) -> live]
    /\ p[1] = <<>> /\ live \subseteq Seq(Byte) /\ ends \subseteq live
    /\ \A w \in Seq(Byte), b \in Byte : Longer(w, b) \in live => w \in live
    /\ \A w \in live : \E i \in Indices(trie) : p[i] = w
    /\ \A i, j \in Indices(trie) : p[i] = p[j] => i = j
    /\ \A i \in Indices(trie) : \A b \in DOMAIN trie[i].next :
         /\ trie[i].next[b] + 1 \in Indices(trie)
         /\ p[trie[i].next[b] + 1] = Longer(p[i], b)
    /\ \A i \in Indices(trie), b \in Byte : Longer(p[i], b) \in live => b \in DOMAIN trie[i].next
    /\ \A i \in Indices(trie) : trie[i].terminal <=> p[i] \in ends

LEMMA LongerInjective ==
  \A s, t \in Seq(Byte), x, y \in Byte : Longer(s, x) = Longer(t, y) => s = t /\ x = y
  BY AppendInjective DEF Longer

LEMMA LongerFacts ==
  \A s \in Seq(Byte), x \in Byte :
    Longer(s, x) \in Seq(Byte) /\ Longer(s, x) # <<>> /\ Longer(s, x) # s
  BY DEF Longer

LEMMA LeafTyped == Leaf \in NodeType
<1> DEFINE none == <<>>
<1>1. none \in [{} -> Nat]
  OBVIOUS
<1> HIDE DEF none
<1>2. Leaf = [next |-> none, terminal |-> FALSE]
  BY DEF Leaf, none
<1>3. none \in UNION {[D -> Nat] : D \in SUBSET Byte}
  BY <1>1
<1> QED  BY <1>2, <1>3 DEF NodeType

LEMMA RootSpells ==
  Spells(<<Leaf>>, [i \in 1 .. 1 |-> <<>>], {<<>>}, {})
<1> DEFINE none == <<>>
           root == <<Leaf>>
           p == [i \in 1 .. 1 |-> none]
<1>1. Leaf.next = none /\ Leaf.terminal = FALSE /\ none \in Seq(Byte) /\ DOMAIN none = {}
  BY DEF Leaf
<1>3. \A w \in Seq(Byte), b \in Byte : Longer(w, b) # none
  BY LongerFacts
<1> HIDE DEF none
<1>7. root \in Seq(NodeType) /\ Indices(root) = {1} /\ root[1] = Leaf
  BY LeafTyped DEF Indices
<1> HIDE DEF root
<1>8. p \in [{1} -> {none}] /\ p[1] = none
  OBVIOUS
<1> HIDE DEF p
<1>9. Spells(root, p, {none}, {})
  <2>1. \A i \in {1}, b \in Byte : Longer(p[i], b) \notin {none}
    BY <1>1, <1>3, <1>8
  <2>2. \A i \in {1} : \A b \in DOMAIN root[i].next : FALSE
    BY <1>1, <1>7
  <2>3. \A w \in {none} : \E i \in {1} : p[i] = w
    BY <1>8
  <2>4. \A i \in {1} : root[i].terminal <=> p[i] \in {}
    BY <1>1, <1>7
  <2>5. none = <<>>
    BY DEF none
  <2> QED  BY <1>1, <1>3, <1>7, <1>8, <2>1, <2>2, <2>3, <2>4, <2>5 DEF Spells
<1> QED  BY <1>9 DEF root, p, none

\* A new last node, under an edge its parent did not have.
Grows(trie, more, i, b) ==
    /\ i \in Indices(trie) /\ b \in Byte /\ b \notin DOMAIN trie[i].next
    /\ more \in Seq(NodeType) /\ Len(more) = Len(trie) + 1
    /\ more[i].terminal = trie[i].terminal
    /\ DOMAIN more[i].next = DOMAIN trie[i].next \cup {b}
    /\ more[i].next[b] = Len(trie)
    /\ \A c \in DOMAIN trie[i].next : more[i].next[c] = trie[i].next[c]
    /\ \A j \in Indices(trie) \ {i} : more[j] = trie[j]
    /\ more[Len(trie) + 1] = Leaf

GrownSpells(more, live, ends, w) ==
    \E q : Spells(more, q, live \cup {w}, ends) /\ q[Len(more)] = w

LEMMA LeafSpells ==
  ASSUME NEW trie, NEW p, NEW live, NEW ends, Spells(trie, p, live, ends),
         NEW i, NEW b, NEW more, Grows(trie, more, i, b)
  PROVE  GrownSpells(more, live, ends, Longer(p[i], b))
<1> DEFINE n   == Len(trie)
           new == Longer(p[i], b)
           q   == [j \in 1 .. n + 1 |-> IF j = n + 1 THEN new ELSE p[j]]
           all == live \cup {new}
<1>1. /\ n \in Nat /\ Indices(trie) = 1 .. n /\ Indices(more) = 1 .. n + 1
      /\ 1 \in 1 .. n /\ n + 1 \notin 1 .. n
  BY DEF Spells, Indices, Grows
<1>0. Spells(trie, p, live, ends)
  OBVIOUS
<1>g. /\ i \in Indices(trie) /\ b \in Byte /\ b \notin DOMAIN trie[i].next
      /\ more \in Seq(NodeType) /\ Len(more) = n + 1
      /\ more[i].terminal = trie[i].terminal
      /\ DOMAIN more[i].next = DOMAIN trie[i].next \cup {b}
      /\ more[i].next[b] = n
      /\ \A c \in DOMAIN trie[i].next : more[i].next[c] = trie[i].next[c]
      /\ \A j \in (1 .. n) \ {i} : more[j] = trie[j]
      /\ more[n + 1] = Leaf
  BY DEF Grows, Indices
<1> HIDE DEF n
<1>2. /\ p \in [1 .. n -> live] /\ live \subseteq Seq(Byte) /\ p[1] = <<>> /\ ends \subseteq live
      /\ \A w \in Seq(Byte), c \in Byte : Longer(w, c) \in live => w \in live
      /\ \A w \in live : \E j \in 1 .. n : p[j] = w
      /\ \A j, k \in 1 .. n : p[j] = p[k] => j = k
  <2>1. p \in [1 .. n -> live] /\ live \subseteq Seq(Byte) /\ p[1] = <<>> /\ ends \subseteq live
    BY <1>0, <1>1 DEF Spells
  <2>2. \A w \in Seq(Byte), c \in Byte : Longer(w, c) \in live => w \in live
    BY <1>0 DEF Spells
  <2>3. \A w \in live : \E j \in 1 .. n : p[j] = w
    BY <1>0, <1>1 DEF Spells
  <2>4. \A j, k \in 1 .. n : p[j] = p[k] => j = k
    BY <1>0, <1>1 DEF Spells
  <2> QED  BY <2>1, <2>2, <2>3, <2>4
<1>3. /\ \A j \in 1 .. n : \A c \in DOMAIN trie[j].next :
           trie[j].next[c] + 1 \in 1 .. n /\ p[trie[j].next[c] + 1] = Longer(p[j], c)
      /\ \A j \in 1 .. n, c \in Byte : Longer(p[j], c) \in live => c \in DOMAIN trie[j].next
      /\ \A j \in 1 .. n : trie[j].terminal <=> p[j] \in ends
  <2>1. \A j \in 1 .. n : \A c \in DOMAIN trie[j].next :
          trie[j].next[c] + 1 \in 1 .. n /\ p[trie[j].next[c] + 1] = Longer(p[j], c)
    <3>1. \A j \in Indices(trie) : \A c \in DOMAIN trie[j].next :
            trie[j].next[c] + 1 \in Indices(trie) /\ p[trie[j].next[c] + 1] = Longer(p[j], c)
      BY <1>0, Zenon DEF Spells
    <3> QED  BY <1>1, <3>1, Zenon
  <2>2. \A j \in 1 .. n, c \in Byte : Longer(p[j], c) \in live => c \in DOMAIN trie[j].next
    BY <1>0, <1>1 DEF Spells
  <2>3. \A j \in 1 .. n : trie[j].terminal <=> p[j] \in ends
    <3>1. \A j \in Indices(trie) : trie[j].terminal <=> p[j] \in ends
      BY <1>0, Zenon DEF Spells
    <3> QED  BY <1>1, <3>1, Zenon
  <2> QED  BY <2>1, <2>2, <2>3
<1>4. i \in 1 .. n /\ p[i] \in Seq(Byte) /\ new \in Seq(Byte) /\ new \notin live
  BY <1>g, <1>1, <1>2, <1>3, LongerFacts
<1>5. /\ q \in [1 .. n + 1 -> all] /\ q[n + 1] = new
      /\ \A j \in 1 .. n : q[j] = p[j] /\ q[j] \in live
      /\ \A j \in 1 .. n + 1 : j \in 1 .. n \/ j = n + 1
      /\ \A j \in 1 .. n : j \in 1 .. n + 1
  BY <1>1, <1>2
<1>6. Leaf.next = <<>> /\ DOMAIN Leaf.next = {} /\ Leaf.terminal = FALSE
  BY DEF Leaf
<1>7. \A c \in Byte, j \in 1 .. n : Longer(p[j], c) = new => j = i /\ c = b
  <2>1. \A j \in 1 .. n : p[j] \in Seq(Byte)
    BY <1>2
  <2>2. \A c \in Byte, j \in 1 .. n : Longer(p[j], c) = new => p[j] = p[i] /\ c = b
    BY <1>g, <1>4, <2>1, LongerInjective
  <2> QED  BY <1>2, <1>4, <2>2
<1> HIDE DEF new, q
<1>8. ASSUME NEW j \in 1 .. n + 1, NEW c \in DOMAIN more[j].next
      PROVE  more[j].next[c] + 1 \in 1 .. n + 1 /\ q[more[j].next[c] + 1] = Longer(q[j], c)
  <2>1. CASE j = n + 1
    BY <1>g, <1>6, <1>8, <2>1 DEF n
  <2>2. CASE j # i /\ j \in 1 .. n
    <3>1. more[j] = trie[j]
      BY <1>g, <1>1, <2>2
    <3>2. trie[j].next[c] + 1 \in 1 .. n /\ p[trie[j].next[c] + 1] = Longer(p[j], c)
      BY <1>3, <1>8, <2>2, <3>1
    <3> QED  BY <1>5, <2>2, <3>1, <3>2
  <2>3. CASE j = i /\ c # b
    <3>1. c \in DOMAIN trie[i].next /\ more[i].next[c] = trie[i].next[c]
      BY <1>g, <1>8, <2>3
    <3>2. trie[i].next[c] + 1 \in 1 .. n /\ p[trie[i].next[c] + 1] = Longer(p[i], c)
      BY <1>3, <1>4, <3>1
    <3> QED  BY <1>4, <1>5, <2>3, <3>1, <3>2
  <2>4. CASE j = i /\ c = b
    <3>1. more[i].next[b] = n
      BY <1>g
    <3>2. q[n + 1] = Longer(p[i], b) /\ q[i] = p[i]
      BY <1>4, <1>5 DEF new
    <3> QED  BY <1>1, <2>4, <3>1, <3>2
  <2> QED  BY <1>5, <2>1, <2>2, <2>3, <2>4
<1>9. ASSUME NEW j \in 1 .. n + 1, NEW c \in Byte, Longer(q[j], c) \in all
      PROVE  c \in DOMAIN more[j].next
  <2>1. CASE j = n + 1
    <3>1. Longer(new, c) \notin live /\ Longer(new, c) # new
      BY <1>2, <1>4, LongerFacts
    <3> QED  BY <1>5, <1>9, <2>1, <3>1
  <2>2. CASE j \in 1 .. n
    <3>1. Longer(p[j], c) = new => j = i /\ c = b
      BY <1>7, <2>2
    <3>2. Longer(p[j], c) \in live => c \in DOMAIN trie[j].next
      BY <1>3, <2>2
    <3>3. DOMAIN trie[j].next \subseteq DOMAIN more[j].next
      BY <1>g, <1>1, <2>2
    <3>4. b \in DOMAIN more[i].next
      BY <1>g
    <3> QED  BY <1>5, <1>9, <2>2, <3>1, <3>2, <3>3, <3>4
  <2> QED  BY <1>5, <2>1, <2>2
<1>10. ASSUME NEW j \in 1 .. n + 1 PROVE more[j].terminal <=> q[j] \in ends
  <2>1. CASE j = n + 1
    BY <1>g, <1>2, <1>4, <1>5, <1>6, <2>1 DEF n
  <2>2. CASE j \in 1 .. n
    <3>1. more[j].terminal = trie[j].terminal
      BY <1>g, <1>1, <2>2
    <3> QED  BY <1>3, <1>5, <2>2, <3>1
  <2> QED  BY <1>5, <2>1, <2>2
<1>11. ASSUME NEW j \in 1 .. n + 1, NEW k \in 1 .. n + 1, q[j] = q[k] PROVE j = k
  BY <1>2, <1>4, <1>5, <1>11
<1>12. \A w \in all : \E j \in 1 .. n + 1 : q[j] = w
  <2> SUFFICES ASSUME NEW w \in all PROVE \E j \in 1 .. n + 1 : q[j] = w
    OBVIOUS
  <2>1. CASE w = new
    BY <1>1, <1>5, <2>1
  <2>2. CASE w \in live
    <3>1. PICK j \in 1 .. n : p[j] = w
      BY <1>2, <2>2
    <3> QED  BY <1>5, <3>1
  <2> QED  BY <2>1, <2>2
<1>13. \A w \in Seq(Byte), c \in Byte : Longer(w, c) \in all => w \in all
  <2> SUFFICES ASSUME NEW w \in Seq(Byte), NEW c \in Byte, Longer(w, c) = new PROVE w \in live
    BY <1>2
  <2>1. w = p[i]
    BY <1>g, <1>4, LongerInjective DEF new
  <2> QED  BY <1>2, <1>4, <2>1
<1>14. 1 \in 1 .. n + 1 /\ q[1] = <<>> /\ all \subseteq Seq(Byte) /\ ends \subseteq all
  BY <1>1, <1>2, <1>4, <1>5
<1>15. Spells(more, q, all, ends)
  <2>1. more \in Seq(NodeType) /\ 1 \in Indices(more) /\ q \in [Indices(more) -> all]
        /\ q[1] = <<>> /\ all \subseteq Seq(Byte) /\ ends \subseteq all
    BY <1>g, <1>1, <1>5, <1>14
  <2>2. \A w \in all : \E j \in Indices(more) : q[j] = w
    BY <1>1, <1>12
  <2>3. \A j, k \in Indices(more) : q[j] = q[k] => j = k
    BY <1>1, <1>11
  <2>4. \A j \in Indices(more) : \A c \in DOMAIN more[j].next :
          more[j].next[c] + 1 \in Indices(more) /\ q[more[j].next[c] + 1] = Longer(q[j], c)
    BY <1>1, <1>8
  <2>5. \A j \in Indices(more), c \in Byte : Longer(q[j], c) \in all => c \in DOMAIN more[j].next
    BY <1>1, <1>9
  <2>6. \A j \in Indices(more) : more[j].terminal <=> q[j] \in ends
    BY <1>1, <1>10
  <2> HIDE DEF all
  <2> QED  BY <1>13, <2>1, <2>2, <2>3, <2>4, <2>5, <2>6 DEF Spells, all
<1>16. q[Len(more)] = new
  BY <1>g, <1>5
<1> HIDE DEF all
<1>17. \E r : Spells(more, r, all, ends) /\ r[Len(more)] = new
  BY <1>15, <1>16
<1> QED  BY <1>17 DEF new, all, GrownSpells

\* A place in a trie: a node, and the bytes that lead to it.
Leads(place, p, live, ends, w) ==
    /\ place \in [trie : Seq(NodeType), node : Nat]
    /\ Spells(place.trie, p, live, ends)
    /\ place.node + 1 \in Indices(place.trie)
    /\ p[place.node + 1] = w

LEMMA NodeFields ==
  ASSUME NEW node \in NodeType
  PROVE  /\ DOMAIN node.next \subseteq Byte /\ node.next \in [DOMAIN node.next -> Nat]
         /\ node = [next |-> node.next, terminal |-> node.terminal]
         /\ node.terminal \in BOOLEAN
<1>1. PICK D \in SUBSET Byte : node.next \in [D -> Nat]
  BY DEF NodeType
<1> QED  BY <1>1 DEF NodeType

\* A node with one more edge.
LEMMA EdgeAdded ==
  ASSUME NEW node \in NodeType, NEW b \in Byte, NEW n \in Nat, b \notin DOMAIN node.next
  PROVE  /\ WithEdge(node, b, n) \in NodeType
         /\ WithEdge(node, b, n).terminal = node.terminal
         /\ DOMAIN WithEdge(node, b, n).next = DOMAIN node.next \cup {b}
         /\ WithEdge(node, b, n).next[b] = n
         /\ \A c \in DOMAIN node.next : WithEdge(node, b, n).next[c] = node.next[c]
<1> DEFINE D == DOMAIN node.next
           E == D \cup {b}
           next == [c \in E |-> IF c = b THEN n ELSE node.next[c]]
           more == [node EXCEPT !.next = next]
<1>1. D \subseteq Byte /\ node.next \in [D -> Nat]
      /\ node = [next |-> node.next, terminal |-> node.terminal] /\ node.terminal \in BOOLEAN
  BY NodeFields
<1>3. next \in [E -> Nat] /\ E \subseteq Byte /\ DOMAIN next = E /\ next[b] = n
      /\ \A c \in D : next[c] = node.next[c]
  BY <1>1
<1>8. WithEdge(node, b, n) = more
  BY Zenon DEF WithEdge
<1> HIDE DEF next
<1>4. more = [next |-> next, terminal |-> node.terminal]
  BY <1>1
<1>5. next \in UNION {[G -> Nat] : G \in SUBSET Byte}
  BY <1>3
<1> HIDE DEF E, D
<1>6. more \in NodeType
  BY <1>1, <1>4, <1>5 DEF NodeType
<1>7. more.next = next /\ more.terminal = node.terminal
  BY <1>4
<1> HIDE DEF more
<1> QED  BY <1>3, <1>6, <1>7, <1>8 DEF D, E

LEMMA DescendLeads ==
  ASSUME NEW place, NEW p, NEW live, NEW ends, NEW w, Leads(place, p, live, ends, w),
         NEW b \in Byte
  PROVE  \E q : Leads(Descend(place, b), q, live \cup {Longer(w, b)}, ends, Longer(w, b))
<1> DEFINE trie == place.trie
           i == place.node + 1
           node == trie[i]
           all == live \cup {Longer(w, b)}
<1>1. /\ place \in [trie : Seq(NodeType), node : Nat] /\ Spells(trie, p, live, ends)
      /\ i \in Indices(trie) /\ place.node \in Nat /\ p[i] = w
  BY DEF Leads
<1>2. trie \in Seq(NodeType) /\ p \in [Indices(trie) -> live]
      /\ \A c \in DOMAIN trie[i].next :
           trie[i].next[c] + 1 \in Indices(trie) /\ p[trie[i].next[c] + 1] = Longer(p[i], c)
  BY <1>1, Zenon DEF Spells
<1>3. /\ Len(trie) \in Nat /\ Indices(trie) = 1 .. Len(trie) /\ node \in NodeType
      /\ i = place.node + 1
  BY <1>1, <1>2 DEF Indices
<1>4. CASE HasChild(trie, place.node, b)
  <2> DEFINE to == node.next[b]
             d == [place EXCEPT !.node = to]
  <2>1. b \in DOMAIN node.next
    BY <1>4 DEF HasChild, Node
  <2>2. to + 1 \in Indices(trie) /\ p[to + 1] = Longer(w, b) /\ to \in Nat
    <3>1. node.next \in [DOMAIN node.next -> Nat]
      BY <1>3, NodeFields
    <3> QED  BY <1>1, <1>2, <2>1, <3>1
  <2>3. Longer(w, b) \in live
    <3> HIDE DEF to
    <3> QED  BY <1>2, <2>2
  <2>4. all = live
    BY <2>3
  <2>5. Descend(place, b) = d
    BY <1>4 DEF Descend, HasChild, Child, Node
  <2> HIDE DEF to, trie
  <2>6. d \in [trie : Seq(NodeType), node : Nat] /\ d.trie = trie /\ d.node = to
    BY <1>1, <2>2 DEF trie
  <2>7. Leads(d, p, all, ends, Longer(w, b))
    BY <1>1, <2>2, <2>4, <2>6 DEF Leads
  <2> QED  BY <2>5, <2>7
<1>5. CASE ~HasChild(trie, place.node, b)
  <2> DEFINE n == Len(trie)
             edged == WithEdge(node, b, n)
             grown == [trie EXCEPT ![i] = edged]
             more == Append(grown, Leaf)
  <2>1. b \notin DOMAIN node.next
    BY <1>5 DEF HasChild, Node
  <2>2. /\ edged \in NodeType
        /\ edged.terminal = node.terminal
        /\ DOMAIN edged.next = DOMAIN node.next \cup {b}
        /\ edged.next[b] = n
        /\ \A c \in DOMAIN node.next : edged.next[c] = node.next[c]
    <3>1. n \in Nat
      BY <1>3
    <3> HIDE DEF node, n
    <3> QED  BY <1>3, <2>1, <3>1, EdgeAdded
  <2>3. Descend(place, b) = [trie |-> more, node |-> n]
    BY <1>5 DEF Descend, HasChild, Node
  <2>4. grown = [trie EXCEPT ![i] = edged]
    OBVIOUS
  <2> HIDE DEF edged, trie
  <2>5. grown \in Seq(NodeType) /\ Len(grown) = n /\ grown[i] = edged
        /\ \A j \in (1 .. n) \ {i} : grown[j] = trie[j]
    <3> HIDE DEF i, grown, node
    <3> QED  BY <1>1, <1>2, <1>3, <2>2, <2>4
  <2>6. Leaf \in NodeType
    BY LeafTyped
  <2> HIDE DEF grown
  <2>7. /\ more \in Seq(NodeType) /\ Len(more) = n + 1 /\ more[n + 1] = Leaf
        /\ \A j \in 1 .. n : more[j] = grown[j]
    BY <1>3, <2>5, <2>6
  <2> HIDE DEF more
  <2>8. more[i] = edged /\ \A j \in Indices(trie) \ {i} : more[j] = trie[j]
    <3>1. \A j \in 1 .. n : more[j] = grown[j]
      BY <2>7
    <3>2. i \in 1 .. n /\ Indices(trie) = 1 .. n
      BY <1>1, <1>3
    <3> HIDE DEF i, n
    <3> QED  BY <2>5, <3>1, <3>2
  <2>9. PICK q : Spells(more, q, live \cup {Longer(p[i], b)}, ends) /\ q[n + 1] = Longer(p[i], b)
    <3>1. b \notin DOMAIN trie[i].next /\ Len(more) = Len(trie) + 1
      BY <2>1, <2>7
    <3>2. /\ more[i].terminal = trie[i].terminal
          /\ DOMAIN more[i].next = DOMAIN trie[i].next \cup {b}
          /\ more[i].next[b] = Len(trie)
          /\ \A c \in DOMAIN trie[i].next : more[i].next[c] = trie[i].next[c]
          /\ more[Len(trie) + 1] = Leaf
      BY <2>2, <2>7, <2>8
    <3> HIDE DEF i, node, n
    <3>3. Grows(trie, more, i, b)
      BY <1>1, <2>7, <2>8, <3>1, <3>2 DEF Grows
    <3>4. GrownSpells(more, live, ends, Longer(p[i], b))
      BY <1>1, <3>3, LeafSpells
    <3>5. Len(more) = n + 1
      BY <2>7
    <3> QED  BY <3>4, <3>5 DEF GrownSpells
  <2>10. Leads([trie |-> more, node |-> n], q, all, ends, Longer(w, b))
    <3>1. n \in Nat /\ n + 1 \in Indices(more)
      BY <1>3, <2>7 DEF Indices
    <3>2. Spells(more, q, all, ends) /\ q[n + 1] = Longer(w, b) /\ more \in Seq(NodeType)
      BY <1>1, <2>7, <2>9
    <3> HIDE DEF n, all
    <3> QED  BY <3>1, <3>2 DEF Leads
  <2> QED  BY <2>3, <2>10
<1> QED  BY <1>4, <1>5

\* The bytes on the way to a name, and whether they lead to a place.
Starts(name, n) == {SubSeq(name, 1, k) : k \in 0 .. n}

LeadsTo(place, live, ends, w) == \E p : Leads(place, p, live, ends, w)

LEMMA BegunFacts ==
  ASSUME NEW name \in Seq(Byte)
  PROVE  /\ Starts(name, 0) = {<<>>} /\ SubSeq(name, 1, 0) = <<>>
         /\ SubSeq(name, 1, Len(name)) = name
         /\ \A n \in 1 .. Len(name) :
              /\ Longer(SubSeq(name, 1, n - 1), name[n]) = SubSeq(name, 1, n)
              /\ Starts(name, n) = Starts(name, n - 1) \cup {SubSeq(name, 1, n)}
<1>1. SubSeq(name, 1, 0) = <<>> /\ SubSeq(name, 1, Len(name)) = name
  OBVIOUS
<1>2. Starts(name, 0) = {SubSeq(name, 1, 0)}
  BY DEF Starts
<1>3. ASSUME NEW n \in 1 .. Len(name)
      PROVE  /\ Longer(SubSeq(name, 1, n - 1), name[n]) = SubSeq(name, 1, n)
             /\ Starts(name, n) = Starts(name, n - 1) \cup {SubSeq(name, 1, n)}
  <2>1. Longer(SubSeq(name, 1, n - 1), name[n]) = SubSeq(name, 1, n)
    BY DEF Longer
  <2>2. \A k : k \in 0 .. n <=> k \in 0 .. n - 1 \/ k = n
    OBVIOUS
  <2>3. Starts(name, n) = Starts(name, n - 1) \cup {SubSeq(name, 1, n)}
    BY <2>2 DEF Starts
  <2> QED  BY <2>1, <2>3
<1> QED  BY <1>1, <1>2, <1>3

LEMMA DescendLeadsTo ==
  ASSUME NEW place, NEW live, NEW ends, NEW w, LeadsTo(place, live, ends, w), NEW b \in Byte
  PROVE  LeadsTo(Descend(place, b), live \cup {Longer(w, b)}, ends, Longer(w, b))
  BY DescendLeads DEF LeadsTo

LEMMA DescendedLeads ==
  ASSUME NEW trie, NEW p, NEW live, NEW ends, Spells(trie, p, live, ends),
         NEW name \in Seq(Byte)
  PROVE  LeadsTo(Descended(trie, name), live \cup Starts(name, Len(name)), ends, name)
<1> DEFINE Place == {place \in [trie : Seq(NodeType), node : Nat] :
                       \E l, e, w : LeadsTo(place, l, e, w)}
           F == [place \in Place |-> [b \in Byte |-> Descend(place, b)]]
           start == [trie |-> trie, node |-> Root]
           N == Len(name)
<1>1. LeadsTo(start, live \cup Starts(name, 0), ends, SubSeq(name, 1, 0))
  <2>1. trie \in Seq(NodeType) /\ p[1] = <<>> /\ <<>> \in live /\ 1 \in Indices(trie)
    BY DEF Spells
  <2>2. live \cup Starts(name, 0) = live
    BY <2>1, BegunFacts
  <2>3. Leads(start, p, live, ends, <<>>)
    BY <2>1 DEF Leads, Root
  <2> QED  BY <2>2, <2>3, BegunFacts DEF LeadsTo
<1>2. \A place, l, e, w : LeadsTo(place, l, e, w) => place \in Place
  BY DEF LeadsTo, Leads
<1>3. F \in StepFunction(Place, Byte) /\ start \in Place
  <2>1. ASSUME NEW place \in Place, NEW b \in Byte PROVE Descend(place, b) \in Place
    <3>1. PICK l, e, w : LeadsTo(place, l, e, w)
      OBVIOUS
    <3> HIDE DEF Place
    <3> QED  BY <1>2, <3>1, DescendLeadsTo
  <2>2. start \in Place
    <3> HIDE DEF Place
    <3> QED  BY <1>1, <1>2
  <2> HIDE DEF Place
  <2> QED  BY <2>1, <2>2 DEF StepFunction
<1> HIDE DEF Place
<1>4. PICK g : IsTrace(g, Place, F, start, name)
  <2> HIDE DEF F, start
  <2> QED BY <1>3, TraceExists
<1>5. g \in [0 .. N -> Place] /\ g[0] = start
  BY <1>4 DEF IsTrace
<1>6. ASSUME NEW n \in 1 .. N
      PROVE  g[n] = Descend(g[n - 1], name[n]) /\ name[n] \in Byte
  <2>1. g[n] = F[g[n - 1]][name[n]] /\ g[n - 1] \in Place /\ name[n] \in Byte
    <3> HIDE DEF F
    <3> QED  BY <1>4, <1>5 DEF IsTrace
  <2> QED BY <2>1
<1>7. Descended(trie, name) = g[N]
  <2> DEFINE Run(h) == h = [n \in 0 .. N |-> IF n = 0 THEN start ELSE Descend(h[n - 1], name[n])]
             after == CHOOSE h : Run(h)
             Same == {n \in 0 .. N : after[n] = g[n]}
  <2> HIDE DEF start, F
  <2>1. N \in Nat /\ \A n \in 1 .. N : n \in 0 .. N /\ n - 1 \in 0 .. N /\ n # 0
    OBVIOUS
  <2>2. Run([n \in 0 .. N |-> g[n]])
    BY <1>5, <1>6, <2>1
  <2>3. Run(after)
    BY <2>2
  <2>6. Descended(trie, name) = after[N]
    BY DEF Descended, start
  <2> HIDE DEF after, N
  <2>4. 0 \in Same
    BY <1>5, <2>1, <2>3
  <2>5. ASSUME NEW n \in 1 .. N, n - 1 \in Same PROVE n \in Same
    <3>1. after[n] = Descend(after[n - 1], name[n])
      BY <2>1, <2>3
    <3> QED  BY <1>6, <2>1, <2>5, <3>1
  <2>7. 0 .. N \subseteq Same
    <3> HIDE DEF Same
    <3> QED  BY <2>1, <2>4, <2>5, InductionUpTo
  <2> QED  BY <2>1, <2>6, <2>7
<1> DEFINE Good == {n \in 0 .. N : LeadsTo(g[n], live \cup Starts(name, n), ends, SubSeq(name, 1, n))}
<1>8. 0 .. N \subseteq Good
  <2>1. 0 \in Good
    BY <1>1, <1>5
  <2>2. ASSUME NEW n \in 1 .. N, n - 1 \in Good PROVE n \in Good
    <3>1. LeadsTo(g[n - 1], live \cup Starts(name, n - 1), ends, SubSeq(name, 1, n - 1))
      BY <2>2
    <3>2. /\ Longer(SubSeq(name, 1, n - 1), name[n]) = SubSeq(name, 1, n)
          /\ (live \cup Starts(name, n - 1)) \cup {SubSeq(name, 1, n)} = live \cup Starts(name, n)
      BY BegunFacts
    <3>3. LeadsTo(Descend(g[n - 1], name[n]),
                  (live \cup Starts(name, n - 1)) \cup {Longer(SubSeq(name, 1, n - 1), name[n])}, ends,
                  Longer(SubSeq(name, 1, n - 1), name[n]))
      BY <1>6, <3>1, DescendLeadsTo, Zenon
    <3>4. LeadsTo(g[n], live \cup Starts(name, n), ends, SubSeq(name, 1, n))
      <4> HIDE DEF Good, N
      <4>1. g[n] = Descend(g[n - 1], name[n])
        BY <1>6
      <4> QED  BY <3>2, <3>3, <4>1, Zenon
    <3>5. n \in 0 .. N
      OBVIOUS
    <3> HIDE DEF N
    <3> QED  BY <3>4, <3>5
  <2>3. N \in Nat
    OBVIOUS
  <2> HIDE DEF Good, N
  <2> QED  BY <2>1, <2>2, <2>3, InductionUpTo
<1>9. N \in 0 .. N
  OBVIOUS
<1> QED  BY <1>7, <1>8, <1>9, BegunFacts

\* Some p makes it so.
Holds(trie, live, ends) == \E p : Spells(trie, p, live, ends)

\* The end of a name is marked at the place it leads to, and nowhere else.
LEMMA MarkSpells ==
  ASSUME NEW place, NEW p, NEW live, NEW ends, NEW w, Leads(place, p, live, ends, w)
  PROVE  Holds([place.trie EXCEPT ![place.node + 1].terminal = TRUE], live, ends \cup {w})
<1> DEFINE trie == place.trie
           i == place.node + 1
           marked == [trie[i] EXCEPT !.terminal = TRUE]
           more == [trie EXCEPT ![i] = marked]
           named == ends \cup {w}
<1>1. /\ Spells(trie, p, live, ends) /\ i \in Indices(trie) /\ p[i] = w
  BY DEF Leads
<1>2. [place.trie EXCEPT ![place.node + 1].terminal = TRUE] = more
  OBVIOUS
<1>3. /\ trie \in Seq(NodeType) /\ 1 \in Indices(trie)
      /\ p \in [Indices(trie) -> live]
      /\ p[1] = <<>> /\ live \subseteq Seq(Byte) /\ ends \subseteq live
  BY <1>1, Zenon DEF Spells
<1>4. /\ \A v \in Seq(Byte), b \in Byte : Longer(v, b) \in live => v \in live
      /\ \A v \in live : \E j \in Indices(trie) : p[j] = v
      /\ \A j, k \in Indices(trie) : p[j] = p[k] => j = k
  BY <1>1, Zenon DEF Spells
<1>5. /\ \A j \in Indices(trie) : \A b \in DOMAIN trie[j].next :
           trie[j].next[b] + 1 \in Indices(trie) /\ p[trie[j].next[b] + 1] = Longer(p[j], b)
      /\ \A j \in Indices(trie), b \in Byte : Longer(p[j], b) \in live => b \in DOMAIN trie[j].next
      /\ \A j \in Indices(trie) : trie[j].terminal <=> p[j] \in ends
  BY <1>1, Zenon DEF Spells
<1>6. trie[i] \in NodeType /\ DOMAIN trie = Indices(trie)
  BY <1>1, <1>3 DEF Indices
<1>7. marked \in NodeType /\ marked.terminal = TRUE /\ marked.next = trie[i].next
  <2> DEFINE node == trie[i]
             Edges == UNION {[D -> Nat] : D \in SUBSET Byte}
  <2> HIDE DEF node, Edges
  <2>1. node \in [next : Edges, terminal : BOOLEAN]
    BY <1>6 DEF NodeType, node, Edges
  <2>2. marked = [node EXCEPT !.terminal = TRUE]
    BY DEF node
  <2> HIDE DEF marked
  <2>3. marked \in [next : Edges, terminal : BOOLEAN]
        /\ marked.terminal = TRUE /\ marked.next = node.next
    BY <2>1, <2>2
  <2> QED  BY <2>3 DEF node, NodeType, Edges
<1> HIDE DEF marked, trie, i
<1>8. /\ more \in Seq(NodeType) /\ Indices(more) = Indices(trie) /\ more[i] = marked
      /\ \A j \in Indices(trie) : j # i => more[j] = trie[j]
  BY <1>1, <1>3, <1>7 DEF Indices
<1> HIDE DEF more
<1>9. \A j \in Indices(trie) : more[j].next = trie[j].next
  BY <1>7, <1>8
<1>10. \A j \in Indices(trie) : more[j].terminal <=> p[j] \in named
  <2> SUFFICES ASSUME NEW j \in Indices(trie) PROVE more[j].terminal <=> p[j] \in named
    OBVIOUS
  <2>1. CASE j = i
    BY <1>1, <1>7, <1>8, <2>1
  <2>2. CASE j # i
    <3>1. p[j] # w
      BY <1>1, <1>4, <2>2
    <3>2. more[j] = trie[j] /\ (trie[j].terminal <=> p[j] \in ends)
      BY <1>5, <1>8, <2>2
    <3> QED  BY <3>1, <3>2
  <2> QED  BY <2>1, <2>2
<1>11. named \subseteq live
  BY <1>1, <1>3
<1> HIDE DEF named
<1>12. Spells(more, p, live, named)
  <2>1. /\ \A j \in Indices(trie) : \A b \in DOMAIN more[j].next :
             more[j].next[b] + 1 \in Indices(trie) /\ p[more[j].next[b] + 1] = Longer(p[j], b)
        /\ \A j \in Indices(trie), b \in Byte : Longer(p[j], b) \in live => b \in DOMAIN more[j].next
    BY <1>5, <1>9
  <2> QED  BY <1>3, <1>4, <1>8, <1>10, <1>11, <2>1, Zenon DEF Spells
<1> QED  BY <1>2, <1>12 DEF Holds, named

LEMMA InsertHolds ==
  ASSUME NEW trie, NEW live, NEW ends, Holds(trie, live, ends), NEW name \in Seq(Byte)
  PROVE  Holds(Insert(trie, name), live \cup Starts(name, Len(name)), ends \cup {name})
<1>1. PICK p : Spells(trie, p, live, ends)
  BY DEF Holds
<1> DEFINE place == Descended(trie, name)
           all == live \cup Starts(name, Len(name))
<1>2. LeadsTo(place, all, ends, name)
  BY <1>1, DescendedLeads, Zenon
<1>3. Insert(trie, name) = [place.trie EXCEPT ![place.node + 1].terminal = TRUE]
  BY DEF Insert
<1> HIDE DEF place, all
<1>4. PICK q : Leads(place, q, all, ends, name)
  BY <1>2 DEF LeadsTo
<1>5. Holds([place.trie EXCEPT ![place.node + 1].terminal = TRUE], all, ends \cup {name})
  BY <1>4, MarkSpells, Zenon
<1> QED  BY <1>3, <1>5 DEF all

LiveOf(names, n) == {<<>>} \cup UNION {Starts(names[k], Len(names[k])) : k \in 1 .. n}

EndsOf(names, n) == {names[k] : k \in 1 .. n}

LEMMA FromNamesHolds ==
  ASSUME NEW names \in Seq(Seq(Byte))
  PROVE  Holds(FromNames(names), LiveOf(names, Len(names)), EndsOf(names, Len(names)))
<1> DEFINE Trie == {trie \in Seq(NodeType) : \E l, e : Holds(trie, l, e)}
           F == [trie \in Trie |-> [name \in Seq(Byte) |-> Insert(trie, name)]]
           start == <<Leaf>>
           N == Len(names)
<1>0. N \in Nat /\ \A n \in 1 .. N : names[n] \in Seq(Byte) /\ n \in 0 .. N /\ n - 1 \in 0 .. N /\ n # 0
  OBVIOUS
<1>1. Holds(start, LiveOf(names, 0), EndsOf(names, 0))
  <2>1. 1 .. 0 = {}
    OBVIOUS
  <2>2. LiveOf(names, 0) = {<<>>} /\ EndsOf(names, 0) = {}
    BY <2>1 DEF LiveOf, EndsOf
  <2> QED  BY <2>2, RootSpells DEF Holds
<1>2. \A trie, l, e : Holds(trie, l, e) => trie \in Trie
  <2>1. \A trie, p, l, e : Spells(trie, p, l, e) => trie \in Seq(NodeType)
    BY Zenon DEF Spells
  <2>2. \A trie, l, e : Holds(trie, l, e) => trie \in Seq(NodeType)
    BY <2>1 DEF Holds
  <2> QED  BY <2>2
<1>3. F \in StepFunction(Trie, Seq(Byte)) /\ start \in Trie
  <2>1. ASSUME NEW trie \in Trie, NEW name \in Seq(Byte) PROVE Insert(trie, name) \in Trie
    <3>1. PICK l, e : Holds(trie, l, e)
      OBVIOUS
    <3> HIDE DEF Trie
    <3>2. Holds(Insert(trie, name), l \cup Starts(name, Len(name)), e \cup {name})
      BY <3>1, InsertHolds, Zenon
    <3> QED  BY <1>2, <3>2, Zenon
  <2> HIDE DEF Trie, start
  <2>2. start \in Trie
    BY <1>1, <1>2, Zenon
  <2> QED  BY <2>1, <2>2 DEF StepFunction
<1> HIDE DEF Trie
<1>4. PICK g : IsTrace(g, Trie, F, start, names)
  <2> HIDE DEF F, start
  <2> QED BY <1>3, TraceExists
<1>5. g \in [0 .. N -> Trie] /\ g[0] = start
  BY <1>4 DEF IsTrace
<1>6. ASSUME NEW n \in 1 .. N PROVE g[n] = Insert(g[n - 1], names[n])
  <2>1. g[n] = F[g[n - 1]][names[n]] /\ g[n - 1] \in Trie /\ names[n] \in Seq(Byte)
    <3> HIDE DEF F, start
    <3> QED  BY <1>0, <1>4, <1>5 DEF IsTrace
  <2> QED BY <2>1
<1>7. FromNames(names) = g[N]
  <2> DEFINE Run(h) == h = [n \in 0 .. N |-> IF n = 0 THEN start ELSE Insert(h[n - 1], names[n])]
             after == CHOOSE h : Run(h)
             Same == {n \in 0 .. N : after[n] = g[n]}
  <2>6. FromNames(names) = after[N]
    BY DEF FromNames
  <2> HIDE DEF start, F
  <2>2. Run([n \in 0 .. N |-> g[n]])
    BY <1>0, <1>5, <1>6
  <2>3. Run(after)
    BY <2>2
  <2> HIDE DEF after, N
  <2>4. 0 \in Same
    BY <1>0, <1>5, <2>3
  <2>5. ASSUME NEW n \in 1 .. N, n - 1 \in Same PROVE n \in Same
    <3>1. after[n] = Insert(after[n - 1], names[n])
      BY <1>0, <2>3
    <3> QED  BY <1>0, <1>6, <2>5, <3>1
  <2>7. 0 .. N \subseteq Same
    <3> HIDE DEF Same
    <3> QED  BY <1>0, <2>4, <2>5, InductionUpTo
  <2> QED  BY <1>0, <2>6, <2>7
<1> DEFINE Good == {n \in 0 .. N : Holds(g[n], LiveOf(names, n), EndsOf(names, n))}
<1> HIDE DEF N, start, F
<1>8. 0 .. N \subseteq Good
  <2>1. 0 \in Good
    BY <1>0, <1>1, <1>5
  <2>2. ASSUME NEW n \in 1 .. N, n - 1 \in Good PROVE n \in Good
    <3>1. Holds(g[n - 1], LiveOf(names, n - 1), EndsOf(names, n - 1))
      BY <2>2
    <3>2. Holds(g[n], LiveOf(names, n - 1) \cup Starts(names[n], Len(names[n])),
                EndsOf(names, n - 1) \cup {names[n]})
      <4> HIDE DEF Good
      <4>1. names[n] \in Seq(Byte)
        BY <1>0
      <4>2. Holds(Insert(g[n - 1], names[n]), LiveOf(names, n - 1) \cup Starts(names[n], Len(names[n])),
                  EndsOf(names, n - 1) \cup {names[n]})
        BY <3>1, <4>1, InsertHolds, Zenon
      <4>3. g[n] = Insert(g[n - 1], names[n])
        BY <1>6
      <4> QED  BY <4>2, <4>3
    <3>3. \A k : k \in 1 .. n <=> k \in 1 .. n - 1 \/ k = n
      BY <1>0
    <3>4. EndsOf(names, n) = EndsOf(names, n - 1) \cup {names[n]}
      BY <3>3 DEF EndsOf
    <3>5. LiveOf(names, n) = LiveOf(names, n - 1) \cup Starts(names[n], Len(names[n]))
      <4> DEFINE B(k) == Starts(names[k], Len(names[k]))
      <4> HIDE DEF B
      <4>1. UNION {B(k) : k \in 1 .. n} = (UNION {B(k) : k \in 1 .. n - 1}) \cup B(n)
        <5>1. \A w : w \in UNION {B(k) : k \in 1 .. n} <=> \E k \in 1 .. n : w \in B(k)
          OBVIOUS
        <5>2. \A w : w \in UNION {B(k) : k \in 1 .. n - 1} <=> \E k \in 1 .. n - 1 : w \in B(k)
          OBVIOUS
        <5>3. \A w : (\E k \in 1 .. n : w \in B(k)) <=> (\E k \in 1 .. n - 1 : w \in B(k)) \/ w \in B(n)
          BY <3>3, Zenon
        <5> QED  BY <5>1, <5>2, <5>3
      <4> QED  BY <4>1 DEF LiveOf, B
    <3>6. Holds(g[n], LiveOf(names, n), EndsOf(names, n))
      BY <3>2, <3>4, <3>5, Zenon
    <3> QED  BY <1>0, <3>6
  <2> HIDE DEF Good
  <2> QED  BY <1>0, <2>1, <2>2, InductionUpTo
<1>9. N \in 0 .. N
  BY <1>0
<1>10. Holds(g[N], LiveOf(names, N), EndsOf(names, N))
  BY <1>8, <1>9
<1> QED  BY <1>7, <1>10 DEF N

(***************************************************************************)
(* A walk of the trie, byte by byte.                                       *)
(***************************************************************************)
NodeIds(trie) == {id \in Nat : id + 1 \in Indices(trie)}

Cursors(trie) == {Stay(id) : id \in NodeIds(trie)} \cup {Complete, Diverge}

LEMMA CursorFacts ==
  /\ \A id : Stay(id).outcome = "Stay" /\ Stay(id).node = id
  /\ Complete.outcome = "Complete" /\ Diverge.outcome = "Diverge"
  BY DEF Stay, Complete, Diverge

LEMMA WalkedFacts ==
  ASSUME NEW trie, NEW p, NEW live, NEW ends, Spells(trie, p, live, ends),
         NEW id \in NodeIds(trie), NEW b \in Byte
  PROVE  /\ Longer(p[id + 1], b) \in live =>
              \E to \in NodeIds(trie) : /\ Walked(trie, Stay(id), b) = Stay(to)
                                    /\ p[to + 1] = Longer(p[id + 1], b)
         /\ Longer(p[id + 1], b) \notin live =>
              Walked(trie, Stay(id), b) =
                IF p[id + 1] \in ends /\ b \notin IdentTail THEN Complete ELSE Diverge
<1> DEFINE i == id + 1
           node == trie[i]
<1>1. i \in Indices(trie) /\ id \in Nat
  BY DEF NodeIds
<1>2. /\ trie \in Seq(NodeType)
      /\ p \in [Indices(trie) -> live] /\ live \subseteq Seq(Byte)
      /\ \A c \in DOMAIN trie[i].next :
           trie[i].next[c] + 1 \in Indices(trie) /\ p[trie[i].next[c] + 1] = Longer(p[i], c)
      /\ \A c \in Byte : Longer(p[i], c) \in live => c \in DOMAIN trie[i].next
      /\ trie[i].terminal <=> p[i] \in ends
  BY <1>1, Zenon DEF Spells
<1>3. node \in NodeType
  BY <1>1, <1>2 DEF Indices
<1>4. b \in DOMAIN node.next <=> Longer(p[i], b) \in live
  <2>1. ASSUME b \in DOMAIN node.next PROVE Longer(p[i], b) \in live
    <3>1. node.next[b] + 1 \in Indices(trie) /\ p[node.next[b] + 1] = Longer(p[i], b)
      BY <1>2, <2>1
    <3> QED  BY <1>2, <3>1
  <2> QED  BY <1>2, <2>1
<1>5. /\ Stay(id).outcome = "Stay" /\ Stay(id).node = id
      /\ HasChild(trie, id, b) <=> b \in DOMAIN node.next
      /\ Child(trie, id, b) = node.next[b]
      /\ Node(trie, id).terminal = node.terminal
  BY CursorFacts DEF HasChild, Child, Node
<1> HIDE DEF node, i
<1>6. CASE b \in DOMAIN node.next
  <2>1. Walked(trie, Stay(id), b) = Stay(node.next[b])
    BY <1>5, <1>6 DEF Walked
  <2>2. node.next[b] \in Nat
    BY <1>3, <1>6, NodeFields
  <2>3. node.next[b] + 1 \in Indices(trie) /\ p[node.next[b] + 1] = Longer(p[i], b)
    BY <1>2, <1>6 DEF node
  <2>4. node.next[b] \in NodeIds(trie)
    BY <2>2, <2>3 DEF NodeIds
  <2> QED  BY <1>4, <1>6, <2>1, <2>3, <2>4 DEF i
<1>7. CASE b \notin DOMAIN node.next
  <2>1. Walked(trie, Stay(id), b) =
          IF node.terminal /\ b \notin IdentTail THEN Complete ELSE Diverge
    BY <1>5, <1>7 DEF Walked
  <2>2. node.terminal <=> p[i] \in ends
    BY <1>2 DEF node
  <2> QED  BY <1>4, <1>7, <2>1, <2>2 DEF i
<1> QED  BY <1>6, <1>7

LEMMA WalkedStays ==
  ASSUME NEW trie, NEW at, NEW b, at.outcome # "Stay"
  PROVE  Walked(trie, at, b) = at
  BY DEF Walked

WalkTrace(g, trie, node, bytes) ==
    /\ g \in [0 .. Len(bytes) -> Cursors(trie)]
    /\ g[0] = Stay(node)
    /\ \A n \in 1 .. Len(bytes) : g[n] = Walked(trie, g[n - 1], bytes[n])
    /\ Walk(trie, node, bytes) = g[Len(bytes)]

LEMMA WalkRuns ==
  ASSUME NEW trie, NEW live, NEW ends, Holds(trie, live, ends),
         NEW node \in NodeIds(trie), NEW bytes \in Seq(Byte)
  PROVE  \E g : WalkTrace(g, trie, node, bytes)
<1> DEFINE D == Cursors(trie)
           F == [at \in D |-> [b \in Byte |-> Walked(trie, at, b)]]
           N == Len(bytes)
           start == Stay(node)
<1>0. N \in Nat /\ \A n \in 1 .. N : bytes[n] \in Byte /\ n \in 0 .. N /\ n - 1 \in 0 .. N /\ n # 0
  OBVIOUS
<1>1. ASSUME NEW at \in D, NEW b \in Byte PROVE Walked(trie, at, b) \in D
  <2>1. CASE at \in {Complete, Diverge}
    <3>1. at.outcome # "Stay"
      BY <2>1, CursorFacts
    <3> HIDE DEF D
    <3> QED  BY <3>1, WalkedStays
  <2>2. CASE at \in {Stay(id) : id \in NodeIds(trie)}
    <3>1. PICK id \in NodeIds(trie) : at = Stay(id)
      BY <2>2
    <3>2. PICK p : Spells(trie, p, live, ends)
      BY DEF Holds
    <3>3. CASE Longer(p[id + 1], b) \in live
      <4>1. PICK to \in NodeIds(trie) : Walked(trie, Stay(id), b) = Stay(to)
        BY <3>2, <3>3, WalkedFacts, Zenon
      <4> QED  BY <3>1, <4>1 DEF Cursors
    <3>4. CASE Longer(p[id + 1], b) \notin live
      <4>1. Walked(trie, Stay(id), b) =
              IF p[id + 1] \in ends /\ b \notin IdentTail THEN Complete ELSE Diverge
        BY <3>2, <3>4, WalkedFacts
      <4> QED  BY <3>1, <4>1 DEF Cursors
    <3> QED  BY <3>3, <3>4
  <2> QED  BY <2>1, <2>2 DEF Cursors
<1>2. F \in StepFunction(D, Byte) /\ start \in D
  <2>1. start \in D
    BY DEF Cursors
  <2> HIDE DEF D
  <2> QED  BY <1>1, <2>1 DEF StepFunction
<1> HIDE DEF D
<1>4. PICK g : IsTrace(g, D, F, start, bytes)
  <2> HIDE DEF F, start
  <2> QED BY <1>2, TraceExists
<1>5. g \in [0 .. N -> D] /\ g[0] = start
  BY <1>4 DEF IsTrace
<1>6. ASSUME NEW n \in 1 .. N PROVE g[n] = Walked(trie, g[n - 1], bytes[n])
  <2>1. g[n] = F[g[n - 1]][bytes[n]] /\ g[n - 1] \in D /\ bytes[n] \in Byte
    <3> HIDE DEF F, start
    <3> QED  BY <1>0, <1>4, <1>5 DEF IsTrace
  <2> QED BY <2>1
<1>7. Walk(trie, node, bytes) = g[N]
  <2> DEFINE Run(h) == h = [n \in 0 .. N |-> IF n = 0 THEN start ELSE Walked(trie, h[n - 1], bytes[n])]
             after == CHOOSE h : Run(h)
             Same == {n \in 0 .. N : after[n] = g[n]}
  <2>6. Walk(trie, node, bytes) = after[N]
    BY DEF Walk
  <2> HIDE DEF start, F
  <2>2. Run([n \in 0 .. N |-> g[n]])
    BY <1>0, <1>5, <1>6
  <2>3. Run(after)
    BY <2>2
  <2> HIDE DEF after, N
  <2>4. 0 \in Same
    BY <1>0, <1>5, <2>3
  <2>5. ASSUME NEW n \in 1 .. N, n - 1 \in Same PROVE n \in Same
    <3>1. after[n] = Walked(trie, after[n - 1], bytes[n])
      BY <1>0, <2>3
    <3> QED  BY <1>0, <1>6, <2>5, <3>1
  <2>7. 0 .. N \subseteq Same
    <3> HIDE DEF Same
    <3> QED  BY <1>0, <2>4, <2>5, InductionUpTo
  <2> QED  BY <1>0, <2>6, <2>7
<1> HIDE DEF F
<1> QED  BY <1>5, <1>6, <1>7 DEF WalkTrace, D

(***************************************************************************)
(* Of the bytes typed, `full`, the first m are behind the cursor, and the  *)
(* next n are all that the trie can follow.                                *)
(***************************************************************************)
Follows(full, m, n, live) ==
    /\ \A k \in 1 .. n : SubSeq(full, 1, m + k) \in live
    /\ m + n < Len(full) => SubSeq(full, 1, m + n + 1) \notin live

LEMMA SomeFollow ==
  ASSUME NEW full \in Seq(Byte), NEW m \in 0 .. Len(full), NEW live
  PROVE  \E n \in 0 .. Len(full) - m : Follows(full, m, n, live)
<1> DEFINE N == Len(full) - m
           Stuck == {k \in 0 .. N : k < N => SubSeq(full, 1, m + k + 1) \notin live}
<1>1. N \in Nat /\ Len(full) \in Nat /\ m \in Nat /\ Len(full) = m + N
  OBVIOUS
<1> HIDE DEF N
<1>2. N \in Stuck /\ Stuck \subseteq Nat
  BY <1>1
<1>3. PICK n \in Stuck : \A k \in Stuck : n <= k
  <2> HIDE DEF Stuck
  <2> QED  BY <1>2, NatHasLeast
<1>4. ASSUME NEW k \in 1 .. n PROVE SubSeq(full, 1, m + k) \in live
  <2>1. k - 1 \in 0 .. N /\ k - 1 < N /\ ~(n <= k - 1) /\ m + (k - 1) + 1 = m + k
    BY <1>1
  <2>2. k - 1 \notin Stuck
    <3> HIDE DEF Stuck
    <3> QED  BY <1>3, <2>1
  <2> QED  BY <2>1, <2>2
<1>5. m + n < Len(full) => n < N
  BY <1>1, <1>2
<1> QED  BY <1>1, <1>4, <1>5 DEF Follows, N

Rest(full, m, bytes) ==
    /\ full \in Seq(Byte) /\ m \in 0 .. Len(full) /\ bytes \in Seq(Byte)
    /\ Len(bytes) = Len(full) - m
    /\ \A k \in 1 .. Len(bytes) : bytes[k] = full[m + k]

\* Where a walk of all bytes of full comes to, if k of them lead somewhere.
Reads(trie, p, ends, full, k, at) ==
    /\ k = Len(full) => \E to \in NodeIds(trie) : at = Stay(to) /\ p[to + 1] = full
    /\ k < Len(full) => at = IF SubSeq(full, 1, k) \in ends /\ full[k + 1] \notin IdentTail
                             THEN Complete ELSE Diverge

LEMMA WalkReads ==
  ASSUME NEW trie, NEW p, NEW live, NEW ends, Spells(trie, p, live, ends),
         NEW full, NEW m, NEW bytes, Rest(full, m, bytes),
         NEW node \in NodeIds(trie), p[node + 1] = SubSeq(full, 1, m),
         NEW n \in 0 .. Len(bytes), Follows(full, m, n, live)
  PROVE  Reads(trie, p, ends, full, m + n, Walk(trie, node, bytes))
<1> SUFFICES /\ m + n = Len(full) =>
                  \E to \in NodeIds(trie) : Walk(trie, node, bytes) = Stay(to) /\ p[to + 1] = full
             /\ m + n < Len(full) =>
                  Walk(trie, node, bytes) =
                    IF SubSeq(full, 1, m + n) \in ends /\ full[m + n + 1] \notin IdentTail
                    THEN Complete ELSE Diverge
  BY DEF Reads
<1> DEFINE N == Len(bytes)
           Upto(k) == SubSeq(full, 1, m + k)
<1>r. /\ full \in Seq(Byte) /\ m \in 0 .. Len(full) /\ bytes \in Seq(Byte)
      /\ Len(bytes) = Len(full) - m
      /\ \A k \in 1 .. Len(bytes) : bytes[k] = full[m + k]
  BY DEF Rest
<1>0. /\ N \in Nat /\ m \in Nat /\ n \in Nat /\ n <= N /\ m + N = Len(full)
      /\ m + n = Len(full) <=> n = N
  BY <1>r
<1>1. \A k \in 1 .. N : Longer(Upto(k - 1), bytes[k]) = Upto(k) /\ bytes[k] \in Byte
                        /\ bytes[k] = full[m + k]
  <2> SUFFICES ASSUME NEW k \in 1 .. N
               PROVE  Longer(Upto(k - 1), bytes[k]) = Upto(k) /\ bytes[k] \in Byte
                      /\ bytes[k] = full[m + k]
    OBVIOUS
  <2>1. m + k \in 1 .. Len(full) /\ m + (k - 1) = (m + k) - 1
    BY <1>0
  <2>2. Longer(SubSeq(full, 1, (m + k) - 1), full[m + k]) = SubSeq(full, 1, m + k)
    BY <1>r, <2>1, BegunFacts
  <2>3. bytes[k] \in Byte /\ bytes[k] = full[m + k]
    BY <1>r
  <2>4. Longer(Upto(k - 1), bytes[k]) = Longer(SubSeq(full, 1, (m + k) - 1), full[m + k])
    BY <2>1, <2>3
  <2> HIDE DEF N
  <2> QED  BY <2>2, <2>3, <2>4
<1>2. Upto(0) = SubSeq(full, 1, m) /\ Upto(N) = full
  <2>1. m + 0 = m /\ m + N = Len(full)
    BY <1>0
  <2>2. \A s \in Seq(Byte) : SubSeq(s, 1, Len(s)) = s
    OBVIOUS
  <2> HIDE DEF N
  <2> QED  BY <1>r, <2>1, <2>2
<1>3. Holds(trie, live, ends)
  BY DEF Holds
<1>4. PICK g : WalkTrace(g, trie, node, bytes)
  BY <1>r, <1>3, WalkRuns
<1>5. /\ g[0] = Stay(node) /\ \A k \in 1 .. N : g[k] = Walked(trie, g[k - 1], bytes[k])
      /\ Walk(trie, node, bytes) = g[N]
  BY <1>4 DEF WalkTrace
<1>6. /\ \A k \in 1 .. n : Upto(k) \in live
      /\ n < N => Upto(n + 1) \notin live
  <2>1. n < N => m + n < Len(full) /\ m + (n + 1) = m + n + 1
    BY <1>0
  <2> QED  BY <2>1 DEF Follows
<1> DEFINE At(k, id) == g[k] = Stay(id) /\ p[id + 1] = Upto(k)
           Good == {k \in 0 .. n : \E id \in NodeIds(trie) : At(k, id)}
<1> HIDE DEF Upto, N
<1>7. 0 .. n \subseteq Good
  <2>1. 0 \in Good
    <3>1. 0 \in 0 .. n
      BY <1>0
    <3>2. At(0, node)
      BY <1>2, <1>5
    <3> HIDE DEF At
    <3> QED  BY <3>1, <3>2
  <2>2. ASSUME NEW k \in 1 .. n, k - 1 \in Good PROVE k \in Good
    <3>1. PICK id \in NodeIds(trie) : At(k - 1, id)
      BY <2>2
    <3>2. k \in 1 .. N /\ k \in 0 .. n
      BY <1>0
    <3>3. Longer(p[id + 1], bytes[k]) = Upto(k) /\ Upto(k) \in live /\ bytes[k] \in Byte
      BY <1>1, <1>6, <3>1, <3>2
    <3>4. PICK to \in NodeIds(trie) : /\ Walked(trie, Stay(id), bytes[k]) = Stay(to)
                                     /\ p[to + 1] = Longer(p[id + 1], bytes[k])
      BY <3>3, WalkedFacts
    <3>5. At(k, to)
      BY <1>5, <3>1, <3>2, <3>3, <3>4
    <3> QED  BY <3>2, <3>5
  <2> HIDE DEF Good
  <2> QED  BY <1>0, <2>1, <2>2, InductionUpTo
<1>8. PICK id \in NodeIds(trie) : g[n] = Stay(id) /\ p[id + 1] = Upto(n)
  <2>1. n \in 0 .. n
    BY <1>0
  <2>2. \E id \in NodeIds(trie) : At(n, id)
    <3> HIDE DEF At
    <3> QED  BY <1>7, <2>1
  <2> QED  BY <2>2
<1>9. CASE n = N
  BY <1>0, <1>2, <1>5, <1>8, <1>9
<1>10. CASE n < N
  <2> DEFINE end == IF Upto(n) \in ends /\ bytes[n + 1] \notin IdentTail THEN Complete ELSE Diverge
             Ended == {k \in 0 .. N : n < k => g[k] = end}
  <2>1. n + 1 \in 1 .. N /\ (n + 1) - 1 = n
    BY <1>0, <1>10
  <2>2. Longer(p[id + 1], bytes[n + 1]) \notin live /\ bytes[n + 1] \in Byte
    BY <1>1, <1>6, <1>8, <1>10, <2>1
  <2>3. Walked(trie, Stay(id), bytes[n + 1]) =
          IF p[id + 1] \in ends /\ bytes[n + 1] \notin IdentTail THEN Complete ELSE Diverge
    BY <2>2, WalkedFacts
  <2>4. g[n + 1] = end /\ end.outcome # "Stay"
    BY <1>5, <1>8, <2>1, <2>3, CursorFacts
  <2> HIDE DEF end
  <2>5. 0 .. N \subseteq Ended
    <3>1. 0 \in Ended
      BY <1>0
    <3>2. ASSUME NEW k \in 1 .. N, k - 1 \in Ended PROVE k \in Ended
      <4>1. CASE k <= n + 1
        BY <1>0, <2>4, <4>1
      <4>2. CASE n < k - 1
        <5>1. g[k - 1] = end /\ g[k] = Walked(trie, g[k - 1], bytes[k])
          BY <1>5, <3>2, <4>2
        <5> QED  BY <1>0, <2>4, <5>1, WalkedStays
      <4> QED  BY <1>0, <4>1, <4>2
    <3> HIDE DEF Ended
    <3> QED  BY <1>0, <3>1, <3>2, InductionUpTo
  <2>6. Walk(trie, node, bytes) = end
    BY <1>0, <1>5, <1>10, <2>5
  <2>7. bytes[n + 1] = full[m + n + 1]
    <3>1. bytes[n + 1] = full[m + (n + 1)] /\ m + (n + 1) = m + n + 1
      BY <1>0, <1>1, <2>1
    <3> QED  BY <3>1
  <2> QED  BY <1>0, <1>10, <2>6, <2>7 DEF end, Upto
<1> QED  BY <1>0, <1>9, <1>10

(***************************************************************************)
(* The bytes that lead somewhere in the trie of a list of names are those  *)
(* that begin one, and the marked ends are the names.                      *)
(***************************************************************************)
LEMMA NamesSpelled ==
  ASSUME NEW names \in Seq(Seq(Byte))
  PROVE  /\ EndsOf(names, Len(names)) = ToSet(names)
         /\ \A w \in Seq(Byte) :
              w \in LiveOf(names, Len(names)) <=> w = <<>> \/ BeginsName(w, ToSet(names))
<1> DEFINE N == Len(names)
           live == LiveOf(names, N)
<1>1. DOMAIN names = 1 .. N /\ \A k \in 1 .. N : names[k] \in Seq(Byte)
  OBVIOUS
<1>2. EndsOf(names, N) = ToSet(names)
  BY <1>1 DEF EndsOf, ToSet
<1>3. ToSet(names) = {names[k] : k \in 1 .. N}
  BY <1>1 DEF ToSet
<1>4. \A w, name \in Seq(Byte) : IsPrefix(w, name) <=> w \in Starts(name, Len(name))
  <2> SUFFICES ASSUME NEW w \in Seq(Byte), NEW name \in Seq(Byte)
               PROVE  IsPrefix(w, name) <=> w \in Starts(name, Len(name))
    OBVIOUS
  <2>1. /\ Len(w) \in Nat /\ Len(name) \in Nat /\ SubSeq(w, 1, Len(w)) = w
        /\ \A k \in 0 .. Len(name) : Len(SubSeq(name, 1, k)) = k
    OBVIOUS
  <2>2. IsPrefix(w, name) <=> Len(w) <= Len(name) /\ w = SubSeq(name, 1, Len(w))
    BY <2>1 DEF IsPrefix
  <2>3. ASSUME Len(w) <= Len(name), w = SubSeq(name, 1, Len(w))
        PROVE  w \in Starts(name, Len(name))
    <3>1. Len(w) \in 0 .. Len(name)
      BY <2>1, <2>3
    <3> QED  BY <2>3, <3>1, Zenon DEF Starts
  <2>4. ASSUME w \in Starts(name, Len(name))
        PROVE  Len(w) <= Len(name) /\ w = SubSeq(name, 1, Len(w))
    <3>1. PICK k \in 0 .. Len(name) : w = SubSeq(name, 1, k)
      BY <2>4, Zenon DEF Starts
    <3>2. Len(w) = k
      BY <2>1, <3>1
    <3> QED  BY <2>1, <3>1, <3>2
  <2> QED  BY <2>2, <2>3, <2>4
<1>5. ASSUME NEW w \in Seq(Byte)
      PROVE  w \in live <=> w = <<>> \/ BeginsName(w, ToSet(names))
  <2>1. w \in live <=> w = <<>> \/ \E k \in 1 .. N : w \in Starts(names[k], Len(names[k]))
    <3> HIDE DEF N
    <3> QED  BY DEF LiveOf
  <2>2. BeginsName(w, ToSet(names)) <=> \E k \in 1 .. N : IsPrefix(w, names[k])
    <3> HIDE DEF N
    <3> QED  BY <1>3, Zenon DEF BeginsName
  <2>3. \A k \in 1 .. N : IsPrefix(w, names[k]) <=> w \in Starts(names[k], Len(names[k]))
    BY <1>1, <1>4
  <2> QED  BY <2>1, <2>2, <2>3
<1> QED  BY <1>2, <1>5

LEMMA ExtendsReads ==
  ASSUME NEW names \in Seq(Seq(Byte)), NEW full \in Seq(Byte),
         NEW m \in 0 .. Len(full), NEW n \in 0 .. Len(full) - m,
         SubSeq(full, 1, m) \in LiveOf(names, Len(names)),
         Follows(full, m, n, LiveOf(names, Len(names)))
  PROVE  Extends(full, ToSet(names)) <=>
           \/ m + n = Len(full)
           \/ SubSeq(full, 1, m + n) \in ToSet(names) /\ full[m + n + 1] \notin IdentTail
<1> DEFINE live == LiveOf(names, Len(names))
           Begins(k) == BeginsName(SubSeq(full, 1, k), ToSet(names))
           S == {0} \cup {k \in 1 .. Len(full) : Begins(k)}
           x == m + n
<1>1. /\ Len(full) \in Nat /\ m \in Nat /\ n \in Nat /\ x \in Nat /\ x <= Len(full)
      /\ \A k \in 0 .. Len(full) : SubSeq(full, 1, k) \in Seq(Byte) /\ Len(SubSeq(full, 1, k)) = k
  OBVIOUS
<1>2. \A k \in 1 .. Len(full) : SubSeq(full, 1, k) \in live <=> Begins(k)
  <2> SUFFICES ASSUME NEW k \in 1 .. Len(full)
               PROVE  SubSeq(full, 1, k) \in live <=> Begins(k)
    OBVIOUS
  <2>1. SubSeq(full, 1, k) \in Seq(Byte) /\ SubSeq(full, 1, k) # <<>>
    <3>1. k \in 0 .. Len(full) /\ k # 0
      BY <1>1
    <3>2. Len(SubSeq(full, 1, k)) = k /\ Len(<<>>) = 0
      BY <1>1, <3>1
    <3> QED  BY <1>1, <3>1, <3>2
  <2> QED  BY <2>1, NamesSpelled
<1>3. x \in S
  <2>1. SubSeq(full, 1, x) \in live
    <3>1. CASE n = 0
      BY <1>1, <3>1
    <3>2. CASE n # 0
      <4>1. n \in 1 .. n
        BY <1>1, <3>2
      <4> HIDE DEF live
      <4>2. \A k \in 1 .. n : SubSeq(full, 1, m + k) \in live
        BY DEF Follows, live
      <4> QED  BY <4>1, <4>2
    <3> QED  BY <3>1, <3>2
  <2>2. x = 0 \/ x \in 1 .. Len(full)
    BY <1>1
  <2> HIDE DEF x, live, Begins
  <2> QED  BY <1>2, <2>1, <2>2
<1>4. ASSUME NEW y \in S PROVE x >= y
  <2> SUFFICES ASSUME ~(x >= y) PROVE FALSE
    OBVIOUS
  <2>1. y \in 1 .. Len(full) /\ Begins(y) /\ x < y /\ x + 1 \in 1 .. Len(full)
    <3> HIDE DEF x, Begins
    <3> QED  BY <1>1
  <2>2. ~Begins(x + 1)
    <3>1. SubSeq(full, 1, x + 1) \notin live
      BY <1>1, <2>1 DEF Follows
    <3> HIDE DEF x, live, Begins
    <3> QED  BY <1>2, <2>1, <3>1
  <2>3. Begins(x + 1)
    <3>1. PICK name \in ToSet(names) : IsPrefix(SubSeq(full, 1, y), name)
      BY <2>1 DEF BeginsName
    <3>2. name \in Seq(Byte)
      BY DEF ToSet
    <3>3. Len(SubSeq(full, 1, y)) = y /\ SubSeq(SubSeq(full, 1, y), 1, y) = SubSeq(full, 1, y)
      BY <1>1, <2>1
    <3>4. y <= Len(name) /\ SubSeq(full, 1, y) = SubSeq(name, 1, y)
      BY <3>1, <3>3 DEF IsPrefix
    <3>5. SubSeq(full, 1, x + 1) = SubSeq(name, 1, x + 1) /\ x + 1 <= Len(name)
      <4> HIDE DEF x, S, Begins
      <4>1. \A k \in 1 .. x + 1 : full[k] = name[k]
        <5>1. \A k \in 1 .. y : SubSeq(full, 1, y)[k] = full[k] /\ SubSeq(name, 1, y)[k] = name[k]
          BY <1>1, <2>1, <3>2, <3>4
        <5>2. \A k \in 1 .. x + 1 : k \in 1 .. y
          BY <1>1, <2>1
        <5> QED  BY <3>4, <5>1, <5>2
      <4>2. x + 1 <= Len(name)
        BY <1>1, <2>1, <3>2, <3>4
      <4> QED  BY <1>1, <2>1, <3>2, <4>1, <4>2
    <3>6. Len(SubSeq(full, 1, x + 1)) = x + 1
          /\ SubSeq(SubSeq(full, 1, x + 1), 1, x + 1) = SubSeq(full, 1, x + 1)
      <4> HIDE DEF x
      <4> QED  BY <1>1, <2>1
    <3>7. IsPrefix(SubSeq(full, 1, x + 1), name)
      <4> HIDE DEF x
      <4> QED  BY <3>5, <3>6 DEF IsPrefix
    <3> QED  BY <3>7 DEF BeginsName
  <2> QED  BY <2>2, <2>3
<1>5. S \subseteq Nat
  BY <1>1
<1>6. Max(S) = x
  <2> HIDE DEF S, x
  <2>1. Max(S) \in S /\ \A y \in S : Max(S) >= y
    BY <1>3, <1>4 DEF Max
  <2> DEFINE top == Max(S)
  <2> HIDE DEF top
  <2>2. top \in S /\ \A y \in S : top >= y
    BY <2>1 DEF top
  <2>3. top \in Nat /\ x \in Nat /\ top >= x /\ x >= top
    BY <1>3, <1>4, <1>5, <2>2
  <2>4. top = x
    BY <2>3
  <2> QED  BY <2>4 DEF top
<1>7. Extends(full, ToSet(names)) <=>
        \/ Max(S) = Len(full)
        \/ SubSeq(full, 1, Max(S)) \in ToSet(names) /\ full[Max(S) + 1] \notin IdentTail
  BY Zenon DEF Extends
<1> QED  BY <1>6, <1>7

(***************************************************************************)
(* From a cursor the bytes u lead to, a walk over bytes reads u \o bytes.  *)
(***************************************************************************)
ComesTo(trie, p, at, w) == \E to \in NodeIds(trie) : at = Stay(to) /\ p[to + 1] = w

Spelt(names, p) ==
    Spells(FromNames(names), p, LiveOf(names, Len(names)), EndsOf(names, Len(names)))

LEMMA WalkExtends ==
  ASSUME NEW names \in Seq(Seq(Byte)), NEW p, Spelt(names, p),
         NEW u \in Seq(Byte), NEW bytes \in Seq(Byte),
         NEW node \in NodeIds(FromNames(names)), p[node + 1] = u
  PROVE  /\ Walk(FromNames(names), node, bytes).outcome # "Diverge"
              <=> Extends(u \o bytes, ToSet(names))
         /\ Walk(FromNames(names), node, bytes).outcome = "Stay" =>
              ComesTo(FromNames(names), p, Walk(FromNames(names), node, bytes), u \o bytes)
<1> DEFINE trie == FromNames(names)
           live == LiveOf(names, Len(names))
           ends == EndsOf(names, Len(names))
           full == u \o bytes
           m    == Len(u)
           at   == Walk(trie, node, bytes)
<1>1. /\ full \in Seq(Byte) /\ m \in 0 .. Len(full) /\ Len(full) \in Nat
      /\ Len(bytes) = Len(full) - m
      /\ \A k \in 1 .. Len(bytes) : bytes[k] = full[m + k]
      /\ SubSeq(full, 1, m) = u
  <2>1. /\ full \in Seq(Byte) /\ m \in Nat /\ Len(bytes) \in Nat /\ Len(full) = m + Len(bytes)
    OBVIOUS
  <2>2. \A k \in 1 .. Len(bytes) : bytes[k] = full[m + k]
    BY ConcatProperties
  <2>3. Len(SubSeq(full, 1, m)) = m /\ \A k \in 1 .. m : SubSeq(full, 1, m)[k] = u[k]
    OBVIOUS
  <2>4. SubSeq(full, 1, m) \in Seq(Byte)
    OBVIOUS
  <2>5. SubSeq(full, 1, m) = u
    <3> DEFINE v == SubSeq(full, 1, m)
    <3> HIDE DEF v
    <3> QED  BY <2>3, <2>4, SeqEqual DEF v
  <2> HIDE DEF full
  <2> QED  BY <2>1, <2>2, <2>5
<1>2. Spells(trie, p, live, ends) /\ u \in live
  <2>1. Spells(trie, p, live, ends) /\ node + 1 \in Indices(trie)
    BY DEF NodeIds, Spelt
  <2>2. p \in [Indices(trie) -> live]
    BY <2>1, Zenon DEF Spells
  <2> HIDE DEF trie, live, ends
  <2> QED  BY <2>1, <2>2
<1> HIDE DEF full, trie, m
<1>3. PICK n \in 0 .. Len(full) - m : Follows(full, m, n, live)
  <2> HIDE DEF live
  <2> QED  BY <1>1, SomeFollow
<1>4. /\ m + n = Len(full) => \E to \in NodeIds(trie) : at = Stay(to) /\ p[to + 1] = full
      /\ m + n < Len(full) =>
           at = IF SubSeq(full, 1, m + n) \in ends /\ full[m + n + 1] \notin IdentTail
                THEN Complete ELSE Diverge
  <2>1. node \in NodeIds(trie) /\ p[node + 1] = SubSeq(full, 1, m) /\ n \in 0 .. Len(bytes)
    BY <1>1, <1>3 DEF trie
  <2> HIDE DEF live, ends, at
  <2>2. Rest(full, m, bytes)
    BY <1>1 DEF Rest
  <2>3. Reads(trie, p, ends, full, m + n, Walk(trie, node, bytes))
    BY <1>2, <1>3, <2>1, <2>2, WalkReads
  <2>4. Reads(trie, p, ends, full, m + n, at)
    BY <2>3 DEF at
  <2> QED  BY <2>4 DEF Reads
<1>5. Extends(full, ToSet(names)) <=>
        \/ m + n = Len(full)
        \/ SubSeq(full, 1, m + n) \in ends /\ full[m + n + 1] \notin IdentTail
  <2>1. SubSeq(full, 1, m) \in live
    BY <1>1, <1>2
  <2>2. ends = ToSet(names)
    BY NamesSpelled
  <2> HIDE DEF ends
  <2> QED  BY <1>1, <1>3, <2>1, <2>2, ExtendsReads
<1>6. m + n = Len(full) \/ m + n < Len(full)
  <2>1. m \in Nat /\ n \in Nat /\ Len(full) \in Nat /\ n <= Len(full) - m
    <3> HIDE DEF live
    <3> QED  BY <1>1, <1>3
  <2> QED  BY <2>1
<1> HIDE DEF at, ends
<1>7. /\ at.outcome # "Diverge" <=> Extends(full, ToSet(names))
      /\ at.outcome = "Stay" => \E to \in NodeIds(trie) : at = Stay(to) /\ p[to + 1] = full
  <2>1. CASE m + n = Len(full)
    <3>1. PICK to \in NodeIds(trie) : at = Stay(to) /\ p[to + 1] = full
      BY <1>4, <2>1
    <3> QED  BY <1>5, <2>1, <3>1, CursorFacts
  <2>2. CASE m + n < Len(full)
    <3>1. m + n # Len(full)
      BY <1>1, <1>3, <2>2
    <3>2. at = IF SubSeq(full, 1, m + n) \in ends /\ full[m + n + 1] \notin IdentTail
               THEN Complete ELSE Diverge
      BY <1>4, <2>2
    <3> QED  BY <1>5, <3>1, <3>2, CursorFacts
  <2> QED  BY <1>6, <2>1, <2>2
<1> QED  BY <1>7 DEF at, trie, full, ComesTo

(***************************************************************************)
(* A walk of the trie from where the text typed has led tells exactly      *)
(* whether the text and the bytes after it can still be one of the names   *)
(* the trie was built from, or end one: whatever the names, of which one   *)
(* may begin another, and wherever a token cuts the name (trie.rs 68-128,  *)
(* narrow.rs 380-430).  No name is masked for the order of the insertions, *)
(* and no bytes are admitted that begin none.                              *)
(***************************************************************************)
THEOREM TrieIsExact ==
  ASSUME NEW names \in Seq(Seq(Byte)), NEW typed \in Seq(Byte), NEW bytes \in Seq(Byte),
         NEW cursor, Walk(FromNames(names), Root, typed) = Stay(cursor)
  PROVE  Walk(FromNames(names), cursor, bytes).outcome # "Diverge"
           <=> Extends(typed \o bytes, ToSet(names))
<1> DEFINE trie == FromNames(names)
           none == <<>>
<1>1. PICK p : Spelt(names, p)
  BY FromNamesHolds DEF Holds, Spelt
<1>2. none \in Seq(Byte) /\ none \o typed = typed
  OBVIOUS
<1>3. Root \in NodeIds(trie) /\ p[Root + 1] = none
  <2>1. 1 \in Indices(trie) /\ p[1] = <<>>
    BY <1>1, Zenon DEF Spelt, Spells
  <2> HIDE DEF trie
  <2> QED  BY <2>1 DEF NodeIds, Root
<1> HIDE DEF none
<1>4. Walk(trie, Root, typed).outcome = "Stay"
  BY CursorFacts
<1>5. PICK to \in NodeIds(trie) : Walk(trie, Root, typed) = Stay(to) /\ p[to + 1] = typed
  <2>1. Root \in NodeIds(trie) /\ p[Root + 1] = none /\ Spelt(names, p) /\ none \in Seq(Byte)
    BY <1>1, <1>2, <1>3
  <2>2. ComesTo(trie, p, Walk(trie, Root, typed), none \o typed)
    BY <1>4, <2>1, WalkExtends
  <2> HIDE DEF trie
  <2> QED  BY <1>2, <2>2 DEF ComesTo
<1>6. cursor = to
  <2> HIDE DEF trie
  <2>1. Stay(cursor) = Stay(to)
    BY <1>5 DEF trie
  <2>2. Stay(cursor).node = cursor /\ Stay(to).node = to
    BY CursorFacts
  <2> QED  BY <2>1, <2>2
<1> QED  BY <1>1, <1>5, <1>6, WalkExtends
-----------------------------------------------------------------------------
(***************************************************************************)
(* Recursion over calls.  A walk calls itself with more classes visited,   *)
(* so its equation has a solution: a function of the calls, each with a    *)
(* result it may have, whose value at a call depends on the calls of a     *)
(* lesser rank only.                                                       *)
(***************************************************************************)
Results(C, V, R) == {f \in [C -> V] : \A c \in C : f[c] \in R[c]}

AgreeBelow(f, g, C, rank, c) == \A d \in C : rank[d] < rank[c] => f[d] = g[d]

IsRecursive(C, V, R, rank, Phi) ==
    /\ Phi \in [Results(C, V, R) -> Results(C, V, R)]
    /\ \A f, g \in Results(C, V, R), c \in C :
         AgreeBelow(f, g, C, rank, c) => Phi[f][c] = Phi[g][c]

LEMMA RecursionExists ==
  ASSUME NEW C, NEW V, NEW R, NEW N \in Nat, NEW rank \in [C -> 0 .. N], NEW Phi,
         IsRecursive(C, V, R, rank, Phi), Results(C, V, R) # {}
  PROVE  \E f \in Results(C, V, R) : f = Phi[f]
<1> DEFINE F == Results(C, V, R)
           Good(f, n) == \A c \in C : rank[c] < n => f[c] = Phi[f][c]
           X == {n \in Nat : \E f \in F : Good(f, n)}
<1>1. 0 \in X
  OBVIOUS
<1>2. ASSUME NEW n \in 1 .. N + 1, n - 1 \in X PROVE n \in X
  <2>1. PICK f \in F : Good(f, n - 1)
    BY <1>2
  <2> DEFINE g == [c \in C |-> IF rank[c] < n THEN Phi[f][c] ELSE f[c]]
  <2>2. Phi[f] \in F
    BY DEF IsRecursive
  <2>3. g \in F
    BY <2>1, <2>2 DEF Results
  <2>4. ASSUME NEW c \in C, rank[c] < n PROVE g[c] = Phi[g][c]
    <3>1. AgreeBelow(f, g, C, rank, c)
      <4> SUFFICES ASSUME NEW d \in C, rank[d] < rank[c] PROVE f[d] = g[d]
        BY DEF AgreeBelow
      <4>1. rank[d] \in Nat /\ rank[c] \in Nat /\ rank[d] < n - 1
        BY <2>4
      <4> QED  BY <2>1, <4>1
    <3>2. Phi[f][c] = Phi[g][c]
      BY <2>1, <2>3, <3>1 DEF IsRecursive
    <3> QED  BY <2>4, <3>2
  <2> QED  BY <2>3, <2>4
<1>3. N + 1 \in X
  <2> HIDE DEF X
  <2>1. N + 1 \in Nat /\ N + 1 \in 0 .. N + 1
    OBVIOUS
  <2> QED  BY <1>1, <1>2, <2>1, InductionUpTo
<1>4. PICK f \in F : Good(f, N + 1)
  BY <1>3
<1>5. \A c \in C : f[c] = Phi[f][c]
  BY <1>4
<1>6. Phi[f] \in F /\ f \in F
  BY <1>4 DEF IsRecursive
<1>7. f = Phi[f]
  BY <1>5, <1>6 DEF Results
<1> QED  BY <1>6, <1>7

\* Whatever holds of a call when it holds of the calls of lesser rank holds of all.
LEMMA RankInduction ==
  ASSUME NEW C, NEW N \in Nat, NEW rank \in [C -> 0 .. N], NEW X,
         \A c \in C : (\A d \in C : rank[d] < rank[c] => d \in X) => c \in X
  PROVE  C \subseteq X
<1> DEFINE Y == {n \in Nat : \A c \in C : rank[c] <= n => c \in X}
<1>1. 0 \in Y
  OBVIOUS
<1>2. ASSUME NEW n \in 1 .. N, n - 1 \in Y PROVE n \in Y
  <2> SUFFICES ASSUME NEW c \in C, rank[c] <= n PROVE c \in X
    OBVIOUS
  <2> SUFFICES ASSUME NEW d \in C, rank[d] < rank[c] PROVE d \in X
    OBVIOUS
  <2>1. rank[d] <= n - 1
    OBVIOUS
  <2> QED  BY <1>2, <2>1
<1>3. N \in Y
  <2> HIDE DEF Y
  <2> QED  BY <1>1, <1>2, InductionUpTo
<1> QED  BY <1>3

(***************************************************************************)
(* The paths a walk comes to, and the rank of a call: the paths not yet    *)
(* visited.                                                                *)
(***************************************************************************)
Left(paths) == [call \in Visits(paths) |-> Cardinality(paths \ call.visited)]

LEMMA ListFinite ==
  ASSUME NEW s, IsList(s) PROVE IsFiniteSet(ToSet(s))
<1> DEFINE n == Len(s)
           f == [i \in 1 .. n |-> s[i]]
<1>1. n \in Nat /\ DOMAIN s = 1 .. n
  BY DEF IsList
<1>2. IsFiniteSet(1 .. n)
  BY <1>1, FS_Interval
<1>3. f \in Surjection(1 .. n, ToSet(s))
  BY <1>1 DEF Surjection, ToSet
<1> HIDE DEF f, n
<1> QED  BY <1>2, <1>3, FS_Surjection

LEMMA PathsFinite ==
  ASSUME NEW schema, IsSchema(schema), NEW class
  PROVE  IsFiniteSet(Paths(schema, class))
<1> DEFINE D == DOMAIN schema.classes
           parents == [c \in D |-> ToSet(schema.classes[c].supers)]
           T == {ToSet(schema.classes[c].supers) : c \in D}
<1>1. IsFiniteSet(D) /\ \A t \in T : IsFiniteSet(t)
  BY ListFinite DEF IsSchema
<1>2. parents \in Surjection(D, T)
  BY DEF Surjection
<1>3. IsFiniteSet(T)
  <2> HIDE DEF D, parents, T
  <2> QED  BY <1>1, <1>2, FS_Surjection
<1>4. IsFiniteSet(UNION T) /\ IsFiniteSet({class}) /\ IsFiniteSet({class} \cup D)
  <2> HIDE DEF D, parents, T
  <2>1. IsFiniteSet(UNION T)
    BY <1>1, <1>3, FS_UNION
  <2>2. IsFiniteSet({class})
    BY FS_Singleton
  <2> QED  BY <1>1, <2>1, <2>2, FS_Union
<1>5. IsFiniteSet(({class} \cup D) \cup (UNION T))
  <2> HIDE DEF D, T
  <2> QED  BY <1>4, FS_Union
<1> QED  BY <1>5 DEF Paths

LEMMA ParentsArePaths ==
  ASSUME NEW schema, IsSchema(schema), NEW class, NEW c \in Paths(schema, class)
  PROVE  Supers(schema, c) \in Seq(Paths(schema, class))
<1> DEFINE P == Paths(schema, class)
<1>1. CASE HasClass(schema, c)
  <2>1. Supers(schema, c) = schema.classes[c].supers /\ c \in DOMAIN schema.classes
    BY <1>1 DEF Supers, HasClass
  <2>2. schema.classes[c].supers \in Seq(ToSet(schema.classes[c].supers))
    BY <2>1 DEF IsSchema, IsList
  <2>3. ToSet(schema.classes[c].supers) \subseteq P
    BY <2>1 DEF Paths
  <2>4. schema.classes[c].supers \in Seq(P)
    <3> DEFINE S == ToSet(schema.classes[c].supers)
    <3> HIDE DEF P, S
    <3> QED  BY <2>2, <2>3 DEF S
  <2> QED  BY <2>1, <2>4
<1>2. CASE ~HasClass(schema, c)
  BY <1>2 DEF Supers
<1> QED  BY <1>1, <1>2

LEMMA LeftType ==
  ASSUME NEW P, IsFiniteSet(P)
  PROVE  Left(P) \in [Visits(P) -> 0 .. Cardinality(P)] /\ Cardinality(P) \in Nat
<1>1. ASSUME NEW call \in Visits(P) PROVE Cardinality(P \ call.visited) \in 0 .. Cardinality(P)
  <2>1. P \ call.visited \in SUBSET P
    OBVIOUS
  <2>2. IsFiniteSet(P \ call.visited) /\ Cardinality(P \ call.visited) <= Cardinality(P)
    BY <2>1, FS_Subset
  <2> QED  BY <2>2, FS_CardinalityType
<1> QED  BY <1>1, FS_CardinalityType DEF Left

LEMMA EnteredHasLess ==
  ASSUME NEW P, IsFiniteSet(P), NEW c \in Visits(P), c.class \notin c.visited,
         NEW d \in Visits(P), Entered(c) \subseteq d.visited
  PROVE  Left(P)[d] < Left(P)[c]
<1> DEFINE S == P \ c.visited
           T == P \ d.visited
<1>1. T \in SUBSET S /\ c.class \in S /\ c.class \notin T
  BY DEF Visits, Entered
<1>2. S \in SUBSET P
  OBVIOUS
<1>3. Left(P)[d] = Cardinality(T) /\ Left(P)[c] = Cardinality(S)
  BY DEF Left
<1> HIDE DEF S, T
<1>4. IsFiniteSet(S)
  BY <1>2, FS_Subset
<1>5. IsFiniteSet(T) /\ Cardinality(T) <= Cardinality(S) /\ (Cardinality(S) = Cardinality(T) => S = T)
  BY <1>1, <1>4, FS_Subset
<1>6. Cardinality(T) \in Nat /\ Cardinality(S) \in Nat
  BY <1>4, <1>5, FS_CardinalityType
<1> QED  BY <1>1, <1>3, <1>5, <1>6

(***************************************************************************)
(* The properties a class has are lists, and none is of no type.           *)
(***************************************************************************)
LEMMA StoredIsList ==
  ASSUME NEW schema, IsSchema(schema), NEW c
  PROVE  IsProperties(Stored(schema, c))
<1>1. CASE HasClass(schema, c)
  <2> DEFINE a == schema.classes[c].props
             b == schema.classes[c].qualified
             s == a \o b
  <2>1. Stored(schema, c) = s
    BY <1>1 DEF Stored
  <2>2. IsProperties(a) /\ IsProperties(b)
    BY <1>1 DEF IsSchema, HasClass
  <2> HIDE DEF a, b
  <2>3. s \in Seq(ToSet(a) \cup ToSet(b)) /\ Len(s) = Len(a) + Len(b)
        /\ Len(a) \in Nat /\ Len(b) \in Nat
        /\ DOMAIN a = 1 .. Len(a) /\ DOMAIN b = 1 .. Len(b) /\ DOMAIN s = 1 .. Len(s)
    BY <2>2 DEF IsProperties, IsList
  <2>4. ASSUME NEW i \in DOMAIN s PROVE IsPropType(s[i].type)
    <3>1. CASE i <= Len(a)
      BY <2>2, <2>3, <3>1 DEF IsProperties, IsList
    <3>2. CASE i > Len(a)
      <4>1. s[i] = b[i - Len(a)] /\ i - Len(a) \in DOMAIN b
        BY <2>2, <2>3, <3>2 DEF IsProperties, IsList
      <4> QED  BY <2>2, <4>1 DEF IsProperties
    <3> QED  BY <2>3, <3>1, <3>2
  <2>5. s \in Seq(ToSet(s))
    <3> HIDE DEF s
    <3> QED  BY <2>3 DEF ToSet
  <2> QED  BY <2>1, <2>4, <2>5 DEF IsProperties, IsList
<1>2. CASE ~HasClass(schema, c)
  BY <1>2 DEF Stored, IsProperties, IsList
<1> QED  BY <1>1, <1>2

\* The names of a list of properties are a list, of those names.
LEMMA NamesOfList ==
  ASSUME NEW s, IsProperties(s), NEW names, \A i \in DOMAIN s : s[i].name \in names
  PROVE  NamesOf(s) \in Seq(names) /\ DOMAIN NamesOf(s) = DOMAIN s
<1>1. Len(s) \in Nat /\ DOMAIN s = 1 .. Len(s)
  BY DEF IsProperties, IsList
<1> QED  BY <1>1 DEF NamesOf

\* The properties at the ends of the associations.
EndNames(schema) ==
    {schema.associations[i][side].prop : i \in DOMAIN schema.associations, side \in {1, 2}}

EndTypes(schema) ==
    {ClassType(schema.associations[i][side].target) :
       i \in DOMAIN schema.associations, side \in {1, 2}}

EndSteps(schema) == [name : EndNames(schema), type : EndTypes(schema)]

More(schema, c, s, n) ==
    s \o StepFrom(c, schema.associations[n][1], schema.associations[n][2])
      \o StepFrom(c, schema.associations[n][2], schema.associations[n][1])

NavigableTrace(g, schema, c) ==
    /\ \A n \in 0 .. Len(schema.associations) : g[n] \in Seq(EndSteps(schema))
    /\ g[0] = <<>>
    /\ \A n \in 1 .. Len(schema.associations) : g[n] = More(schema, c, g[n - 1], n)
    /\ Navigable(schema, c) = g[Len(schema.associations)]

LEMMA StepsOfEnds ==
  ASSUME NEW schema, IsSchema(schema), NEW c, NEW n \in 1 .. Len(schema.associations),
         NEW a \in {1, 2}, NEW b \in {1, 2}
  PROVE  StepFrom(c, schema.associations[n][a], schema.associations[n][b])
           \in Seq(EndSteps(schema))
<1> DEFINE end == schema.associations[n][b]
           M == EndSteps(schema)
<1>1. n \in DOMAIN schema.associations
  BY DEF IsSchema, IsList
<1>2. Property(end.prop, ClassType(end.target)) \in M
  BY <1>1 DEF EndSteps, EndNames, EndTypes, Property
<1> HIDE DEF M
<1>3. StepFrom(c, schema.associations[n][a], schema.associations[n][b]) \in Seq(M)
  BY <1>2 DEF StepFrom
<1> QED  BY <1>3 DEF M

LEMMA NavigableRuns ==
  ASSUME NEW schema, IsSchema(schema), NEW c
  PROVE  \E g : NavigableTrace(g, schema, c)
<1> DEFINE N == Len(schema.associations)
           M == EndSteps(schema)
           Run(h) == h = [n \in 0 .. N |-> IF n = 0 THEN <<>> ELSE More(schema, c, h[n - 1], n)]
           steps == CHOOSE h : Run(h)
           F == [s \in Seq(M) |-> [n \in 1 .. N |-> More(schema, c, s, n)]]
           t == [n \in 1 .. N |-> n]
<1>1. N \in Nat
  BY DEF IsSchema, IsList
<1>2. ASSUME NEW n \in 1 .. N, NEW s \in Seq(M) PROVE More(schema, c, s, n) \in Seq(M)
  <2>1. StepFrom(c, schema.associations[n][1], schema.associations[n][2]) \in Seq(M)
        /\ StepFrom(c, schema.associations[n][2], schema.associations[n][1]) \in Seq(M)
    BY StepsOfEnds
  <2> HIDE DEF M
  <2> QED  BY <2>1 DEF More
<1>3. Navigable(schema, c) = steps[N]
  BY DEF Navigable, More
<1> HIDE DEF N, M
<1>4. F \in StepFunction(Seq(M), 1 .. N)
  BY <1>2 DEF StepFunction
<1>5. t \in Seq(1 .. N) /\ Len(t) = N /\ <<>> \in Seq(M)
  BY <1>1
<1>6. PICK g : IsTrace(g, Seq(M), F, <<>>, t)
  <2> HIDE DEF F, t
  <2> QED  BY <1>4, <1>5, TraceExists
<1>7. g \in [0 .. N -> Seq(M)] /\ g[0] = <<>>
      /\ \A n \in 1 .. N : g[n] = F[g[n - 1]][t[n]]
  <2> HIDE DEF F, t
  <2> QED  BY <1>5, <1>6 DEF IsTrace
<1>8. ASSUME NEW n \in 1 .. N PROVE g[n] = More(schema, c, g[n - 1], n)
  <2>1. g[n - 1] \in Seq(M) /\ t[n] = n
    BY <1>1, <1>7
  <2> QED  BY <1>7, <2>1
<1> HIDE DEF F, t
<1>9. Run(g)
  BY <1>1, <1>7, <1>8
<1>10. Run(steps)
  <2> HIDE DEF Run
  <2> QED  BY <1>9
<1>11. steps[0] = <<>> /\ \A n \in 1 .. N : steps[n] = More(schema, c, steps[n - 1], n)
  <2> HIDE DEF steps
  <2> QED  BY <1>1, <1>10
<1> HIDE DEF steps
<1>12. \A n \in 0 .. N : steps[n] \in Seq(M)
  <2> DEFINE X == {n \in 0 .. N : steps[n] \in Seq(M)}
  <2>1. 0 \in X
    <3>1. steps[0] \in Seq(M)
      BY <1>11
    <3>2. 0 \in 0 .. N
      BY <1>1
    <3> QED  BY <3>1, <3>2
  <2>2. ASSUME NEW n \in 1 .. N, n - 1 \in X PROVE n \in X
    BY <1>1, <1>2, <1>11, <2>2
  <2>3. 0 .. N \subseteq X
    <3> HIDE DEF X
    <3> QED  BY <1>1, <2>1, <2>2, InductionUpTo
  <2> QED  BY <2>3
<1>13. NavigableTrace(steps, schema, c)
  BY <1>3, <1>11, <1>12 DEF NavigableTrace, N, M
<1> QED  BY <1>13

LEMMA NavigableIsList ==
  ASSUME NEW schema, IsSchema(schema), NEW c
  PROVE  /\ IsProperties(Navigable(schema, c))
         /\ \A i \in DOMAIN Navigable(schema, c) :
              Navigable(schema, c)[i].name \in EndNames(schema)
<1> DEFINE M == EndSteps(schema)
           s == Navigable(schema, c)
<1>1. s \in Seq(M)
  <2>1. PICK g : NavigableTrace(g, schema, c)
    BY NavigableRuns
  <2>2. Len(schema.associations) \in 0 .. Len(schema.associations)
    BY DEF IsSchema, IsList
  <2> QED  BY <2>1, <2>2 DEF NavigableTrace
<1> HIDE DEF s
<1>2. \A i \in DOMAIN s : s[i] \in M
  BY <1>1
<1>3. \A m \in M : m.name \in EndNames(schema) /\ IsPropType(m.type)
  BY DEF EndSteps, EndTypes, ClassType, IsPropType
<1> HIDE DEF M
<1>4. s \in Seq(ToSet(s))
  BY <1>1 DEF ToSet
<1>5. IsProperties(s) /\ \A i \in DOMAIN s : s[i].name \in EndNames(schema)
  BY <1>2, <1>3, <1>4 DEF IsProperties, IsList
<1> QED  BY <1>5 DEF s

(***************************************************************************)
(* The walk of member_names.                                               *)
(***************************************************************************)
Walks(schema, P, Names) ==
    /\ IsFiniteSet(P)
    /\ \A c \in P : /\ Supers(schema, c) \in Seq(P)
                    /\ NamesOf(Stored(schema, c)) \in Seq(Names)
                    /\ NamesOf(Navigable(schema, c)) \in Seq(Names)

Collected(P, Names) == [names : Seq(Names), visited : SUBSET P]

Collectable(P, Names) ==
    [call \in Visits(P) |-> {r \in Collected(P, Names) : call.visited \subseteq r.visited}]

Collections(P, Names) == Results(Visits(P), Collected(P, Names), Collectable(P, Names))

LEMMA CollectionsAre ==
  ASSUME NEW P, NEW Names, NEW f \in Collections(P, Names), NEW c \in P, NEW seen \in SUBSET P
  PROVE  /\ Visit(c, seen) \in Visits(P)
         /\ f[Visit(c, seen)] \in Collected(P, Names)
         /\ f[Visit(c, seen)].names \in Seq(Names)
         /\ f[Visit(c, seen)].visited \in SUBSET P
         /\ seen \subseteq f[Visit(c, seen)].visited
<1>1. Visit(c, seen) \in Visits(P) /\ Visit(c, seen).visited = seen
  BY DEF Visits, Visit
<1>2. f[Visit(c, seen)] \in Collectable(P, Names)[Visit(c, seen)]
  BY <1>1 DEF Collections, Results
<1>3. f[Visit(c, seen)] \in Collected(P, Names) /\ seen \subseteq f[Visit(c, seen)].visited
  BY <1>1, <1>2 DEF Collectable
<1> QED  BY <1>1, <1>3 DEF Collected

\* One more super-type.
AfterParent(f, parent, done) ==
    [names   |-> done.names \o f[Visit(parent, done.visited)].names,
     visited |-> f[Visit(parent, done.visited)].visited]

Own(schema, call) ==
    [names |-> NamesOf(Stored(schema, call.class)), visited |-> Entered(call)]

AboveSteps(h, schema, f, call) ==
    /\ h[0] = Own(schema, call)
    /\ \A n \in 1 .. Len(Supers(schema, call.class)) :
         h[n] = AfterParent(f, Supers(schema, call.class)[n], h[n - 1])

AboveTrace(h, schema, f, call) ==
    /\ AboveSteps(h, schema, f, call)
    /\ MembersAbove(schema, f, call) = h[Len(Supers(schema, call.class))]

AboveTyped(h, schema, call, P, Names) ==
    \A n \in 0 .. Len(Supers(schema, call.class)) :
      h[n] \in Collected(P, Names) /\ Entered(call) \subseteq h[n].visited

LEMMA MembersAboveIs ==
  ASSUME NEW schema, NEW f, NEW call, Len(Supers(schema, call.class)) \in Nat,
         NEW g, AboveSteps(g, schema, f, call)
  PROVE  AboveTrace(g, schema, f, call)
<1> DEFINE s == Supers(schema, call.class)
           N == Len(s)
           own == Own(schema, call)
           Run(h) == h = [n \in 0 .. N |-> IF n = 0 THEN own ELSE AfterParent(f, s[n], h[n - 1])]
           above == CHOOSE h : Run(h)
           X == {n \in 0 .. N : above[n] = g[n]}
<1>1. MembersAbove(schema, f, call) = above[N]
  BY DEF MembersAbove, AfterParent, Own
<1>2. g[0] = own /\ \A n \in 1 .. N : g[n] = AfterParent(f, s[n], g[n - 1])
  BY DEF AboveSteps
<1>3. N \in Nat /\ N \in 0 .. N
  OBVIOUS
<1> HIDE DEF s, N, own
<1>4. Run([n \in 0 .. N |-> g[n]])
  BY <1>2, <1>3
<1>5. Run(above)
  <2> HIDE DEF Run
  <2> QED  BY <1>4
<1>6. above[0] = own /\ \A n \in 1 .. N : above[n] = AfterParent(f, s[n], above[n - 1])
  <2> HIDE DEF above
  <2> QED  BY <1>3, <1>5
<1> HIDE DEF above
<1>7. 0 \in X
  BY <1>2, <1>3, <1>6
<1>8. ASSUME NEW n \in 1 .. N, n - 1 \in X PROVE n \in X
  <2>1. above[n] = AfterParent(f, s[n], above[n - 1]) /\ g[n] = AfterParent(f, s[n], g[n - 1])
    BY <1>2, <1>6
  <2>2. above[n - 1] = g[n - 1]
    BY <1>8
  <2>3. above[n] = g[n]
    BY <2>1, <2>2
  <2> QED  BY <1>3, <2>3
<1>9. N \in X
  <2> HIDE DEF X
  <2> QED  BY <1>3, <1>7, <1>8, InductionUpTo
<1> QED  BY <1>1, <1>9 DEF AboveTrace, N, s

LEMMA AboveRuns ==
  ASSUME NEW schema, NEW P, NEW Names, Walks(schema, P, Names),
         NEW f \in Collections(P, Names), NEW call \in Visits(P)
  PROVE  \E h : AboveTrace(h, schema, f, call) /\ AboveTyped(h, schema, call, P, Names)
<1> DEFINE s == Supers(schema, call.class)
           N == Len(s)
           D == Collected(P, Names)
           own == Own(schema, call)
           F == [done \in D |-> [parent \in P |-> AfterParent(f, parent, done)]]
<1>1. s \in Seq(P) /\ N \in Nat /\ \A n \in 1 .. N : s[n] \in P
  BY DEF Walks, Visits
<1>2. own \in D /\ own.visited = Entered(call)
  BY DEF Walks, Visits, Own, Entered, Collected
<1>3. ASSUME NEW done \in D, NEW parent \in P
      PROVE  /\ AfterParent(f, parent, done) \in D
             /\ done.visited \subseteq AfterParent(f, parent, done).visited
  <2>1. done.names \in Seq(Names) /\ done.visited \in SUBSET P
    BY DEF Collected
  <2> DEFINE r == f[Visit(parent, done.visited)]
  <2>2. r.names \in Seq(Names) /\ r.visited \in SUBSET P /\ done.visited \subseteq r.visited
    BY <2>1, CollectionsAre
  <2>3. AfterParent(f, parent, done) = [names |-> done.names \o r.names, visited |-> r.visited]
    BY DEF AfterParent
  <2> HIDE DEF r
  <2>4. done.names \o r.names \in Seq(Names)
    BY <2>1, <2>2
  <2> QED  BY <2>2, <2>3, <2>4 DEF Collected
<1> HIDE DEF D, N, s, own
<1>5. F \in StepFunction(D, P)
  BY <1>3 DEF StepFunction
<1>6. PICK g : IsTrace(g, D, F, own, s)
  <2> HIDE DEF F
  <2> QED  BY <1>1, <1>2, <1>5, TraceExists
<1>7. g \in [0 .. N -> D] /\ g[0] = own /\ \A n \in 1 .. N : g[n] = F[g[n - 1]][s[n]]
  <2> HIDE DEF F
  <2> QED  BY <1>6 DEF IsTrace, N
<1>8. ASSUME NEW n \in 1 .. N PROVE g[n] = AfterParent(f, s[n], g[n - 1])
  <2>1. g[n - 1] \in D /\ s[n] \in P
    BY <1>1, <1>7
  <2> QED  BY <1>7, <2>1
<1> HIDE DEF F
<1>9. AboveSteps(g, schema, f, call)
  BY <1>7, <1>8 DEF AboveSteps, N, s, own
<1>10. AboveTrace(g, schema, f, call)
  <2>1. Len(Supers(schema, call.class)) \in Nat
    BY <1>1 DEF N, s
  <2> QED  BY <1>9, <2>1, MembersAboveIs
<1>11. g[0] = own /\ \A n \in 1 .. N : g[n] = AfterParent(f, s[n], g[n - 1])
  BY <1>7, <1>8
<1>12. \A n \in 0 .. N : g[n] \in D /\ Entered(call) \subseteq g[n].visited
  <2> DEFINE X == {n \in 0 .. N : g[n] \in D /\ Entered(call) \subseteq g[n].visited}
  <2>1. 0 \in X
    BY <1>1, <1>2, <1>11
  <2>2. ASSUME NEW n \in 1 .. N, n - 1 \in X PROVE n \in X
    <3>1. g[n - 1] \in D /\ Entered(call) \subseteq g[n - 1].visited
      BY <2>2
    <3>2. g[n] = AfterParent(f, s[n], g[n - 1]) /\ s[n] \in P
      BY <1>1, <1>11
    <3>3. g[n] \in D /\ g[n - 1].visited \subseteq g[n].visited
      BY <1>3, <3>1, <3>2
    <3> QED  BY <3>1, <3>3
  <2>3. 0 .. N \subseteq X
    <3> HIDE DEF X
    <3> QED  BY <1>1, <2>1, <2>2, InductionUpTo
  <2> QED  BY <2>3
<1>13. AboveTyped(g, schema, call, P, Names)
  BY <1>12 DEF AboveTyped, N, s, D
<1> QED  BY <1>10, <1>13

LEMMA CollectType ==
  ASSUME NEW schema, NEW P, NEW Names, Walks(schema, P, Names),
         NEW f \in Collections(P, Names), NEW call \in Visits(P)
  PROVE  CollectMembers(schema, f, call) \in Collectable(P, Names)[call]
<1>1. PICK h : AboveTrace(h, schema, f, call) /\ AboveTyped(h, schema, call, P, Names)
  BY AboveRuns
<1> DEFINE all == MembersAbove(schema, f, call)
           steps == NamesOf(Navigable(schema, call.class))
<1>2. call.visited \in SUBSET P /\ call.class \in P
  BY DEF Visits
<1>3. Supers(schema, call.class) \in Seq(P) /\ steps \in Seq(Names)
  BY <1>2 DEF Walks
<1>4. Len(Supers(schema, call.class)) \in Nat
  BY <1>3
<1>5. all \in Collected(P, Names) /\ Entered(call) \subseteq all.visited
  BY <1>1, <1>4 DEF AboveTrace, AboveTyped
<1>6. all.names \in Seq(Names) /\ all.visited \in SUBSET P /\ call.visited \subseteq all.visited
  BY <1>5 DEF Collected, Entered
<1>7. CollectMembers(schema, f, call) =
        IF call.class \in call.visited THEN [names |-> <<>>, visited |-> call.visited]
        ELSE [names |-> all.names \o steps, visited |-> all.visited]
  BY DEF CollectMembers
<1> HIDE DEF all, steps
<1>8. all.names \o steps \in Seq(Names) /\ <<>> \in Seq(Names)
  BY <1>3, <1>6
<1>9. CollectMembers(schema, f, call) \in Collected(P, Names)
      /\ call.visited \subseteq CollectMembers(schema, f, call).visited
  BY <1>2, <1>6, <1>7, <1>8 DEF Collected
<1> QED  BY <1>9 DEF Collectable

LEMMA CollectDepends ==
  ASSUME NEW schema, NEW P, NEW Names, Walks(schema, P, Names),
         NEW f, NEW g \in Collections(P, Names), NEW call \in Visits(P),
         AgreeBelow(f, g, Visits(P), Left(P), call)
  PROVE  CollectMembers(schema, f, call) = CollectMembers(schema, g, call)
<1>1. PICK k : AboveTrace(k, schema, g, call) /\ AboveTyped(k, schema, call, P, Names)
  BY AboveRuns
<1> DEFINE s == Supers(schema, call.class)
           N == Len(s)
<1>2. s \in Seq(P) /\ N \in Nat /\ \A n \in 1 .. N : s[n] \in P
  BY DEF Walks, Visits
<1>3. CASE call.class \notin call.visited
  <2>1. ASSUME NEW n \in 1 .. N PROVE k[n] = AfterParent(f, s[n], k[n - 1])
    <3> DEFINE done == k[n - 1]
               next == Visit(s[n], done.visited)
    <3>1. done \in Collected(P, Names) /\ Entered(call) \subseteq done.visited
      BY <1>1, <1>2 DEF AboveTyped
    <3>2. done.visited \in SUBSET P /\ s[n] \in P
      BY <1>2, <3>1 DEF Collected
    <3>3. next \in Visits(P) /\ next.visited = done.visited
      BY <3>2 DEF Visits, Visit
    <3>4. Left(P)[next] < Left(P)[call]
      <4> HIDE DEF next, done
      <4> QED  BY <1>3, <3>1, <3>3, EnteredHasLess DEF Walks
    <3>5. f[next] = g[next]
      <4> HIDE DEF next
      <4> QED  BY <3>3, <3>4 DEF AgreeBelow
    <3>6. k[n] = AfterParent(g, s[n], done)
      BY <1>1, <2>1 DEF AboveTrace, AboveSteps
    <3> QED  BY <3>5, <3>6 DEF AfterParent
  <2>2. AboveSteps(k, schema, f, call)
    BY <1>1, <2>1 DEF AboveTrace, AboveSteps
  <2>3. AboveTrace(k, schema, f, call)
    BY <1>2, <2>2, MembersAboveIs
  <2>4. MembersAbove(schema, f, call) = MembersAbove(schema, g, call)
    BY <1>1, <2>3 DEF AboveTrace
  <2> QED  BY <2>4 DEF CollectMembers
<1>4. CASE call.class \in call.visited
  BY <1>4 DEF CollectMembers
<1> QED  BY <1>3, <1>4

\* The walk is a solution of its equation.
IsCollection(f, schema, P, Names) ==
    /\ f \in Collections(P, Names)
    /\ \A call \in Visits(P) : f[call] = CollectMembers(schema, f, call)

Solves(f, schema, P) == f = [call \in Visits(P) |-> CollectMembers(schema, f, call)]

LEMMA CollectionExists ==
  ASSUME NEW schema, NEW P, NEW Names, Walks(schema, P, Names)
  PROVE  \E f \in Collections(P, Names) : Solves(f, schema, P)
<1> DEFINE C == Visits(P)
           F == Results(C, Collected(P, Names), Collectable(P, Names))
           Phi == [f \in F |-> [call \in C |-> CollectMembers(schema, f, call)]]
           none == [call \in C |-> [names |-> <<>>, visited |-> call.visited]]
<1>1. IsFiniteSet(P) /\ F = Collections(P, Names)
  BY DEF Walks, Collections
<1>2. Left(P) \in [C -> 0 .. Cardinality(P)] /\ Cardinality(P) \in Nat
  BY <1>1, LeftType
<1>3. ASSUME NEW f \in F, NEW call \in C
      PROVE  CollectMembers(schema, f, call) \in Collected(P, Names)
             /\ CollectMembers(schema, f, call) \in Collectable(P, Names)[call]
  <2>1. CollectMembers(schema, f, call) \in Collectable(P, Names)[call]
    <3> HIDE DEF F
    <3> QED  BY <1>1, CollectType
  <2> QED  BY <2>1 DEF Collectable
<1>4. Phi \in [F -> F]
  <2> SUFFICES ASSUME NEW f \in F PROVE [call \in C |-> CollectMembers(schema, f, call)] \in F
    OBVIOUS
  <2> QED  BY <1>3 DEF Results
<1>5. ASSUME NEW f \in F, NEW g \in F, NEW call \in C, AgreeBelow(f, g, C, Left(P), call)
      PROVE  Phi[f][call] = Phi[g][call]
  <2>1. CollectMembers(schema, f, call) = CollectMembers(schema, g, call)
    <3> HIDE DEF F
    <3> QED  BY <1>1, <1>5, CollectDepends
  <2> QED  BY <2>1
<1>6. none \in F
  <2>1. \A call \in C : [names |-> <<>>, visited |-> call.visited] \in Collectable(P, Names)[call]
                        /\ [names |-> <<>>, visited |-> call.visited] \in Collected(P, Names)
    BY DEF Collectable, Collected, Visits
  <2> QED  BY <2>1 DEF Results
<1>7. IsRecursive(C, Collected(P, Names), Collectable(P, Names), Left(P), Phi)
  <2> HIDE DEF Phi, C, F
  <2>1. \A f, g \in F, c \in C : AgreeBelow(f, g, C, Left(P), c) => Phi[f][c] = Phi[g][c]
    BY <1>5
  <2> QED  BY <1>4, <2>1 DEF IsRecursive, F
<1>8. PICK f \in F : f = Phi[f]
  <2> HIDE DEF Phi, C
  <2>1. F # {}
    BY <1>6
  <2> QED  BY <1>2, <1>7, <2>1, RecursionExists
<1>9. Solves(f, schema, P)
  BY <1>8 DEF Solves
<1> QED  BY <1>1, <1>8, <1>9

(***************************************************************************)
(* The walk of resolve, for one name.                                      *)
(***************************************************************************)
Answers(schema, P, ident) ==
    {NotFound} \cup {FirstNamed(Stored(schema, c), ident) : c \in P}
               \cup {FirstNamed(Navigable(schema, c), ident) : c \in P}

Found(schema, P, ident) == [found : Answers(schema, P, ident), visited : SUBSET P]

Findable(schema, P, ident) ==
    [call \in Visits(P) |->
       {r \in Found(schema, P, ident) : call.visited \subseteq r.visited}]

Findings(schema, P, ident) ==
    Results(Visits(P), Found(schema, P, ident), Findable(schema, P, ident))

LEMMA FindingsAre ==
  ASSUME NEW schema, NEW P, NEW ident, NEW f \in Findings(schema, P, ident),
         NEW c \in P, NEW seen \in SUBSET P
  PROVE  /\ Visit(c, seen) \in Visits(P)
         /\ f[Visit(c, seen)] \in Found(schema, P, ident)
         /\ seen \subseteq f[Visit(c, seen)].visited
<1>1. Visit(c, seen) \in Visits(P) /\ Visit(c, seen).visited = seen
  BY DEF Visits, Visit
<1>2. f[Visit(c, seen)] \in Findable(schema, P, ident)[Visit(c, seen)]
  BY <1>1 DEF Findings, Results
<1> QED  BY <1>1, <1>2 DEF Findable

\* One more super-type asked, unless the name is found.
AfterAsking(f, parent, done) ==
    IF done.found # NotFound THEN done ELSE f[Visit(parent, done.visited)]

OwnFound(schema, call, ident) ==
    [found |-> FirstNamed(Stored(schema, call.class), ident), visited |-> Entered(call)]

AskSteps(h, schema, f, call, ident) ==
    /\ h[0] = OwnFound(schema, call, ident)
    /\ \A n \in 1 .. Len(Supers(schema, call.class)) :
         h[n] = AfterAsking(f, Supers(schema, call.class)[n], h[n - 1])

AskTrace(h, schema, f, call, ident) ==
    /\ AskSteps(h, schema, f, call, ident)
    /\ FoundAbove(schema, f, call, ident) = h[Len(Supers(schema, call.class))]

AskTyped(h, schema, call, P, ident) ==
    \A n \in 0 .. Len(Supers(schema, call.class)) :
      h[n] \in Found(schema, P, ident) /\ Entered(call) \subseteq h[n].visited

LEMMA FoundAboveIs ==
  ASSUME NEW schema, NEW f, NEW call, Len(Supers(schema, call.class)) \in Nat, NEW ident,
         NEW g, AskSteps(g, schema, f, call, ident)
  PROVE  AskTrace(g, schema, f, call, ident)
<1> DEFINE s == Supers(schema, call.class)
           N == Len(s)
           own == OwnFound(schema, call, ident)
           Run(h) == h = [n \in 0 .. N |-> IF n = 0 THEN own ELSE AfterAsking(f, s[n], h[n - 1])]
           above == CHOOSE h : Run(h)
           X == {n \in 0 .. N : above[n] = g[n]}
<1>1. FoundAbove(schema, f, call, ident) = above[N]
  BY DEF FoundAbove, AfterAsking, OwnFound
<1>2. g[0] = own /\ \A n \in 1 .. N : g[n] = AfterAsking(f, s[n], g[n - 1])
  BY DEF AskSteps
<1>3. N \in Nat /\ N \in 0 .. N
  OBVIOUS
<1> HIDE DEF s, N, own
<1>4. Run([n \in 0 .. N |-> g[n]])
  BY <1>2, <1>3
<1>5. Run(above)
  <2> HIDE DEF Run
  <2> QED  BY <1>4
<1>6. above[0] = own /\ \A n \in 1 .. N : above[n] = AfterAsking(f, s[n], above[n - 1])
  <2> HIDE DEF above
  <2> QED  BY <1>3, <1>5
<1> HIDE DEF above
<1>7. 0 \in X
  BY <1>2, <1>3, <1>6
<1>8. ASSUME NEW n \in 1 .. N, n - 1 \in X PROVE n \in X
  <2>1. above[n] = AfterAsking(f, s[n], above[n - 1]) /\ g[n] = AfterAsking(f, s[n], g[n - 1])
    BY <1>2, <1>6
  <2>2. above[n - 1] = g[n - 1]
    BY <1>8
  <2>3. above[n] = g[n]
    BY <2>1, <2>2
  <2> QED  BY <1>3, <2>3
<1>9. N \in X
  <2> HIDE DEF X
  <2> QED  BY <1>3, <1>7, <1>8, InductionUpTo
<1> QED  BY <1>1, <1>9 DEF AskTrace, N, s

LEMMA AskRuns ==
  ASSUME NEW schema, NEW P, NEW Names, Walks(schema, P, Names), NEW ident,
         NEW f \in Findings(schema, P, ident), NEW call \in Visits(P)
  PROVE  \E h : AskTrace(h, schema, f, call, ident) /\ AskTyped(h, schema, call, P, ident)
<1> DEFINE s == Supers(schema, call.class)
           N == Len(s)
           D == Found(schema, P, ident)
           own == OwnFound(schema, call, ident)
           F == [done \in D |-> [parent \in P |-> AfterAsking(f, parent, done)]]
<1>1. s \in Seq(P) /\ N \in Nat /\ \A n \in 1 .. N : s[n] \in P
  BY DEF Walks, Visits
<1>2. own \in D /\ own.visited = Entered(call)
  <2>1. call.class \in P /\ call.visited \in SUBSET P
    BY DEF Visits
  <2> QED  BY <2>1 DEF OwnFound, Entered, Found, Answers
<1>3. ASSUME NEW done \in D, NEW parent \in P
      PROVE  /\ AfterAsking(f, parent, done) \in D
             /\ done.visited \subseteq AfterAsking(f, parent, done).visited
  <2>1. done.visited \in SUBSET P
    BY DEF Found
  <2> QED  BY <2>1, FindingsAre DEF AfterAsking
<1> HIDE DEF D, N, s, own
<1>5. F \in StepFunction(D, P)
  BY <1>3 DEF StepFunction
<1>6. PICK g : IsTrace(g, D, F, own, s)
  <2> HIDE DEF F
  <2> QED  BY <1>1, <1>2, <1>5, TraceExists
<1>7. g \in [0 .. N -> D] /\ g[0] = own /\ \A n \in 1 .. N : g[n] = F[g[n - 1]][s[n]]
  <2> HIDE DEF F
  <2> QED  BY <1>6 DEF IsTrace, N
<1>8. ASSUME NEW n \in 1 .. N PROVE g[n] = AfterAsking(f, s[n], g[n - 1])
  <2>1. g[n - 1] \in D /\ s[n] \in P
    BY <1>1, <1>7
  <2> QED  BY <1>7, <2>1
<1> HIDE DEF F
<1>9. AskSteps(g, schema, f, call, ident)
  BY <1>7, <1>8 DEF AskSteps, N, s, own
<1>10. AskTrace(g, schema, f, call, ident)
  <2>1. Len(Supers(schema, call.class)) \in Nat
    BY <1>1 DEF N, s
  <2> QED  BY <1>9, <2>1, FoundAboveIs
<1>11. g[0] = own /\ \A n \in 1 .. N : g[n] = AfterAsking(f, s[n], g[n - 1])
  BY <1>7, <1>8
<1>12. \A n \in 0 .. N : g[n] \in D /\ Entered(call) \subseteq g[n].visited
  <2> DEFINE X == {n \in 0 .. N : g[n] \in D /\ Entered(call) \subseteq g[n].visited}
  <2>1. 0 \in X
    BY <1>1, <1>2, <1>11
  <2>2. ASSUME NEW n \in 1 .. N, n - 1 \in X PROVE n \in X
    <3>1. g[n - 1] \in D /\ Entered(call) \subseteq g[n - 1].visited
      BY <2>2
    <3>2. g[n] = AfterAsking(f, s[n], g[n - 1]) /\ s[n] \in P
      BY <1>1, <1>11
    <3>3. g[n] \in D /\ g[n - 1].visited \subseteq g[n].visited
      BY <1>3, <3>1, <3>2
    <3> QED  BY <3>1, <3>3
  <2>3. 0 .. N \subseteq X
    <3> HIDE DEF X
    <3> QED  BY <1>1, <2>1, <2>2, InductionUpTo
  <2> QED  BY <2>3
<1>13. AskTyped(g, schema, call, P, ident)
  BY <1>12 DEF AskTyped, N, s, D
<1> QED  BY <1>10, <1>13

LEMMA FindType ==
  ASSUME NEW schema, NEW P, NEW Names, Walks(schema, P, Names), NEW ident,
         NEW f \in Findings(schema, P, ident), NEW call \in Visits(P)
  PROVE  ResolveIn(schema, f, call, ident) \in Findable(schema, P, ident)[call]
<1>1. PICK h : AskTrace(h, schema, f, call, ident) /\ AskTyped(h, schema, call, P, ident)
  BY AskRuns
<1> DEFINE above == FoundAbove(schema, f, call, ident)
           last  == FirstNamed(Navigable(schema, call.class), ident)
<1>2. call.visited \in SUBSET P /\ call.class \in P
  BY DEF Visits
<1>3. Len(Supers(schema, call.class)) \in Nat
  BY <1>2 DEF Walks
<1>4. above \in Found(schema, P, ident) /\ Entered(call) \subseteq above.visited
  BY <1>1, <1>3 DEF AskTrace, AskTyped
<1>5. above.visited \in SUBSET P /\ call.visited \subseteq above.visited
  BY <1>4 DEF Found, Entered
<1>6. last \in Answers(schema, P, ident) /\ NotFound \in Answers(schema, P, ident)
  BY <1>2 DEF Answers
<1>7. ResolveIn(schema, f, call, ident) =
        IF call.class \in call.visited THEN [found |-> NotFound, visited |-> call.visited]
        ELSE IF above.found # NotFound THEN above
        ELSE [found |-> last, visited |-> above.visited]
  BY DEF ResolveIn
<1> HIDE DEF above, last
<1>8. ResolveIn(schema, f, call, ident) \in Found(schema, P, ident)
      /\ call.visited \subseteq ResolveIn(schema, f, call, ident).visited
  BY <1>2, <1>4, <1>5, <1>6, <1>7 DEF Found
<1> QED  BY <1>8 DEF Findable

LEMMA FindDepends ==
  ASSUME NEW schema, NEW P, NEW Names, Walks(schema, P, Names), NEW ident,
         NEW f, NEW g \in Findings(schema, P, ident),
         NEW call \in Visits(P), AgreeBelow(f, g, Visits(P), Left(P), call)
  PROVE  ResolveIn(schema, f, call, ident) = ResolveIn(schema, g, call, ident)
<1>1. PICK k : AskTrace(k, schema, g, call, ident) /\ AskTyped(k, schema, call, P, ident)
  BY AskRuns
<1> DEFINE s == Supers(schema, call.class)
           N == Len(s)
<1>2. s \in Seq(P) /\ N \in Nat /\ \A n \in 1 .. N : s[n] \in P
  BY DEF Walks, Visits
<1>3. CASE call.class \notin call.visited
  <2>1. ASSUME NEW n \in 1 .. N PROVE k[n] = AfterAsking(f, s[n], k[n - 1])
    <3> DEFINE done == k[n - 1]
               next == Visit(s[n], done.visited)
    <3>1. done \in Found(schema, P, ident) /\ Entered(call) \subseteq done.visited
      BY <1>1, <1>2 DEF AskTyped
    <3>2. done.visited \in SUBSET P /\ s[n] \in P
      BY <1>2, <3>1 DEF Found
    <3>3. next \in Visits(P) /\ next.visited = done.visited
      BY <3>2 DEF Visits, Visit
    <3>4. Left(P)[next] < Left(P)[call]
      <4> HIDE DEF next, done
      <4> QED  BY <1>3, <3>1, <3>3, EnteredHasLess DEF Walks
    <3>5. f[next] = g[next]
      <4> HIDE DEF next
      <4> QED  BY <3>3, <3>4 DEF AgreeBelow
    <3>6. k[n] = AfterAsking(g, s[n], done)
      BY <1>1, <2>1 DEF AskTrace, AskSteps
    <3> QED  BY <3>5, <3>6 DEF AfterAsking
  <2>2. AskSteps(k, schema, f, call, ident)
    BY <1>1, <2>1 DEF AskTrace, AskSteps
  <2>3. AskTrace(k, schema, f, call, ident)
    BY <1>2, <2>2, FoundAboveIs
  <2>4. FoundAbove(schema, f, call, ident) = FoundAbove(schema, g, call, ident)
    BY <1>1, <2>3 DEF AskTrace
  <2> QED  BY <2>4 DEF ResolveIn
<1>4. CASE call.class \in call.visited
  BY <1>4 DEF ResolveIn
<1> QED  BY <1>3, <1>4

Finds(f, schema, P, ident) == f = [call \in Visits(P) |-> ResolveIn(schema, f, call, ident)]

LEMMA FindingExists ==
  ASSUME NEW schema, NEW P, NEW Names, Walks(schema, P, Names), NEW ident
  PROVE  \E f \in Findings(schema, P, ident) : Finds(f, schema, P, ident)
<1> DEFINE C == Visits(P)
           V == Found(schema, P, ident)
           R == Findable(schema, P, ident)
           F == Results(C, V, R)
           Phi == [f \in F |-> [call \in C |-> ResolveIn(schema, f, call, ident)]]
           none == [call \in C |-> [found |-> NotFound, visited |-> call.visited]]
<1>1. IsFiniteSet(P) /\ F = Findings(schema, P, ident)
  BY DEF Walks, Findings
<1>2. Left(P) \in [C -> 0 .. Cardinality(P)] /\ Cardinality(P) \in Nat
  BY <1>1, LeftType
<1>3. ASSUME NEW f \in F, NEW call \in C
      PROVE  ResolveIn(schema, f, call, ident) \in V /\ ResolveIn(schema, f, call, ident) \in R[call]
  <2>1. ResolveIn(schema, f, call, ident) \in R[call]
    <3> HIDE DEF F
    <3> QED  BY <1>1, FindType
  <2> QED  BY <2>1 DEF Findable
<1>4. Phi \in [F -> F]
  <2> SUFFICES ASSUME NEW f \in F PROVE [call \in C |-> ResolveIn(schema, f, call, ident)] \in F
    OBVIOUS
  <2> QED  BY <1>3 DEF Results
<1>5. ASSUME NEW f \in F, NEW g \in F, NEW call \in C, AgreeBelow(f, g, C, Left(P), call)
      PROVE  Phi[f][call] = Phi[g][call]
  <2>1. ResolveIn(schema, f, call, ident) = ResolveIn(schema, g, call, ident)
    <3> HIDE DEF F
    <3> QED  BY <1>1, <1>5, FindDepends
  <2> QED  BY <2>1
<1>6. none \in F
  <2>1. \A call \in C : [found |-> NotFound, visited |-> call.visited] \in R[call]
                        /\ [found |-> NotFound, visited |-> call.visited] \in V
    BY DEF Findable, Found, Visits, Answers
  <2> QED  BY <2>1 DEF Results
<1>7. IsRecursive(C, V, R, Left(P), Phi)
  <2> HIDE DEF Phi, C, F
  <2>1. \A f, g \in F, c \in C : AgreeBelow(f, g, C, Left(P), c) => Phi[f][c] = Phi[g][c]
    BY <1>5
  <2> QED  BY <1>4, <2>1 DEF IsRecursive, F
<1>8. PICK f \in F : f = Phi[f]
  <2> HIDE DEF Phi, C, V, R
  <2>1. F # {}
    BY <1>6
  <2> QED  BY <1>2, <1>7, <2>1, RecursionExists
<1>9. Finds(f, schema, P, ident)
  BY <1>8 DEF Finds
<1> QED  BY <1>1, <1>8, <1>9

(***************************************************************************)
(* The two walks side by side.  Until the name is found they visit the     *)
(* same classes, and it is found exactly when it is collected.             *)
(***************************************************************************)
Agrees(collected, found, ident) ==
    IF found.found = NotFound
    THEN ident \notin ToSet(collected.names) /\ found.visited = collected.visited
    ELSE ident \in ToSet(collected.names)

Named(s, ident) == {i \in DOMAIN s : s[i].name = ident}

LEMMA MinNamed ==
  ASSUME NEW s, IsList(s), NEW ident, Named(s, ident) # {}
  PROVE  Min(Named(s, ident)) \in Named(s, ident)
<1> DEFINE named == Named(s, ident)
           X == {n \in 0 .. Len(s) : (\E i \in named : i <= n)
                                       => \E m \in named : \A i \in named : m <= i}
<1>1. named \subseteq 1 .. Len(s) /\ Len(s) \in Nat /\ Len(s) \in 0 .. Len(s)
  BY DEF IsList, Named
<1>2. 0 \in X
  BY <1>1
<1>3. ASSUME NEW n \in 1 .. Len(s), n - 1 \in X PROVE n \in X
  <2> HIDE DEF named
  <2> SUFFICES ASSUME NEW i \in named, i <= n, ~ \E j \in named : j <= n - 1
               PROVE  \E m \in named : \A j \in named : m <= j
    BY <1>1, <1>3
  <2>1. \A j \in named : i <= j
    BY <1>1
  <2> QED  BY <2>1
<1>4. Len(s) \in X
  <2> HIDE DEF X
  <2> QED  BY <1>1, <1>2, <1>3, InductionUpTo
<1>5. PICK m \in named : \A i \in named : m <= i
  BY <1>1, <1>4
<1> HIDE DEF named
<1>6. Min(named) \in named
  BY <1>5 DEF Min
<1> QED  BY <1>6 DEF named

LEMMA TypeIsFound == \A type : IsPropType(type) => type # NotFound
  BY DEF IsPropType, NotFound

LEMMA FirstNamedIs ==
  ASSUME NEW s, IsProperties(s), NEW ident
  PROVE  FirstNamed(s, ident) # NotFound <=> ident \in ToSet(NamesOf(s))
<1> DEFINE named == Named(s, ident)
<1>1. IsList(s) /\ \A i \in DOMAIN s : s[i].type # NotFound
  BY TypeIsFound DEF IsProperties
<1>2. ident \in ToSet(NamesOf(s)) <=> named # {}
  BY DEF ToSet, NamesOf, Named
<1>3. FirstNamed(s, ident) = IF named = {} THEN NotFound ELSE s[Min(named)].type
  BY DEF FirstNamed, Named
<1>4. CASE named = {}
  BY <1>2, <1>3, <1>4
<1>5. CASE named # {}
  <2>1. Min(named) \in named
    BY <1>1, <1>5, MinNamed
  <2>2. Min(named) \in DOMAIN s
    BY <2>1 DEF Named
  <2> QED  BY <1>1, <1>2, <1>3, <1>5, <2>2
<1> QED  BY <1>4, <1>5

LEMMA InJoin ==
  ASSUME NEW T, NEW a \in Seq(T), NEW b \in Seq(T)
  PROVE  ToSet(a \o b) = ToSet(a) \cup ToSet(b)
<1>1. ToSet(a \o b) \subseteq ToSet(a) \cup ToSet(b)
  BY DEF ToSet
<1>2. ToSet(a) \subseteq ToSet(a \o b)
  BY DEF ToSet
<1>3. ASSUME NEW i \in DOMAIN b PROVE b[i] \in ToSet(a \o b)
  <2>1. i + Len(a) \in DOMAIN (a \o b) /\ (a \o b)[i + Len(a)] = b[i]
    OBVIOUS
  <2> QED  BY <2>1 DEF ToSet
<1>4. ToSet(b) \subseteq ToSet(a \o b)
  BY <1>3 DEF ToSet
<1> QED  BY <1>1, <1>2, <1>4

SoundCalls(schema, P, collect, find, ident) ==
    {call \in Visits(P) : Agrees(collect[call], find[call], ident)}

LEMMA AboveAgrees ==
  ASSUME NEW schema, IsSchema(schema), NEW P, NEW Names, Walks(schema, P, Names), NEW ident,
         NEW collect \in Collections(P, Names), NEW find \in Findings(schema, P, ident),
         NEW call \in Visits(P), call.class \notin call.visited,
         \A d \in Visits(P) : Left(P)[d] < Left(P)[call] => Agrees(collect[d], find[d], ident)
  PROVE  /\ Agrees(MembersAbove(schema, collect, call),
                   FoundAbove(schema, find, call, ident), ident)
         /\ MembersAbove(schema, collect, call) \in Collected(P, Names)
<1>1. PICK h : AboveTrace(h, schema, collect, call) /\ AboveTyped(h, schema, call, P, Names)
  BY AboveRuns
<1>2. PICK k : AskTrace(k, schema, find, call, ident) /\ AskTyped(k, schema, call, P, ident)
  BY AskRuns
<1> DEFINE s == Supers(schema, call.class)
           N == Len(s)
           X == {n \in 0 .. N : Agrees(h[n], k[n], ident)}
<1>3. s \in Seq(P) /\ N \in Nat /\ \A n \in 1 .. N : s[n] \in P
  BY DEF Walks, Visits
<1>4. Agrees(h[0], k[0], ident)
  <2>1. h[0].names = NamesOf(Stored(schema, call.class)) /\ h[0].visited = Entered(call)
        /\ k[0].found = FirstNamed(Stored(schema, call.class), ident)
        /\ k[0].visited = Entered(call)
    BY <1>1, <1>2 DEF AboveTrace, AskTrace, AboveSteps, AskSteps, Own, OwnFound
  <2>2. k[0].found # NotFound <=> ident \in ToSet(h[0].names)
    BY <2>1, StoredIsList, FirstNamedIs
  <2> QED  BY <2>1, <2>2 DEF Agrees
<1>5. ASSUME NEW n \in 1 .. N, Agrees(h[n - 1], k[n - 1], ident)
      PROVE  Agrees(h[n], k[n], ident)
  <2> DEFINE done == h[n - 1]
             next == Visit(s[n], done.visited)
  <2>1. done \in Collected(P, Names) /\ Entered(call) \subseteq done.visited
    BY <1>1, <1>3 DEF AboveTyped
  <2>2. done.names \in Seq(Names) /\ done.visited \in SUBSET P /\ s[n] \in P
    BY <1>3, <2>1 DEF Collected
  <2>3. next \in Visits(P) /\ next.visited = done.visited
    BY <2>2 DEF Visits, Visit
  <2>4. Left(P)[next] < Left(P)[call]
    <3> HIDE DEF next, done
    <3> QED  BY <2>1, <2>3, EnteredHasLess DEF Walks
  <2>5. Agrees(collect[next], find[next], ident)
    <3> HIDE DEF next
    <3> QED  BY <2>3, <2>4
  <2>6. h[n].names = done.names \o collect[next].names /\ h[n].visited = collect[next].visited
    <3>1. h[n] = AfterParent(collect, s[n], done)
      BY <1>1, <1>5 DEF AboveTrace, AboveSteps
    <3> DEFINE both == done.names \o collect[next].names
    <3>2. h[n] = [names |-> both, visited |-> collect[next].visited]
      BY <3>1 DEF AfterParent
    <3> HIDE DEF both
    <3>3. h[n].names = both /\ h[n].visited = collect[next].visited
      BY <3>2
    <3> QED  BY <3>3 DEF both
  <2>7. k[n] = IF k[n - 1].found # NotFound THEN k[n - 1]
               ELSE find[Visit(s[n], k[n - 1].visited)]
    BY <1>2, <1>5 DEF AskTrace, AskSteps, AfterAsking
  <2>8. collect[next].names \in Seq(Names)
    BY <2>2, CollectionsAre
  <2>9. ToSet(h[n].names) = ToSet(done.names) \cup ToSet(collect[next].names)
    <3> HIDE DEF done, next
    <3> QED  BY <2>2, <2>6, <2>8, InJoin
  <2>10. CASE k[n - 1].found # NotFound
    BY <1>5, <2>7, <2>9, <2>10 DEF Agrees
  <2>11. CASE k[n - 1].found = NotFound
    <3>1. ident \notin ToSet(done.names) /\ k[n] = find[next]
      BY <1>5, <2>7, <2>11 DEF Agrees
    <3> HIDE DEF done, next
    <3> QED  BY <2>5, <2>6, <2>9, <3>1 DEF Agrees
  <2> QED  BY <2>10, <2>11
<1>6. N \in X
  <2>1. N \in Nat /\ N \in 0 .. N
    BY <1>3
  <2>2. 0 \in X
    BY <1>3, <1>4
  <2>3. ASSUME NEW n \in 1 .. N, n - 1 \in X PROVE n \in X
    BY <1>3, <1>5, <2>3
  <2> HIDE DEF X, N
  <2> QED  BY <2>1, <2>2, <2>3, InductionUpTo
<1> QED  BY <1>1, <1>2, <1>3, <1>6 DEF AboveTrace, AboveTyped, AskTrace

LEMMA CallAgrees ==
  ASSUME NEW schema, IsSchema(schema), NEW P, NEW Names, Walks(schema, P, Names), NEW ident,
         NEW collect \in Collections(P, Names), NEW find \in Findings(schema, P, ident),
         NEW call \in Visits(P),
         \A d \in Visits(P) : Left(P)[d] < Left(P)[call] => Agrees(collect[d], find[d], ident)
  PROVE  Agrees(CollectMembers(schema, collect, call),
                ResolveIn(schema, find, call, ident), ident)
<1> DEFINE all   == MembersAbove(schema, collect, call)
           above == FoundAbove(schema, find, call, ident)
           steps == Navigable(schema, call.class)
<1>1. NamesOf(steps) \in Seq(Names)
  BY DEF Walks, Visits
<1>2. CASE call.class \notin call.visited
  <2>1. Agrees(all, above, ident) /\ all \in Collected(P, Names)
    BY <1>2, AboveAgrees
  <2>2. CollectMembers(schema, collect, call)
          = [names |-> all.names \o NamesOf(steps), visited |-> all.visited]
    BY <1>2 DEF CollectMembers
  <2>3. ResolveIn(schema, find, call, ident)
          = IF above.found # NotFound THEN above
            ELSE [found |-> FirstNamed(steps, ident), visited |-> above.visited]
    BY <1>2 DEF ResolveIn
  <2>4. FirstNamed(steps, ident) # NotFound <=> ident \in ToSet(NamesOf(steps))
    BY NavigableIsList, FirstNamedIs
  <2> HIDE DEF all, above, steps
  <2>5. ToSet(all.names \o NamesOf(steps)) = ToSet(all.names) \cup ToSet(NamesOf(steps))
    BY <1>1, <2>1, InJoin DEF Collected
  <2> QED  BY <2>1, <2>2, <2>3, <2>4, <2>5 DEF Agrees
<1>3. CASE call.class \in call.visited
  BY <1>3 DEF CollectMembers, ResolveIn, Agrees, ToSet
<1> QED  BY <1>2, <1>3

\* Every solution of the equations of the walks is the one that exists.
LEMMA CollectionUnique ==
  ASSUME NEW schema, NEW P, NEW Names, Walks(schema, P, Names),
         NEW f, Solves(f, schema, P)
  PROVE  f \in Collections(P, Names)
<1>1. PICK g \in Collections(P, Names) : Solves(g, schema, P)
  BY CollectionExists
<1> DEFINE X == {call \in Visits(P) : f[call] = g[call]}
<1>2. IsFiniteSet(P) /\ f \in [Visits(P) -> {f[c] : c \in Visits(P)}]
      /\ g \in [Visits(P) -> {g[c] : c \in Visits(P)}]
  BY <1>1 DEF Walks, Solves
<1>3. ASSUME NEW c \in Visits(P), \A d \in Visits(P) : Left(P)[d] < Left(P)[c] => d \in X
      PROVE  c \in X
  <2>1. AgreeBelow(f, g, Visits(P), Left(P), c)
    BY <1>3 DEF AgreeBelow
  <2>2. CollectMembers(schema, f, c) = CollectMembers(schema, g, c)
    BY <1>1, <2>1, CollectDepends
  <2>3. f[c] = CollectMembers(schema, f, c) /\ g[c] = CollectMembers(schema, g, c)
    BY <1>1 DEF Solves
  <2> QED  BY <2>2, <2>3
<1>4. Visits(P) \subseteq X
  <2> HIDE DEF X
  <2>1. Left(P) \in [Visits(P) -> 0 .. Cardinality(P)] /\ Cardinality(P) \in Nat
    BY <1>2, LeftType
  <2> QED  BY <1>3, <2>1, RankInduction
<1>5. f = g
  BY <1>2, <1>4
<1> QED  BY <1>1, <1>5

LEMMA FindingUnique ==
  ASSUME NEW schema, NEW P, NEW Names, Walks(schema, P, Names), NEW ident,
         NEW f, Finds(f, schema, P, ident)
  PROVE  f \in Findings(schema, P, ident)
<1>1. PICK g \in Findings(schema, P, ident) : Finds(g, schema, P, ident)
  BY FindingExists
<1> DEFINE X == {call \in Visits(P) : f[call] = g[call]}
<1>2. IsFiniteSet(P) /\ f \in [Visits(P) -> {f[c] : c \in Visits(P)}]
      /\ g \in [Visits(P) -> {g[c] : c \in Visits(P)}]
  BY <1>1 DEF Walks, Finds
<1>3. ASSUME NEW c \in Visits(P), \A d \in Visits(P) : Left(P)[d] < Left(P)[c] => d \in X
      PROVE  c \in X
  <2>1. AgreeBelow(f, g, Visits(P), Left(P), c)
    BY <1>3 DEF AgreeBelow
  <2>2. ResolveIn(schema, f, c, ident) = ResolveIn(schema, g, c, ident)
    BY <1>1, <2>1, FindDepends
  <2>3. f[c] = ResolveIn(schema, f, c, ident) /\ g[c] = ResolveIn(schema, g, c, ident)
    BY <1>1 DEF Finds
  <2> QED  BY <2>2, <2>3
<1>4. Visits(P) \subseteq X
  <2> HIDE DEF X
  <2>1. Left(P) \in [Visits(P) -> 0 .. Cardinality(P)] /\ Cardinality(P) \in Nat
    BY <1>2, LeftType
  <2> QED  BY <1>3, <2>1, RankInduction
<1>5. f = g
  BY <1>2, <1>4
<1> QED  BY <1>1, <1>5

LEMMA CollectOf ==
  ASSUME NEW schema, NEW class, NEW Names, Walks(schema, Paths(schema, class), Names)
  PROVE  \E f \in Collections(Paths(schema, class), Names) :
           /\ Solves(f, schema, Paths(schema, class))
           /\ MemberNames(schema, class) = f[Visit(class, {})].names
<1> DEFINE P == Paths(schema, class)
           collect == CHOOSE f : Solves(f, schema, P)
<1>1. MemberNames(schema, class) = collect[Visit(class, {})].names
  BY DEF MemberNames, Solves
<1>2. \E f : Solves(f, schema, P)
  BY CollectionExists
<1>3. Solves(collect, schema, P)
  BY <1>2
<1> HIDE DEF collect
<1>4. collect \in Collections(P, Names)
  BY <1>3, CollectionUnique
<1> QED  BY <1>1, <1>3, <1>4

LEMMA FindOf ==
  ASSUME NEW schema, NEW class, NEW Names, Walks(schema, Paths(schema, class), Names), NEW ident
  PROVE  \E f \in Findings(schema, Paths(schema, class), ident) :
           /\ Finds(f, schema, Paths(schema, class), ident)
           /\ Resolve(schema, class, ident) = f[Visit(class, {})].found
<1> DEFINE P == Paths(schema, class)
           find == CHOOSE f : Finds(f, schema, P, ident)
<1>1. Resolve(schema, class, ident) = find[Visit(class, {})].found
  BY DEF Resolve, Finds
<1>2. \E f : Finds(f, schema, P, ident)
  BY FindingExists
<1>3. Finds(find, schema, P, ident)
  BY <1>2
<1> HIDE DEF find
<1>4. find \in Findings(schema, P, ident)
  BY <1>3, FindingUnique
<1> QED  BY <1>1, <1>3, <1>4

MemberSet(schema, P) ==
    UNION {ToSet(NamesOf(Stored(schema, c))) \cup ToSet(NamesOf(Navigable(schema, c))) : c \in P}

LEMMA SchemaWalks ==
  ASSUME NEW schema, IsSchema(schema), NEW class
  PROVE  Walks(schema, Paths(schema, class), MemberSet(schema, Paths(schema, class)))
<1> DEFINE P == Paths(schema, class)
           M == MemberSet(schema, P)
<1>1. IsFiniteSet(P)
  BY PathsFinite
<1>2. ASSUME NEW s, IsProperties(s), ToSet(NamesOf(s)) \subseteq M
      PROVE  NamesOf(s) \in Seq(M)
  <2>1. \A i \in DOMAIN s : s[i].name \in M
    BY <1>2 DEF ToSet, NamesOf
  <2> HIDE DEF M
  <2> QED  BY <1>2, <2>1, NamesOfList
<1>3. ASSUME NEW c \in P
      PROVE  /\ Supers(schema, c) \in Seq(P)
             /\ NamesOf(Stored(schema, c)) \in Seq(M)
             /\ NamesOf(Navigable(schema, c)) \in Seq(M)
  <2>1. ToSet(NamesOf(Stored(schema, c))) \subseteq M
        /\ ToSet(NamesOf(Navigable(schema, c))) \subseteq M
    BY DEF MemberSet
  <2>2. IsProperties(Stored(schema, c)) /\ IsProperties(Navigable(schema, c))
    BY StoredIsList, NavigableIsList
  <2>3. Supers(schema, c) \in Seq(P)
    BY ParentsArePaths
  <2> HIDE DEF M, P
  <2> QED  BY <1>2, <2>1, <2>2, <2>3
<1> QED  BY <1>1, <1>3 DEF Walks

\* The two walks agree on every call.
LEMMA SolutionsAgree ==
  ASSUME NEW schema, IsSchema(schema), NEW P, NEW Names, Walks(schema, P, Names), NEW ident,
         NEW collect \in Collections(P, Names), Solves(collect, schema, P),
         NEW find \in Findings(schema, P, ident), Finds(find, schema, P, ident)
  PROVE  \A call \in Visits(P) : Agrees(collect[call], find[call], ident)
<1> DEFINE X == {call \in Visits(P) : Agrees(collect[call], find[call], ident)}
<1>1. IsFiniteSet(P)
  BY DEF Walks
<1>2. ASSUME NEW c \in Visits(P), \A d \in Visits(P) : Left(P)[d] < Left(P)[c] => d \in X
      PROVE  c \in X
  <2>1. Agrees(CollectMembers(schema, collect, c), ResolveIn(schema, find, c, ident), ident)
    BY <1>2, CallAgrees
  <2>2. collect[c] = CollectMembers(schema, collect, c) /\ find[c] = ResolveIn(schema, find, c, ident)
    BY DEF Solves, Finds
  <2> QED  BY <2>1, <2>2
<1>3. Visits(P) \subseteq X
  <2> HIDE DEF X
  <2>1. Left(P) \in [Visits(P) -> 0 .. Cardinality(P)] /\ Cardinality(P) \in Nat
    BY <1>1, LeftType
  <2> QED  BY <1>2, <2>1, RankInduction
<1> QED  BY <1>3

LEMMA WalksAgree ==
  ASSUME NEW schema, IsSchema(schema), NEW class, NEW ident
  PROVE  ident \in ToSet(MemberNames(schema, class))
           <=> Resolve(schema, class, ident) # NotFound
<1> DEFINE P == Paths(schema, class)
           Names == MemberSet(schema, P)
           first == Visit(class, {})
<1>1. Walks(schema, P, Names)
  BY SchemaWalks
<1> HIDE DEF Names
<1>2. PICK collect \in Collections(P, Names) :
        Solves(collect, schema, P) /\ MemberNames(schema, class) = collect[first].names
  BY <1>1, CollectOf
<1>3. PICK find \in Findings(schema, P, ident) :
        Finds(find, schema, P, ident) /\ Resolve(schema, class, ident) = find[first].found
  BY <1>1, FindOf
<1>4. first \in Visits(P)
  BY DEF Visits, Visit, Paths
<1> HIDE DEF P, first
<1>5. Agrees(collect[first], find[first], ident)
  BY <1>1, <1>2, <1>3, <1>4, SolutionsAgree
<1> QED  BY <1>2, <1>3, <1>5 DEF Agrees
-----------------------------------------------------------------------------
NavInv == IsSchema(nav_schema)

LEMMA NavInvariant == NavSpec => []NavInv
<1>1. NavInit => NavInv
  BY SchemasAssumption DEF NavInit, NavInv
<1>2. NavInv /\ [NavNext]_nav_vars => NavInv'
  BY DEF NavInv, NavNext, nav_vars, Start, Follow, Stop
<1> QED  BY <1>1, <1>2, PTL DEF NavSpec

(***************************************************************************)
(* Whatever the schema, cycles and diamonds of super-types included, the   *)
(* names the narrower admits for a class are exactly those the scope       *)
(* machine resolves from it: the visited lists of the two walks differ,    *)
(* since one of them stops early, and no name is lost to either (model.rs  *)
(* 309-384).                                                               *)
(***************************************************************************)
THEOREM WalksAgreeInvariant == NavSpec => []MembersAreWhatResolves
<1>1. NavInv => MembersAreWhatResolves
  BY WalksAgree DEF NavInv, MembersAreWhatResolves
<1> QED  BY <1>1, NavInvariant, PTL

(***************************************************************************)
(* What a call collects: the members of the classes it is the first to     *)
(* visit, all of them reached from its class, and of all they inherit from.*)
(***************************************************************************)
HasMember(schema, c, ident) ==
    \/ ident \in ToSet(NamesOf(Stored(schema, c)))
    \/ ident \in ToSet(NamesOf(Navigable(schema, c)))

Inherited(schema, A) == \A c \in A : ToSet(Supers(schema, c)) \subseteq A

\* The classes visited since `seen` was.
Since(r, seen) == r.visited \ seen

Gathers(schema, r, call, ident) ==
    /\ call.class \in r.visited
    /\ ident \in ToSet(r.names) <=> \E x \in Since(r, call.visited) : HasMember(schema, x, ident)
    /\ \A x \in Since(r, call.visited) : ToSet(Supers(schema, x)) \subseteq r.visited
    /\ \A A : call.class \in A /\ Inherited(schema, A) => Since(r, call.visited) \subseteq A

\* The same after some of the super-types s of the class.
GathersAbove(schema, r, call, ident, s, n) ==
    /\ \A i \in 1 .. n : s[i] \in r.visited
    /\ ident \in ToSet(r.names) <=> \/ ident \in ToSet(NamesOf(Stored(schema, call.class)))
                                    \/ \E x \in Since(r, Entered(call)) : HasMember(schema, x, ident)
    /\ \A x \in Since(r, Entered(call)) : ToSet(Supers(schema, x)) \subseteq r.visited
    /\ \A A : call.class \in A /\ Inherited(schema, A) => Since(r, Entered(call)) \subseteq A

LEMMA AboveGathers ==
  ASSUME NEW schema, NEW P, NEW Names, Walks(schema, P, Names), NEW ident,
         NEW collect \in Collections(P, Names), NEW call \in Visits(P), call.class \notin call.visited,
         \A d \in Visits(P) : Left(P)[d] < Left(P)[call]
                               => Gathers(schema, collect[d], d, ident)
  PROVE  /\ GathersAbove(schema, MembersAbove(schema, collect, call), call, ident,
                         Supers(schema, call.class), Len(Supers(schema, call.class)))
         /\ MembersAbove(schema, collect, call) \in Collected(P, Names)
         /\ Entered(call) \subseteq MembersAbove(schema, collect, call).visited
<1>1. PICK h : AboveTrace(h, schema, collect, call) /\ AboveTyped(h, schema, call, P, Names)
  BY AboveRuns
<1> DEFINE s == Supers(schema, call.class)
           N == Len(s)
           G(n) == GathersAbove(schema, h[n], call, ident, s, n)
           X == {n \in 0 .. N : G(n)}
<1>2. s \in Seq(P) /\ N \in Nat /\ \A n \in 1 .. N : s[n] \in P
  BY DEF Walks, Visits
<1>3. G(0)
  <2>1. h[0].names = NamesOf(Stored(schema, call.class)) /\ h[0].visited = Entered(call)
    BY <1>1 DEF AboveTrace, AboveSteps, Own
  <2>2. Since(h[0], Entered(call)) = {}
    BY <2>1 DEF Since
  <2> QED  BY <2>1, <2>2 DEF GathersAbove
<1>4. ASSUME NEW n \in 1 .. N, G(n - 1) PROVE G(n)
  <2> DEFINE done == h[n - 1]
             next == Visit(s[n], done.visited)
             more == collect[next]
             E == Entered(call)
  <2>1. done \in Collected(P, Names) /\ E \subseteq done.visited
    BY <1>1, <1>2 DEF AboveTyped
  <2>2. done.names \in Seq(Names) /\ done.visited \in SUBSET P /\ s[n] \in P
    BY <1>2, <2>1 DEF Collected
  <2>3. next \in Visits(P) /\ next.visited = done.visited /\ next.class = s[n]
    BY <2>2 DEF Visits, Visit
  <2>4. Left(P)[next] < Left(P)[call]
    <3> HIDE DEF next, done
    <3> QED  BY <2>1, <2>3, EnteredHasLess DEF Walks
  <2>5. Gathers(schema, more, next, ident)
    <3> HIDE DEF next
    <3> QED  BY <2>3, <2>4
  <2>6. more.names \in Seq(Names) /\ done.visited \subseteq more.visited
    BY <2>2, CollectionsAre
  <2>7. h[n] = AfterParent(collect, s[n], done)
    BY <1>1, <1>4 DEF AboveTrace, AboveSteps
  <2> DEFINE both == done.names \o more.names
  <2>8. h[n] = [names |-> both, visited |-> more.visited]
    BY <2>7 DEF AfterParent
  <2>9. ToSet(both) = ToSet(done.names) \cup ToSet(more.names)
    <3> HIDE DEF done, more
    <3> QED  BY <2>2, <2>6, InJoin
  <2>10. G(n - 1)
    BY <1>4
  <2>11. s[n] \in ToSet(s)
    BY <1>2 DEF ToSet
  <2> HIDE DEF done, more, next, both, E
  <2>12. h[n].names = both /\ h[n].visited = more.visited
    BY <2>8
  <2>13. Since(h[n], E) = Since(done, E) \cup Since(more, done.visited)
    BY <2>1, <2>6, <2>12 DEF Since
  <2>14. \A i \in 1 .. n : s[i] \in h[n].visited
    <3>1. \A i \in 1 .. n - 1 : s[i] \in done.visited
      BY <2>10 DEF GathersAbove, done
    <3>2. s[n] \in more.visited
      BY <2>3, <2>5 DEF Gathers
    <3> QED  BY <2>6, <2>12, <3>1, <3>2
  <2>15. ident \in ToSet(more.names)
           <=> \E x \in Since(more, done.visited) : HasMember(schema, x, ident)
    BY <2>3, <2>5 DEF Gathers
  <2>16. ident \in ToSet(done.names)
           <=> \/ ident \in ToSet(NamesOf(Stored(schema, call.class)))
               \/ \E x \in Since(done, E) : HasMember(schema, x, ident)
    BY <2>10 DEF GathersAbove, done, E
  <2>17. \A x \in Since(h[n], E) : ToSet(Supers(schema, x)) \subseteq h[n].visited
    <3>1. \A x \in Since(more, done.visited) : ToSet(Supers(schema, x)) \subseteq more.visited
      BY <2>3, <2>5 DEF Gathers
    <3>2. \A x \in Since(done, E) : ToSet(Supers(schema, x)) \subseteq done.visited
      BY <2>10 DEF GathersAbove, done, E
    <3> QED  BY <2>6, <2>12, <2>13, <3>1, <3>2
  <2>18. ASSUME NEW A, call.class \in A, Inherited(schema, A)
         PROVE  Since(h[n], E) \subseteq A
    <3>1. Since(done, E) \subseteq A
      BY <2>10, <2>18 DEF GathersAbove, done, E
    <3>2. s[n] \in A
      BY <2>11, <2>18 DEF Inherited
    <3>3. Since(more, done.visited) \subseteq A
      BY <2>3, <2>5, <2>18, <3>2 DEF Gathers
    <3> QED  BY <2>13, <3>1, <3>3
  <2> QED  BY <2>9, <2>12, <2>13, <2>14, <2>15, <2>16, <2>17, <2>18 DEF GathersAbove, E
<1>5. N \in X
  <2>1. N \in Nat /\ N \in 0 .. N
    BY <1>2
  <2> HIDE DEF G
  <2>2. 0 \in X
    BY <1>2, <1>3
  <2>3. ASSUME NEW n \in 1 .. N, n - 1 \in X PROVE n \in X
    BY <1>2, <1>4, <2>3
  <2> HIDE DEF X, N
  <2> QED  BY <2>1, <2>2, <2>3, InductionUpTo
<1>6. N \in 0 .. N /\ MembersAbove(schema, collect, call) = h[N]
  BY <1>1, <1>2 DEF AboveTrace
<1> QED  BY <1>1, <1>5, <1>6 DEF AboveTyped

LEMMA CallGathers ==
  ASSUME NEW schema, NEW P, NEW Names, Walks(schema, P, Names), NEW ident,
         NEW collect \in Collections(P, Names), NEW call \in Visits(P),
         \A d \in Visits(P) : Left(P)[d] < Left(P)[call]
                               => Gathers(schema, collect[d], d, ident)
  PROVE  Gathers(schema, CollectMembers(schema, collect, call), call, ident)
<1> DEFINE s == Supers(schema, call.class)
           N == Len(s)
           steps == NamesOf(Navigable(schema, call.class))
           all == MembersAbove(schema, collect, call)
           r == CollectMembers(schema, collect, call)
           both == all.names \o steps
<1>1. s \in Seq(P) /\ N \in Nat /\ steps \in Seq(Names)
  BY DEF Walks, Visits
<1>2. CASE call.class \notin call.visited
  <2>1. GathersAbove(schema, all, call, ident, s, N) /\ all \in Collected(P, Names)
        /\ Entered(call) \subseteq all.visited
    BY <1>2, AboveGathers
  <2>2. r = [names |-> all.names \o steps, visited |-> all.visited]
    BY <1>2 DEF CollectMembers
  <2>3. ToSet(both) = ToSet(all.names) \cup ToSet(steps)
    <3> HIDE DEF all, steps
    <3> QED  BY <1>1, <2>1, InJoin DEF Collected
  <2>4. ToSet(s) \subseteq all.visited
    BY <1>1, <2>1 DEF GathersAbove, ToSet
  <2> HIDE DEF all, r, both
  <2>5. r.names = both /\ r.visited = all.visited
    BY <2>2 DEF both
  <2>6. Since(r, call.visited) = {call.class} \cup Since(all, Entered(call))
    BY <1>2, <2>1, <2>5 DEF Since, Entered
  <2>7. call.class \in r.visited
    BY <2>1, <2>5 DEF Entered
  <2>8. ident \in ToSet(r.names)
           <=> \E x \in Since(r, call.visited) : HasMember(schema, x, ident)
    BY <2>1, <2>3, <2>5, <2>6 DEF GathersAbove, HasMember
  <2>9. \A x \in Since(r, call.visited) : ToSet(Supers(schema, x)) \subseteq r.visited
    BY <2>1, <2>4, <2>5, <2>6 DEF GathersAbove
  <2>10. \A A : call.class \in A /\ Inherited(schema, A) => Since(r, call.visited) \subseteq A
    BY <2>1, <2>6 DEF GathersAbove
  <2> QED  BY <2>7, <2>8, <2>9, <2>10 DEF Gathers, r
<1>3. CASE call.class \in call.visited
  BY <1>3 DEF CollectMembers, Gathers, Since, ToSet
<1> QED  BY <1>2, <1>3

(***************************************************************************)
(* What the reference reaches: a set closed under the relation, since a    *)
(* chain of sets that grows at every step would outgrow the paths.         *)
(***************************************************************************)
ReachStep(from, without) == (from \cup UNION {Inherits[c] : c \in from}) \ without

Reaches(g, starts, without) ==
    /\ g \in [0 .. Cardinality(AllPaths) -> SUBSET AllPaths]
    /\ g[0] = starts \ without
    /\ \A n \in 1 .. Cardinality(AllPaths) : g[n] = ReachStep(g[n - 1], without)
    /\ ReachableFrom(starts, without) = g[Cardinality(AllPaths)]

LEMMA ReachRuns ==
  ASSUME NavInv, NEW starts \in SUBSET AllPaths, NEW without
  PROVE  \E g : Reaches(g, starts, without)
<1> DEFINE N == Cardinality(AllPaths)
           D == SUBSET AllPaths
           first == starts \ without
           Run(h) == h = [n \in 0 .. N |-> IF n = 0 THEN first ELSE ReachStep(h[n - 1], without)]
           reach == CHOOSE h : Run(h)
           F == [from \in D |-> [i \in {0} |-> ReachStep(from, without)]]
           t == [n \in 1 .. N |-> 0]
<1>1. IsFiniteSet(AllPaths) /\ N \in Nat
  BY PathsFinite, FS_CardinalityType DEF NavInv, AllPaths
<1>2. \A c \in AllPaths : Inherits[c] \in D
  <2> SUFFICES ASSUME NEW c \in AllPaths PROVE ToSet(Supers(nav_schema, c)) \in D
    BY DEF Inherits
  <2>1. Supers(nav_schema, c) \in Seq(AllPaths)
    BY ParentsArePaths DEF NavInv, AllPaths
  <2> QED  BY <2>1 DEF ToSet
<1>3. \A from \in D : ReachStep(from, without) \in D
  BY <1>2 DEF ReachStep
<1>4. ReachableFrom(starts, without) = reach[N]
  BY DEF ReachableFrom, ReachStep
<1>5. first \in D
  OBVIOUS
<1> HIDE DEF N, D, first
<1>6. F \in StepFunction(D, {0}) /\ t \in Seq({0}) /\ Len(t) = N /\ DOMAIN t = 1 .. N
  BY <1>1, <1>3 DEF StepFunction
<1>7. PICK g : IsTrace(g, D, F, first, t)
  <2> HIDE DEF F, t
  <2> QED  BY <1>5, <1>6, TraceExists
<1>8. g \in [0 .. N -> D] /\ g[0] = first /\ \A n \in 1 .. N : g[n] = F[g[n - 1]][t[n]]
  <2> HIDE DEF F, t
  <2> QED  BY <1>6, <1>7 DEF IsTrace
<1>9. ASSUME NEW n \in 1 .. N PROVE g[n] = ReachStep(g[n - 1], without)
  <2>1. g[n - 1] \in D /\ t[n] = 0
    BY <1>1, <1>8
  <2> QED  BY <1>8, <2>1
<1> HIDE DEF F, t
<1>10. Run(g)
  BY <1>1, <1>8, <1>9
<1>11. Run(reach)
  <2> HIDE DEF Run
  <2> QED  BY <1>10
<1> HIDE DEF reach
<1>12. reach \in [0 .. N -> {reach[n] : n \in 0 .. N}]
       /\ reach[0] = first /\ \A n \in 1 .. N : reach[n] = ReachStep(reach[n - 1], without)
  BY <1>1, <1>11
<1>13. \A n \in 0 .. N : reach[n] \in D
  <2> DEFINE X == {n \in 0 .. N : reach[n] \in D}
  <2>1. 0 \in X
    BY <1>1, <1>5, <1>12
  <2>2. ASSUME NEW n \in 1 .. N, n - 1 \in X PROVE n \in X
    BY <1>1, <1>3, <1>12, <2>2
  <2>3. 0 .. N \subseteq X
    <3> HIDE DEF X
    <3> QED  BY <1>1, <2>1, <2>2, InductionUpTo
  <2> QED  BY <2>3
<1>14. reach \in [0 .. N -> D]
  BY <1>12, <1>13
<1>15. Reaches(reach, starts, without)
  BY <1>4, <1>12, <1>14 DEF Reaches, N, D, first
<1> QED  BY <1>15

\* The least set with what it starts from and, but for `without`, what it inherits from.
IsReach(R, starts, without) ==
    /\ R \in SUBSET AllPaths /\ starts \ without \subseteq R
    /\ \A c \in R : ToSet(Supers(nav_schema, c)) \ without \subseteq R
    /\ \A A : starts \ without \subseteq A
              /\ (\A c \in A : ToSet(Supers(nav_schema, c)) \ without \subseteq A)
                => R \subseteq A

LEMMA ReachCloses ==
  ASSUME NavInv, NEW starts \in SUBSET AllPaths, NEW without
  PROVE  IsReach(ReachableFrom(starts, without), starts, without)
<1>1. PICK g : Reaches(g, starts, without)
  BY ReachRuns
<1> DEFINE N == Cardinality(AllPaths)
           R == ReachableFrom(starts, without)
<1>2. IsFiniteSet(AllPaths) /\ N \in Nat /\ N \in 0 .. N
  BY PathsFinite, FS_CardinalityType DEF NavInv, AllPaths
<1>3. /\ g \in [0 .. N -> SUBSET AllPaths] /\ g[0] = starts \ without /\ R = g[N]
      /\ \A n \in 1 .. N : g[n] = ReachStep(g[n - 1], without)
  BY <1>1 DEF Reaches
<1>4. \A c \in AllPaths : Inherits[c] = ToSet(Supers(nav_schema, c))
  BY DEF Inherits
<1> HIDE DEF N, R
<1> DEFINE Kept(n) == \A c \in g[n] : c \notin without
           Closed(n) == ReachStep(g[n], without) = g[n]
<1>5. \A n \in 0 .. N : Kept(n)
  <2> SUFFICES ASSUME NEW n \in 0 .. N PROVE Kept(n)
    OBVIOUS
  <2>1. CASE n = 0
    BY <1>3, <2>1
  <2>2. CASE n # 0
    <3>1. n \in 1 .. N
      BY <1>2, <2>2
    <3> QED  BY <1>3, <3>1 DEF ReachStep
  <2> QED  BY <2>1, <2>2
<1>6. ASSUME NEW n \in 1 .. N PROVE g[n - 1] \subseteq g[n] /\ n - 1 \in 0 .. N
  <2>1. n - 1 \in 0 .. N
    BY <1>2
  <2> QED  BY <1>3, <1>5, <2>1 DEF ReachStep
<1>7. \A n \in 0 .. N : starts \ without \subseteq g[n]
  <2> DEFINE X == {n \in 0 .. N : starts \ without \subseteq g[n]}
  <2>1. 0 \in X
    BY <1>2, <1>3
  <2>2. ASSUME NEW n \in 1 .. N, n - 1 \in X PROVE n \in X
    BY <1>6, <2>2
  <2>3. 0 .. N \subseteq X
    <3> HIDE DEF X
    <3> QED  BY <1>2, <2>1, <2>2, InductionUpTo
  <2> QED  BY <2>3
<1>8. Closed(N)
  <2> DEFINE X == {n \in 0 .. N : Closed(n) \/ Cardinality(g[n]) >= n}
             Y == {n \in 0 .. N : Closed(n)}
  <2>1. \A n \in 0 .. N : IsFiniteSet(g[n]) /\ Cardinality(g[n]) \in Nat /\ Cardinality(g[n]) <= N
    <3> SUFFICES ASSUME NEW n \in 0 .. N
                 PROVE  IsFiniteSet(g[n]) /\ Cardinality(g[n]) \in Nat /\ Cardinality(g[n]) <= N
      OBVIOUS
    <3>1. g[n] \in SUBSET AllPaths
      BY <1>3
    <3>2. IsFiniteSet(g[n]) /\ Cardinality(g[n]) <= N
      BY <1>2, <3>1, FS_Subset DEF N
    <3> QED  BY <3>2, FS_CardinalityType
  <2>2. 0 \in X
    BY <1>2, <2>1
  <2>3. ASSUME NEW n \in 1 .. N, n - 1 \in X PROVE n \in X
    <3>1. n \in 0 .. N /\ n - 1 \in 0 .. N /\ n \in Nat /\ g[n] = ReachStep(g[n - 1], without)
      BY <1>2, <1>3
    <3>2. CASE Closed(n - 1)
      <4>1. g[n] = g[n - 1]
        BY <3>1, <3>2
      <4> QED  BY <3>1, <3>2, <4>1
    <3>3. CASE ~ Closed(n - 1)
      <4>1. Cardinality(g[n - 1]) >= n - 1
        BY <2>3, <3>3
      <4>2. g[n] # g[n - 1] /\ g[n - 1] \in SUBSET g[n]
        BY <1>6, <3>1, <3>3
      <4>3. Cardinality(g[n - 1]) <= Cardinality(g[n]) /\ Cardinality(g[n]) # Cardinality(g[n - 1])
        BY <2>1, <3>1, <4>2, FS_Subset
      <4>4. Cardinality(g[n]) >= n
        BY <2>1, <3>1, <4>1, <4>3
      <4> QED  BY <3>1, <4>4
    <3> QED  BY <3>2, <3>3
  <2>4. N \in X
    <3> HIDE DEF X
    <3> QED  BY <1>2, <2>2, <2>3, InductionUpTo
  <2>5. CASE Cardinality(g[N]) >= N
    <3>1. g[N] \in SUBSET AllPaths /\ Cardinality(g[N]) = N
      BY <1>2, <1>3, <2>1, <2>5
    <3>2. g[N] = AllPaths
      BY <1>2, <3>1, FS_Subset DEF N
    <3>3. \A c \in AllPaths : Inherits[c] \subseteq AllPaths
      <4> SUFFICES ASSUME NEW c \in AllPaths PROVE ToSet(Supers(nav_schema, c)) \subseteq AllPaths
        BY <1>4
      <4>1. Supers(nav_schema, c) \in Seq(AllPaths)
        BY ParentsArePaths DEF NavInv, AllPaths
      <4> QED  BY <4>1 DEF ToSet
    <3>4. Kept(N)
      BY <1>2, <1>5
    <3> QED  BY <3>2, <3>3, <3>4 DEF ReachStep
  <2> QED  BY <2>4, <2>5
<1>9. \A c \in R : ToSet(Supers(nav_schema, c)) \ without \subseteq R
  <2> SUFFICES ASSUME NEW c \in R PROVE ToSet(Supers(nav_schema, c)) \ without \subseteq R
    OBVIOUS
  <2>1. c \in AllPaths
    BY <1>2, <1>3
  <2>2. Inherits[c] \ without \subseteq R
    BY <1>3, <1>8 DEF ReachStep
  <2> QED  BY <1>4, <2>1, <2>2
<1>10. ASSUME NEW A, starts \ without \subseteq A,
              \A c \in A : ToSet(Supers(nav_schema, c)) \ without \subseteq A
       PROVE  R \subseteq A
  <2> DEFINE X == {n \in 0 .. N : g[n] \subseteq A}
  <2>1. 0 \in X
    BY <1>2, <1>3, <1>10
  <2>2. ASSUME NEW n \in 1 .. N, n - 1 \in X PROVE n \in X
    <3>1. n - 1 \in 0 .. N /\ g[n - 1] \subseteq A /\ g[n - 1] \subseteq AllPaths
      BY <1>3, <1>6, <2>2
    <3>2. \A c \in g[n - 1] : Inherits[c] \ without \subseteq A
      BY <1>4, <1>10, <3>1
    <3>3. g[n] \subseteq A
      BY <1>3, <3>1, <3>2 DEF ReachStep
    <3> QED  BY <3>3
  <2>3. N \in X
    <3> HIDE DEF X
    <3> QED  BY <1>2, <2>1, <2>2, InductionUpTo
  <2> QED  BY <1>3, <2>3
<1>11. R \in SUBSET AllPaths /\ starts \ without \subseteq R
  BY <1>2, <1>3, <1>7
<1> QED  BY <1>9, <1>10, <1>11 DEF R, IsReach

LEMMA SolutionGathers ==
  ASSUME NEW schema, NEW P, NEW Names, Walks(schema, P, Names), NEW ident,
         NEW collect \in Collections(P, Names), Solves(collect, schema, P)
  PROVE  \A call \in Visits(P) : Gathers(schema, collect[call], call, ident)
<1> DEFINE X == {call \in Visits(P) : Gathers(schema, collect[call], call, ident)}
<1>1. IsFiniteSet(P)
  BY DEF Walks
<1>2. ASSUME NEW c \in Visits(P), \A d \in Visits(P) : Left(P)[d] < Left(P)[c] => d \in X
      PROVE  c \in X
  <2>1. Gathers(schema, CollectMembers(schema, collect, c), c, ident)
    BY <1>2, CallGathers
  <2>2. collect[c] = CollectMembers(schema, collect, c)
    BY DEF Solves
  <2> QED  BY <2>1, <2>2
<1>3. Visits(P) \subseteq X
  <2> HIDE DEF X
  <2>1. Left(P) \in [Visits(P) -> 0 .. Cardinality(P)] /\ Cardinality(P) \in Nat
    BY <1>1, LeftType
  <2> QED  BY <1>2, <2>1, RankInduction
<1> QED  BY <1>3

(***************************************************************************)
(* The walk from a class visits what it inherits from, itself included.    *)
(***************************************************************************)
LEMMA WalkInherits ==
  ASSUME NavInv, NEW ident
  PROVE  ident \in ToSet(MemberNames(nav_schema, nav_cursor))
           <=> \E c \in Ancestors : HasMember(nav_schema, c, ident)
<1> DEFINE P == Paths(nav_schema, nav_cursor)
           Names == MemberSet(nav_schema, P)
           first == Visit(nav_cursor, {})
<1>1. Walks(nav_schema, P, Names)
  BY SchemaWalks DEF NavInv
<1> HIDE DEF Names
<1>2. PICK collect \in Collections(P, Names) :
        /\ Solves(collect, nav_schema, P)
        /\ MemberNames(nav_schema, nav_cursor) = collect[first].names
  BY <1>1, CollectOf
<1>3. first \in Visits(P) /\ first.class = nav_cursor /\ first.visited = {}
      /\ nav_cursor \in P /\ P = AllPaths
  BY DEF Visits, Visit, Paths, AllPaths
<1> DEFINE V == collect[first].visited
<1> HIDE DEF P, first
<1>4. Gathers(nav_schema, collect[first], first, ident)
  BY <1>1, <1>2, <1>3, SolutionGathers
<1>5. Since(collect[first], {}) = V
  BY DEF Since
<1>6. IsReach(Ancestors, {nav_cursor}, {})
  <2>1. {nav_cursor} \in SUBSET AllPaths
    BY <1>3
  <2> QED  BY <2>1, ReachCloses DEF Ancestors
<1> HIDE DEF V
<1>7. /\ nav_cursor \in V
      /\ ident \in ToSet(collect[first].names) <=> \E x \in V : HasMember(nav_schema, x, ident)
      /\ \A x \in V : ToSet(Supers(nav_schema, x)) \subseteq V
      /\ \A A : nav_cursor \in A /\ Inherited(nav_schema, A) => V \subseteq A
  BY <1>3, <1>4, <1>5 DEF Gathers, V
<1>8. Ancestors \subseteq V
  BY <1>6, <1>7 DEF IsReach
<1>9. V \subseteq Ancestors
  <2>1. nav_cursor \in Ancestors /\ Inherited(nav_schema, Ancestors)
    BY <1>6 DEF IsReach, Inherited
  <2> QED  BY <1>7, <2>1
<1> QED  BY <1>2, <1>7, <1>8, <1>9

(***************************************************************************)
(* Whatever the schema, the members of a class are what the classes        *)
(* reachable from it through super-types declare or are associated with:   *)
(* the one visited list threaded through the walk neither loses a branch   *)
(* nor keeps the walk from ending (model.rs 309-341).                      *)
(***************************************************************************)
THEOREM InheritedInvariant == NavSpec => []MembersAreInherited
<1>1. NavInv => MembersAreInherited
  <2> SUFFICES ASSUME NavInv, NEW ident \in Idents
               PROVE  ident \in ToSet(MemberNames(nav_schema, nav_cursor))
                        <=> \E c \in Ancestors : Declares(c, ident) \/ Navigates(c, ident)
    BY DEF MembersAreInherited
  <2>1. \A c : HasMember(nav_schema, c, ident) <=> Declares(c, ident) \/ Navigates(c, ident)
    BY DEF HasMember, Declares, Navigates
  <2> QED  BY <2>1, WalkInherits
<1> QED  BY <1>1, NavInvariant, PTL

(***************************************************************************)
(* Where an answer comes from: a class of any set A that holds the class   *)
(* of the call and is closed under the super-types but for the set W of    *)
(* visited classes.                                                        *)
(***************************************************************************)
Closed(schema, A, W) == \A c \in A : ToSet(Supers(schema, c)) \ W \subseteq A

Comes(schema, found, ident, A) ==
    \E x \in A : \/ found = FirstNamed(Stored(schema, x), ident)
                 \/ found = FirstNamed(Navigable(schema, x), ident)

Traceable(schema, r, call, ident) ==
    r.found # NotFound =>
      \A A, W : W \subseteq call.visited /\ call.class \in A \cup W /\ Closed(schema, A, W)
                  => Comes(schema, r.found, ident, A)

LEMMA AboveComes ==
  ASSUME NEW schema, NEW P, NEW Names, Walks(schema, P, Names), NEW ident,
         NEW find \in Findings(schema, P, ident), NEW call \in Visits(P),
         call.class \notin call.visited,
         \A d \in Visits(P) : Left(P)[d] < Left(P)[call]
                               => Traceable(schema, find[d], d, ident),
         NEW A, NEW W, W \subseteq Entered(call), Closed(schema, A, W),
         ToSet(Supers(schema, call.class)) \ W \subseteq A,
         FirstNamed(Stored(schema, call.class), ident) # NotFound => call.class \in A,
         FoundAbove(schema, find, call, ident).found # NotFound
  PROVE  Comes(schema, FoundAbove(schema, find, call, ident).found, ident, A)
<1>1. PICK k : AskTrace(k, schema, find, call, ident) /\ AskTyped(k, schema, call, P, ident)
  BY AskRuns
<1> DEFINE s == Supers(schema, call.class)
           N == Len(s)
           G(n) == k[n].found # NotFound => Comes(schema, k[n].found, ident, A)
           X == {n \in 0 .. N : G(n)}
<1>2. s \in Seq(P) /\ N \in Nat /\ \A n \in 1 .. N : s[n] \in P
  BY DEF Walks, Visits
<1>3. G(0)
  BY <1>1 DEF AskTrace, AskSteps, OwnFound, Comes
<1>4. ASSUME NEW n \in 1 .. N, G(n - 1) PROVE G(n)
  <2> DEFINE done == k[n - 1]
             next == Visit(s[n], done.visited)
  <2>1. done \in Found(schema, P, ident) /\ Entered(call) \subseteq done.visited
    BY <1>1, <1>2 DEF AskTyped
  <2>2. done.visited \in SUBSET P /\ s[n] \in P
    BY <1>2, <2>1 DEF Found
  <2>3. next \in Visits(P) /\ next.visited = done.visited /\ next.class = s[n]
    BY <2>2 DEF Visits, Visit
  <2>4. Left(P)[next] < Left(P)[call]
    <3> HIDE DEF next, done
    <3> QED  BY <2>1, <2>3, EnteredHasLess DEF Walks
  <2>5. Traceable(schema, find[next], next, ident)
    <3> HIDE DEF next
    <3> QED  BY <2>3, <2>4
  <2>6. k[n] = IF done.found # NotFound THEN done ELSE find[next]
    BY <1>1, <1>4 DEF AskTrace, AskSteps, AfterAsking
  <2>7. CASE done.found # NotFound
    BY <1>4, <2>6, <2>7
  <2>8. CASE done.found = NotFound
    <3>1. s[n] \in A \cup W
      BY <1>2 DEF ToSet
    <3>2. W \subseteq next.visited
      BY <2>1, <2>3
    <3> HIDE DEF next, done
    <3> QED  BY <2>3, <2>5, <2>6, <2>8, <3>1, <3>2 DEF Traceable
  <2> QED  BY <2>7, <2>8
<1>5. N \in X
  <2>1. N \in Nat /\ N \in 0 .. N
    BY <1>2
  <2> HIDE DEF G
  <2>2. 0 \in X
    BY <1>2, <1>3
  <2>3. ASSUME NEW n \in 1 .. N, n - 1 \in X PROVE n \in X
    BY <1>2, <1>4, <2>3
  <2> HIDE DEF X, N
  <2> QED  BY <2>1, <2>2, <2>3, InductionUpTo
<1> QED  BY <1>1, <1>5 DEF AskTrace

LEMMA CallTraceable ==
  ASSUME NEW schema, NEW P, NEW Names, Walks(schema, P, Names), NEW ident,
         NEW find \in Findings(schema, P, ident), NEW call \in Visits(P),
         \A d \in Visits(P) : Left(P)[d] < Left(P)[call]
                               => Traceable(schema, find[d], d, ident)
  PROVE  Traceable(schema, ResolveIn(schema, find, call, ident), call, ident)
<1> DEFINE r == ResolveIn(schema, find, call, ident)
           above == FoundAbove(schema, find, call, ident)
           last == FirstNamed(Navigable(schema, call.class), ident)
<1> SUFFICES ASSUME r.found # NotFound, NEW A, NEW W, W \subseteq call.visited,
                    call.class \in A \cup W, Closed(schema, A, W)
             PROVE  Comes(schema, r.found, ident, A)
  BY DEF Traceable
<1>1. call.class \notin call.visited
  BY DEF ResolveIn
<1>2. call.class \in A /\ W \subseteq Entered(call)
  BY <1>1 DEF Entered
<1>3. r = IF above.found # NotFound THEN above ELSE [found |-> last, visited |-> above.visited]
  BY <1>1 DEF ResolveIn
<1>4. CASE above.found # NotFound
  <2>1. ToSet(Supers(schema, call.class)) \ W \subseteq A
    BY <1>2 DEF Closed
  <2>2. Comes(schema, above.found, ident, A)
    <3> HIDE DEF r
    <3> QED  BY <1>1, <1>2, <1>4, <2>1, AboveComes
  <2>3. r = above
    BY <1>3, <1>4
  <2> HIDE DEF r, above
  <2> QED  BY <2>2, <2>3
<1>5. CASE above.found = NotFound
  <2> HIDE DEF r, above
  <2>1. r.found = last
    BY <1>3, <1>5
  <2> QED  BY <1>2, <2>1 DEF Comes
<1> QED  BY <1>4, <1>5

LEMMA SolutionTraceable ==
  ASSUME NEW schema, NEW P, NEW Names, Walks(schema, P, Names), NEW ident,
         NEW find \in Findings(schema, P, ident), Finds(find, schema, P, ident)
  PROVE  \A call \in Visits(P) : Traceable(schema, find[call], call, ident)
<1> DEFINE X == {call \in Visits(P) : Traceable(schema, find[call], call, ident)}
<1>1. IsFiniteSet(P)
  BY DEF Walks
<1>2. ASSUME NEW c \in Visits(P), \A d \in Visits(P) : Left(P)[d] < Left(P)[c] => d \in X
      PROVE  c \in X
  <2>1. Traceable(schema, ResolveIn(schema, find, c, ident), c, ident)
    BY <1>2, CallTraceable
  <2>2. find[c] = ResolveIn(schema, find, c, ident)
    BY DEF Finds
  <2> QED  BY <2>1, <2>2
<1>3. Visits(P) \subseteq X
  <2> HIDE DEF X
  <2>1. Left(P) \in [Visits(P) -> 0 .. Cardinality(P)] /\ Cardinality(P) \in Nat
    BY <1>1, LeftType
  <2> QED  BY <1>2, <2>1, RankInduction
<1> QED  BY <1>3

\* A class's own property is what its name means.
LEMMA OwnFirst ==
  ASSUME NEW schema, NEW P, NEW Names, Walks(schema, P, Names), NEW ident,
         NEW find \in Findings(schema, P, ident), NEW call \in Visits(P),
         FirstNamed(Stored(schema, call.class), ident) # NotFound
  PROVE  FoundAbove(schema, find, call, ident).found
           = FirstNamed(Stored(schema, call.class), ident)
<1>1. PICK k : AskTrace(k, schema, find, call, ident) /\ AskTyped(k, schema, call, P, ident)
  BY AskRuns
<1> DEFINE s == Supers(schema, call.class)
           N == Len(s)
           own == FirstNamed(Stored(schema, call.class), ident)
           X == {n \in 0 .. N : k[n].found = own}
<1>2. N \in Nat /\ N \in 0 .. N
  BY DEF Walks, Visits
<1>3. k[0].found = own /\ own # NotFound
      /\ \A n \in 1 .. N : k[n] = IF k[n - 1].found # NotFound THEN k[n - 1]
                                  ELSE find[Visit(s[n], k[n - 1].visited)]
  BY <1>1 DEF AskTrace, AskSteps, OwnFound, AfterAsking
<1> HIDE DEF N, own
<1>4. 0 \in X
  BY <1>2, <1>3
<1>5. ASSUME NEW n \in 1 .. N, n - 1 \in X PROVE n \in X
  <2>1. k[n - 1].found = own /\ n \in 0 .. N
    BY <1>2, <1>5
  <2> QED  BY <1>3, <2>1
<1>6. N \in X
  <2> HIDE DEF X
  <2> QED  BY <1>2, <1>4, <1>5, InductionUpTo
<1> QED  BY <1>1, <1>6 DEF AskTrace, N, own

(***************************************************************************)
(* The two walks from the class reached, before its own associations.      *)
(***************************************************************************)
OwnType(ident) == FirstNamed(Stored(nav_schema, nav_cursor), ident)

Parents == ToSet(Supers(nav_schema, nav_cursor))

RootView(all, above, ident) ==
    /\ Agrees(all, above, ident)
    /\ GathersAbove(nav_schema, all, Visit(nav_cursor, {}), ident,
                    Supers(nav_schema, nav_cursor), Len(Supers(nav_schema, nav_cursor)))
    /\ Resolve(nav_schema, nav_cursor, ident) =
         IF above.found # NotFound THEN above.found
         ELSE FirstNamed(Navigable(nav_schema, nav_cursor), ident)
    /\ OwnType(ident) # NotFound => above.found = OwnType(ident)
    /\ \A A : above.found # NotFound /\ OwnType(ident) = NotFound
              /\ Closed(nav_schema, A, {nav_cursor}) /\ Parents \ {nav_cursor} \subseteq A
                => Comes(nav_schema, above.found, ident, A)

LEMMA RootViewed ==
  ASSUME NavInv, NEW ident
  PROVE  \E all, above : RootView(all, above, ident)
<1> DEFINE P == Paths(nav_schema, nav_cursor)
           Names == MemberSet(nav_schema, P)
           first == Visit(nav_cursor, {})
<1>1. Walks(nav_schema, P, Names) /\ IsSchema(nav_schema)
  BY SchemaWalks DEF NavInv
<1> HIDE DEF Names
<1>2. PICK collect \in Collections(P, Names) : Solves(collect, nav_schema, P)
  BY <1>1, CollectOf
<1>3. PICK find \in Findings(nav_schema, P, ident) :
        Finds(find, nav_schema, P, ident)
        /\ Resolve(nav_schema, nav_cursor, ident) = find[first].found
  BY <1>1, FindOf
<1>4. first \in Visits(P) /\ first.class = nav_cursor /\ first.visited = {}
      /\ first.class \notin first.visited
  BY DEF Visits, Visit, Paths
<1> DEFINE all == MembersAbove(nav_schema, collect, first)
           above == FoundAbove(nav_schema, find, first, ident)
<1> HIDE DEF P
<1>5. Agrees(all, above, ident)
  <2>1. \A d \in Visits(P) : Agrees(collect[d], find[d], ident)
    BY <1>1, <1>2, <1>3, SolutionsAgree
  <2> HIDE DEF first
  <2> QED  BY <1>1, <1>2, <1>3, <1>4, <2>1, AboveAgrees
<1>6. GathersAbove(nav_schema, all, first, ident,
                   Supers(nav_schema, nav_cursor), Len(Supers(nav_schema, nav_cursor)))
  <2>1. \A d \in Visits(P) : Gathers(nav_schema, collect[d], d, ident)
    BY <1>1, <1>2, SolutionGathers
  <2> HIDE DEF first
  <2>2. GathersAbove(nav_schema, all, first, ident,
                     Supers(nav_schema, first.class), Len(Supers(nav_schema, first.class)))
    BY <1>1, <1>2, <1>4, <2>1, AboveGathers
  <2> QED  BY <1>4, <2>2
<1>7. find[first] = ResolveIn(nav_schema, find, first, ident)
  BY <1>3, <1>4 DEF Finds
<1>8. Resolve(nav_schema, nav_cursor, ident) =
         IF above.found # NotFound THEN above.found
         ELSE FirstNamed(Navigable(nav_schema, nav_cursor), ident)
  <2> HIDE DEF first
  <2> QED  BY <1>3, <1>4, <1>7 DEF ResolveIn
<1>9. OwnType(ident) # NotFound => above.found = OwnType(ident)
  <2> HIDE DEF first
  <2> QED  BY <1>1, <1>3, <1>4, OwnFirst DEF OwnType
<1>10. ASSUME NEW A, above.found # NotFound, OwnType(ident) = NotFound,
              Closed(nav_schema, A, {nav_cursor}), Parents \ {nav_cursor} \subseteq A
       PROVE  Comes(nav_schema, above.found, ident, A)
  <2>1. \A d \in Visits(P) : Traceable(nav_schema, find[d], d, ident)
    BY <1>1, <1>3, SolutionTraceable
  <2>2. {nav_cursor} \subseteq Entered(first)
    BY <1>4 DEF Entered
  <2> HIDE DEF first
  <2>3. ToSet(Supers(nav_schema, first.class)) \ {nav_cursor} \subseteq A
    BY <1>4, <1>10 DEF Parents
  <2>4. FirstNamed(Stored(nav_schema, first.class), ident) = NotFound
    BY <1>4, <1>10 DEF OwnType
  <2> QED  BY <1>1, <1>3, <1>4, <1>10, <2>1, <2>2, <2>3, <2>4, AboveComes
<1>11. RootView(all, above, ident)
  <2> HIDE DEF all, above
  <2>1. \A A : above.found # NotFound /\ OwnType(ident) = NotFound
              /\ Closed(nav_schema, A, {nav_cursor}) /\ Parents \ {nav_cursor} \subseteq A
                => Comes(nav_schema, above.found, ident, A)
    BY <1>10
  <2> QED  BY <1>5, <1>6, <1>8, <1>9, <2>1 DEF RootView
<1> QED  BY <1>11

LEMMA OwnTypeIs ==
  ASSUME NavInv, NEW ident
  PROVE  OwnType(ident) # NotFound <=> Declares(nav_cursor, ident)
<1>1. IsProperties(Stored(nav_schema, nav_cursor))
  BY StoredIsList DEF NavInv
<1> QED  BY <1>1, FirstNamedIs DEF OwnType, Declares

(***************************************************************************)
(* Whatever the schema, a name the class declares itself resolves to that  *)
(* declaration, and a name declared only above it to what a class above    *)
(* makes of it: the associations of the class itself come last (model.rs   *)
(* 351-384).                                                               *)
(***************************************************************************)
THEOREM OwnThenInheritedInvariant == NavSpec => []OwnThenInherited
<1>1. NavInv => OwnThenInherited
  <2> SUFFICES ASSUME NavInv, NEW ident \in Idents
               PROVE  LET answer == Resolve(nav_schema, nav_cursor, ident)
                          above  == ReachableFrom(Parents, {nav_cursor})
                      IN  /\ Declares(nav_cursor, ident) => answer = OwnType(ident)
                          /\ ~Declares(nav_cursor, ident) /\ (\E c \in above : Declares(c, ident))
                               => \E c \in above :
                                    \/ answer = FirstNamed(Stored(nav_schema, c), ident)
                                    \/ answer = FirstNamed(Navigable(nav_schema, c), ident)
    BY DEF OwnThenInherited, Parents, OwnType
  <2> DEFINE answer == Resolve(nav_schema, nav_cursor, ident)
             beyond == ReachableFrom(Parents, {nav_cursor})
             first  == Visit(nav_cursor, {})
  <2>1. PICK all, above : RootView(all, above, ident)
    BY RootViewed
  <2>2. ASSUME Declares(nav_cursor, ident) PROVE answer = OwnType(ident)
    BY <2>1, <2>2, OwnTypeIs DEF RootView
  <2>3. ASSUME ~Declares(nav_cursor, ident), NEW c \in beyond, Declares(c, ident)
        PROVE  Comes(nav_schema, answer, ident, beyond)
    <3>1. IsReach(beyond, Parents, {nav_cursor})
      <4>1. Supers(nav_schema, nav_cursor) \in Seq(AllPaths)
        BY ParentsArePaths DEF NavInv, AllPaths, Paths
      <4>2. Parents \in SUBSET AllPaths
        BY <4>1 DEF Parents, ToSet
      <4> QED  BY <4>2, ReachCloses
    <3> DEFINE V == Since(all, Entered(first))
    <3>2. Entered(first) = {nav_cursor}
      BY DEF Entered, Visit
    <3> HIDE DEF beyond, first, answer
    <3>3. beyond \subseteq V
      <4>1. \A i \in 1 .. Len(Supers(nav_schema, nav_cursor)) :
              Supers(nav_schema, nav_cursor)[i] \in all.visited
        BY <2>1 DEF RootView, GathersAbove
      <4>2. Supers(nav_schema, nav_cursor) \in Seq(AllPaths)
        BY ParentsArePaths DEF NavInv, AllPaths, Paths
      <4>3. Parents \ {nav_cursor} \subseteq V
        BY <3>2, <4>1, <4>2 DEF Parents, ToSet, Since
      <4>4. \A x \in V : ToSet(Supers(nav_schema, x)) \subseteq all.visited
        BY <2>1 DEF RootView, GathersAbove, first
      <4>5. \A x \in V : ToSet(Supers(nav_schema, x)) \ {nav_cursor} \subseteq V
        BY <3>2, <4>4 DEF Since
      <4> QED  BY <3>1, <4>3, <4>5 DEF IsReach
    <3>4. ident \in ToSet(all.names)
      <4>1. c \in V /\ HasMember(nav_schema, c, ident)
        BY <2>3, <3>3 DEF Declares, HasMember
      <4> QED  BY <2>1, <4>1 DEF RootView, GathersAbove, first
    <3>5. above.found # NotFound /\ OwnType(ident) = NotFound
      BY <2>1, <2>3, <3>4, OwnTypeIs DEF RootView, Agrees
    <3>6. Closed(nav_schema, beyond, {nav_cursor}) /\ Parents \ {nav_cursor} \subseteq beyond
      BY <3>1 DEF IsReach, Closed
    <3>7. answer = above.found
      BY <2>1, <3>5 DEF RootView, answer
    <3> QED  BY <2>1, <3>5, <3>6, <3>7 DEF RootView
  <2> QED  BY <2>2, <2>3 DEF Comes
<1> QED  BY <1>1, NavInvariant, PTL

(***************************************************************************)
(* The steps of a class, one for each end of an association that is it.    *)
(***************************************************************************)
EndStep(ends, s) == Property(ends[3 - s].prop, ClassType(ends[3 - s].target))

IsEntry(schema, c, e, j, s) ==
    /\ schema.associations[j][s].target = c
    /\ e = EndStep(schema.associations[j], s)

LEMMA StepsAdded ==
  ASSUME NEW schema, IsSchema(schema), NEW c, NEW n \in 1 .. Len(schema.associations),
         NEW u \in Seq(EndSteps(schema)), NEW e
  PROVE  e \in ToSet(More(schema, c, u, n))
           <=> e \in ToSet(u) \/ \E s \in {1, 2} : IsEntry(schema, c, e, n, s)
<1> DEFINE ends == schema.associations[n]
           M == EndSteps(schema)
           a == StepFrom(c, ends[1], ends[2])
           b == StepFrom(c, ends[2], ends[1])
<1>1. a \in Seq(M) /\ b \in Seq(M)
  BY StepsOfEnds
<1>2. e \in ToSet(a) <=> IsEntry(schema, c, e, n, 1)
  BY DEF StepFrom, ToSet, IsEntry, EndStep
<1>3. e \in ToSet(b) <=> IsEntry(schema, c, e, n, 2)
  BY DEF StepFrom, ToSet, IsEntry, EndStep
<1>4. More(schema, c, u, n) = u \o a \o b
  BY DEF More
<1> HIDE DEF a, b, M
<1>5. ToSet(u \o a) = ToSet(u) \cup ToSet(a)
  BY <1>1, InJoin DEF M
<1>6. u \o a \in Seq(M)
  BY <1>1 DEF M
<1> DEFINE ua == u \o a
<1> HIDE DEF ua
<1>7. ToSet(ua \o b) = ToSet(ua) \cup ToSet(b)
  BY <1>1, <1>6, InJoin DEF ua
<1>8. ToSet(More(schema, c, u, n)) = ToSet(u) \cup ToSet(a) \cup ToSet(b)
  BY <1>4, <1>5, <1>7 DEF ua
<1> QED  BY <1>2, <1>3, <1>8

LEMMA NavigableEntries ==
  ASSUME NEW schema, IsSchema(schema), NEW c, NEW e
  PROVE  e \in ToSet(Navigable(schema, c))
           <=> \E j \in 1 .. Len(schema.associations), s \in {1, 2} : IsEntry(schema, c, e, j, s)
<1> DEFINE N == Len(schema.associations)
<1>1. PICK g : NavigableTrace(g, schema, c)
  BY NavigableRuns
<1> DEFINE G(n) == e \in ToSet(g[n])
                     <=> \E j \in 1 .. n, s \in {1, 2} : IsEntry(schema, c, e, j, s)
           X == {n \in 0 .. N : G(n)}
<1>2. N \in Nat /\ N \in 0 .. N
  BY DEF IsSchema, IsList
<1>3. 0 \in X
  <2>1. ToSet(g[0]) = {}
    BY <1>1 DEF NavigableTrace, ToSet
  <2> QED  BY <1>2, <2>1
<1>4. ASSUME NEW n \in 1 .. N, n - 1 \in X PROVE n \in X
  <2>1. g[n] = More(schema, c, g[n - 1], n) /\ g[n - 1] \in Seq(EndSteps(schema))
    BY <1>1, <1>2 DEF NavigableTrace
  <2>2. e \in ToSet(g[n]) <=> e \in ToSet(g[n - 1]) \/ \E s \in {1, 2} : IsEntry(schema, c, e, n, s)
    BY <2>1, StepsAdded
  <2>3. G(n - 1)
    BY <1>4
  <2>4. \A j : j \in 1 .. n <=> j \in 1 .. n - 1 \/ j = n
    BY <1>2
  <2>5. G(n)
    BY <2>2, <2>3, <2>4
  <2> QED  BY <1>2, <2>5
<1>5. N \in X
  <2> HIDE DEF X
  <2> QED  BY <1>2, <1>3, <1>4, InductionUpTo
<1> QED  BY <1>1, <1>5 DEF NavigableTrace

\* What a name means among the steps of a class, if only one association gives it.
LEMMA OnlyStep ==
  ASSUME NEW schema, IsSchema(schema), NEW c, NEW i \in DOMAIN schema.associations,
         NEW side \in {1, 2}, schema.associations[i][side].target = c,
         Cardinality({j \in DOMAIN schema.associations :
             \E s \in {1, 2} :
               /\ schema.associations[j][s].target = c
               /\ schema.associations[j][3 - s].prop = schema.associations[i][3 - side].prop}) = 1
  PROVE  FirstNamed(Navigable(schema, c), schema.associations[i][3 - side].prop)
           = ClassType(schema.associations[i][3 - side].target)
<1> DEFINE all == schema.associations
           name == all[i][3 - side].prop
           J == {j \in DOMAIN all : \E s \in {1, 2} :
                   all[j][s].target = c /\ all[j][3 - s].prop = name}
           steps == Navigable(schema, c)
           named == Named(steps, name)
<1>1. Len(all) \in Nat /\ DOMAIN all = 1 .. Len(all)
  BY DEF IsSchema, IsList
<1>2. IsProperties(steps) /\ IsList(steps)
  BY NavigableIsList DEF IsProperties
<1>3. EndStep(all[i], side) \in ToSet(steps)
  <2>1. IsEntry(schema, c, EndStep(all[i], side), i, side)
    BY DEF IsEntry
  <2> QED  BY <1>1, <2>1, NavigableEntries
<1>4. PICK k \in DOMAIN steps : steps[k] = EndStep(all[i], side)
  BY <1>3 DEF ToSet
<1>5. named # {}
  BY <1>4 DEF Named, EndStep, Property
<1>6. Min(named) \in named
  BY <1>2, <1>5, MinNamed
<1>7. FirstNamed(steps, name) = steps[Min(named)].type
  BY <1>5 DEF FirstNamed, Named
<1>8. steps[Min(named)] \in ToSet(steps) /\ steps[Min(named)].name = name
  BY <1>6 DEF Named, ToSet
<1>9. PICK j \in 1 .. Len(all), s \in {1, 2} : IsEntry(schema, c, steps[Min(named)], j, s)
  BY <1>8, NavigableEntries
<1>10. all[j][s].target = c /\ steps[Min(named)] = EndStep(all[j], s)
  BY <1>9 DEF IsEntry
<1>11. all[j][3 - s].prop = name /\ steps[Min(named)].type = ClassType(all[j][3 - s].target)
  BY <1>8, <1>10 DEF EndStep, Property
<1>12. i \in J /\ j \in J
  BY <1>1, <1>10, <1>11
<1>13. i = j
  <2>1. IsFiniteSet(1 .. Len(all)) /\ J \subseteq 1 .. Len(all)
    <3>1. J \subseteq 1 .. Len(all)
      BY <1>1
    <3>2. \A n \in Nat : IsFiniteSet(1 .. n)
      BY FS_Interval
    <3> QED  BY <1>1, <3>1, <3>2
  <2>2. IsFiniteSet(J)
    BY <2>1, FS_Subset
  <2>3. Cardinality(J) = 1
    OBVIOUS
  <2>4. \E x : J = {x}
    <3> HIDE DEF J
    <3> QED  BY <2>2, <2>3, FS_Singleton
  <2> QED  BY <1>12, <2>4
<1>14. all[j][3 - s].target = all[i][3 - side].target
  <2>1. CASE s = side
    BY <1>13, <2>1
  <2>2. CASE s # side
    <3>1. s = 3 - side /\ 3 - s = side
      BY <2>2
    <3> QED  BY <1>10, <1>13, <3>1
  <2> QED  BY <2>1, <2>2
<1> QED  BY <1>7, <1>11, <1>14

(***************************************************************************)
(* Whatever the schema, an association leads from the class at either end  *)
(* to the class at the other end, unless the class has another member of   *)
(* that name: no association step is masked or sent back to the class it   *)
(* starts from (model.rs 267-291).                                         *)
(***************************************************************************)
THEOREM AssociationsInvariant == NavSpec => []AssociationsBothWays
<1>1. NavInv => AssociationsBothWays
  <2> SUFFICES ASSUME NavInv, NEW i \in DOMAIN nav_schema.associations, NEW side \in {1, 2},
                      nav_schema.associations[i][side].target = nav_cursor,
                      Cardinality({j \in DOMAIN nav_schema.associations :
                        \E s \in {1, 2} :
                          /\ nav_schema.associations[j][s].target = nav_cursor
                          /\ nav_schema.associations[j][3 - s].prop
                               = nav_schema.associations[i][3 - side].prop}) = 1,
                      \A c \in Ancestors :
                        /\ ~Declares(c, nav_schema.associations[i][3 - side].prop)
                        /\ c # nav_cursor
                             => ~Navigates(c, nav_schema.associations[i][3 - side].prop)
               PROVE  Resolve(nav_schema, nav_cursor, nav_schema.associations[i][3 - side].prop)
                        = ClassType(nav_schema.associations[i][3 - side].target)
    BY DEF AssociationsBothWays
  <2> DEFINE name == nav_schema.associations[i][3 - side].prop
             first == Visit(nav_cursor, {})
  <2>1. FirstNamed(Navigable(nav_schema, nav_cursor), name)
          = ClassType(nav_schema.associations[i][3 - side].target)
    BY OnlyStep DEF NavInv
  <2>2. \A c \in Ancestors : ~Declares(c, name) /\ (c # nav_cursor => ~Navigates(c, name))
    OBVIOUS
  <2> HIDE DEF name
  <2>3. PICK all, above : RootView(all, above, name)
    BY RootViewed
  <2>4. IsReach(Ancestors, {nav_cursor}, {})
    <3>1. {nav_cursor} \in SUBSET AllPaths
      BY DEF AllPaths, Paths
    <3> QED  BY <3>1, ReachCloses DEF Ancestors
  <2>5. nav_cursor \in Ancestors /\ Inherited(nav_schema, Ancestors)
    BY <2>4 DEF IsReach, Inherited
  <2>6. first.class = nav_cursor /\ Entered(first) = {nav_cursor}
    BY DEF Visit, Entered
  <2> HIDE DEF first
  <2>7. Since(all, Entered(first)) \subseteq Ancestors
    BY <2>3, <2>5, <2>6 DEF RootView, GathersAbove, first
  <2>8. \A x \in Since(all, Entered(first)) : x # nav_cursor
    BY <2>6 DEF Since
  <2>9. name \notin ToSet(all.names)
    <3>1. \A x \in Since(all, Entered(first)) : ~HasMember(nav_schema, x, name)
      BY <2>2, <2>7, <2>8 DEF HasMember, Declares, Navigates
    <3>2. name \notin ToSet(NamesOf(Stored(nav_schema, first.class)))
      BY <2>2, <2>5, <2>6 DEF Declares
    <3> QED  BY <2>3, <3>1, <3>2 DEF RootView, GathersAbove, first
  <2>10. above.found = NotFound
    BY <2>3, <2>9 DEF RootView, Agrees
  <2> QED  BY <2>1, <2>3, <2>10 DEF RootView, name
<1> QED  BY <1>1, NavInvariant, PTL
=============================================================================
