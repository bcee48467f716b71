-------------------------- MODULE SchemaNavigation --------------------------
(***************************************************************************)
(* A navigation `$x.p.q` over a schema, as the scope machine follows it    *)
(* (`resolve_member` of src/src/schema/scope.rs): each name is resolved    *)
(* against the class reached, and a name that is no class-typed member     *)
(* ends the navigation.  The schema is any of a set of small graphs.       *)
(***************************************************************************)
EXTENDS SchemaModel

CONSTANTS
    Schemas,    \* the schemas explored
    Idents      \* the names the host writes

ASSUME SchemasAssumption == \A schema \in Schemas : IsSchema(schema)

VARIABLES
    nav_schema,   \* Schema, immutable once built
    nav_cursor    \* the class reached, or NoClass

nav_vars == <<nav_schema, nav_cursor>>

NoClass == "none"

NavInit == nav_schema \in Schemas /\ nav_cursor = NoClass

\* A variable bound to a class is navigated from.
Start(path) ==
    /\ nav_cursor = NoClass
    /\ HasClass(nav_schema, path)
    /\ nav_cursor' = path
    /\ UNCHANGED nav_schema

Follow(ident) ==
    /\ nav_cursor # NoClass
    /\ Resolve(nav_schema, nav_cursor, ident).kind = "class"
    /\ nav_cursor' = Resolve(nav_schema, nav_cursor, ident).path
    /\ UNCHANGED nav_schema

\* A value, or no member at all: nothing can be navigated from it.
Stop(ident) ==
    /\ nav_cursor # NoClass
    /\ Resolve(nav_schema, nav_cursor, ident).kind # "class"
    /\ nav_cursor' = NoClass
    /\ UNCHANGED nav_schema

NavNext ==
    \/ \E path \in DOMAIN nav_schema.classes : Start(path)
    \/ \E ident \in Idents : Follow(ident)
    \/ \E ident \in Idents : Stop(ident)

NavSpec == NavInit /\ [][NavNext]_nav_vars
-----------------------------------------------------------------------------
\* The reference: super-types as a relation, and the classes it reaches.
AllPaths == Paths(nav_schema, nav_cursor)

Inherits == [c \in AllPaths |-> ToSet(Supers(nav_schema, c))]

\* The classes reachable from the set, never through those in `without`.
ReachableFrom(starts, without) ==
    LET reach[n \in 0 .. Cardinality(AllPaths)] ==
          IF n = 0 THEN starts \ without
          ELSE (reach[n - 1] \cup UNION {Inherits[c] : c \in reach[n - 1]}) \ without
    IN  reach[Cardinality(AllPaths)]

Ancestors == ReachableFrom({nav_cursor}, {})

Declares(c, ident)  == ident \in ToSet(NamesOf(Stored(nav_schema, c)))
Navigates(c, ident) == ident \in ToSet(NamesOf(Navigable(nav_schema, c)))

(***************************************************************************)
(* The narrower admits the names of `member_names`, the scope machine      *)
(* types what `resolve` finds.  A name one of them knows and the other     *)
(* does not would be masked though it navigates, or admitted and lead      *)
(* nowhere; over cycles and diamonds the visited lists of the two walks    *)
(* differ, since one of them stops early (model.rs 309-384).               *)
(***************************************************************************)
MembersAreWhatResolves ==
    \A ident \in Idents :
      ident \in ToSet(MemberNames(nav_schema, nav_cursor))
        <=> Resolve(nav_schema, nav_cursor, ident) # NotFound

(***************************************************************************)
(* Whatever the super-type graph, the members of a class are what it and   *)
(* every class it inherits from declare or are associated with: the        *)
(* visited list neither loses a branch of a diamond nor loops (model.rs    *)
(* 309-341).                                                               *)
(***************************************************************************)
MembersAreInherited ==
    \A ident \in Idents :
      ident \in ToSet(MemberNames(nav_schema, nav_cursor))
        <=> \E c \in Ancestors : Declares(c, ident) \/ Navigates(c, ident)

(***************************************************************************)
(* A class's own properties come before anything it inherits, and what is  *)
(* declared above it comes before its own associations (resolve_in,        *)
(* model.rs 351-384).                                                      *)
(***************************************************************************)
OwnThenInherited ==
    \A ident \in Idents :
      LET answer == Resolve(nav_schema, nav_cursor, ident)
          above  == ReachableFrom(ToSet(Supers(nav_schema, nav_cursor)), {nav_cursor})
      IN  /\ Declares(nav_cursor, ident) => answer = FirstNamed(Stored(nav_schema, nav_cursor), ident)
          /\ ~Declares(nav_cursor, ident) /\ (\E c \in above : Declares(c, ident))
               => \E c \in above :
                    \/ answer = FirstNamed(Stored(nav_schema, c), ident)
                    \/ answer = FirstNamed(Navigable(nav_schema, c), ident)

(***************************************************************************)
(* Which of several ancestors wins.  A line is a chain of super-types from *)
(* the class navigated from, no class twice on it.  A member is placed at  *)
(* the end of a line: the super-types taken are its turns, and the class   *)
(* at the end offers its properties before its first super-type and its    *)
(* associations after its last.                                            *)
(***************************************************************************)
Lines ==
    LET upTo[n \in 0 .. Cardinality(AllPaths)] ==
          IF n = 0 THEN {<<nav_cursor>>}
          ELSE upTo[n - 1] \cup
                 UNION {{Append(line, c) : c \in Inherits[Last(line)] \ ToSet(line)} :
                        line \in upTo[n - 1]}
    IN  upTo[Cardinality(AllPaths)]

PlaceOn(line, last) ==
    LET turn(i) == Min({k \in DOMAIN Supers(nav_schema, line[i]) :
                          Supers(nav_schema, line[i])[k] = line[i + 1]})
    IN  [i \in DOMAIN line |-> IF i < Len(line) THEN turn(i) ELSE last]

OwnPlace(line)         == PlaceOn(line, 0)
AssociationPlace(line) == PlaceOn(line, Len(Supers(nav_schema, Last(line))) + 1)

\* In the order of the first turn where two places differ.
Earlier(p, q) ==
    \E i \in DOMAIN p \cap DOMAIN q :
      p[i] < q[i] /\ \A j \in 1 .. i - 1 : p[j] = q[j]

\* The members of a name, each with its places.
MembersNamed(ident) ==
    {[place |-> OwnPlace(line), type |-> FirstNamed(Stored(nav_schema, Last(line)), ident)] :
        line \in {l \in Lines : Declares(Last(l), ident)}}
      \cup
    {[place |-> AssociationPlace(line), type |-> FirstNamed(Navigable(nav_schema, Last(line)), ident)] :
        line \in {l \in Lines : Navigates(Last(l), ident)}}

(***************************************************************************)
(* Of all the members of a name, on whatever ancestors, the one at the     *)
(* earliest place is what the name means: an earlier super-type, with      *)
(* everything above it, goes before a later one however near that is.  The *)
(* walk of resolve_in (model.rs 351-384) visits each class once, by the    *)
(* way it first comes to it; its list of visited classes, cycles and       *)
(* diamonds must not make it prefer another member.                        *)
(***************************************************************************)
EarliestWins ==
    \A ident \in Idents : \A m \in MembersNamed(ident) :
      (\A other \in MembersNamed(ident) : ~Earlier(other.place, m.place))
        => Resolve(nav_schema, nav_cursor, ident) = m.type

(***************************************************************************)
(* An association can be walked both ways: from the class at either end    *)
(* the other end's property leads to the other class, unless the class     *)
(* has another member of that name (build_navigable, model.rs 267-291:     *)
(* the wrong direction `would mask a real association property`).          *)
(***************************************************************************)
AssociationsBothWays ==
    \A i \in DOMAIN nav_schema.associations : \A side \in {1, 2} :
      LET here  == nav_schema.associations[i][side]
          there == nav_schema.associations[i][3 - side]
          once  == Cardinality({j \in DOMAIN nav_schema.associations :
                     \E s \in {1, 2} : /\ nav_schema.associations[j][s].target = nav_cursor
                                       /\ nav_schema.associations[j][3 - s].prop = there.prop}) = 1
          alone == \A c \in Ancestors :
                     /\ ~Declares(c, there.prop)
                     /\ c # nav_cursor => ~Navigates(c, there.prop)
      IN  nav_cursor = here.target /\ once /\ alone
            => Resolve(nav_schema, nav_cursor, there.prop) = ClassType(there.target)
=============================================================================
