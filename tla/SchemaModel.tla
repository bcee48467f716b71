---------------------------- MODULE SchemaModel ----------------------------
(***************************************************************************)
(* The schema contract of src/src/schema/model.rs: classes with stored and *)
(* qualified properties and super-types, associations of two ends, and the *)
(* two walks over them, `member_names` (what the narrower admits) and      *)
(* `resolve` (what the scope machine makes of a name).                     *)
(*                                                                         *)
(* A schema is a record: classes, a function from paths to                 *)
(* [props, qualified, supers]; associations, a sequence of pairs of ends   *)
(* [prop, target]; db_path.  Multiplicities are carried by the code and    *)
(* read by no rule; db_id, simple names and enum values likewise.          *)
(***************************************************************************)
EXTENDS SequencesExt

(***************************************************************************)
(* Types, and the result of resolving a name: a type or NotFound.          *)
(***************************************************************************)
NumericNames  == {"Integer", "Float", "Decimal", "Number"}
TemporalNames == {"Date", "StrictDate", "DateTime"}
PrimName      == NumericNames \cup TemporalNames \cup {"String", "Boolean"}

TypeClass(name) ==
  CASE name \in NumericNames  -> "Numeric"
    [] name \in TemporalNames -> "Temporal"
    [] name = "String"        -> "Str"
    [] name = "Boolean"       -> "Boolean"

Primitive(name) == [kind |-> "primitive", name |-> name]
ClassType(path) == [kind |-> "class", path |-> path]
EnumType(path)  == [kind |-> "enum", path |-> path]
NotFound        == [kind |-> "none"]

Property(name, type) == [name |-> name, type |-> type]
End(prop, target)    == [prop |-> prop, target |-> target]

NamesOf(properties) == [i \in DOMAIN properties |-> properties[i].name]

HasClass(schema, path) == path \in DOMAIN schema.classes

SourcePaths(schema) == DOMAIN schema.classes \cup {schema.db_path}

(***************************************************************************)
(* build_navigable: each end's property is navigable from the class at the *)
(* OTHER end, in the order of the associations.                            *)
(***************************************************************************)
\* Faulty: each end's property is navigable from the class it targets.
StepToOwn(class, end, other) ==
    IF end.target = class THEN <<Property(end.prop, ClassType(end.target))>> ELSE <<>>

StepFrom(class, end, other) ==
    IF end.target = class THEN <<Property(other.prop, ClassType(other.target))>> ELSE <<>>

Navigable(schema, class) ==
    LET steps[n \in 0 .. Len(schema.associations)] ==
          IF n = 0 THEN <<>>
          ELSE LET ends == schema.associations[n]
               IN  steps[n - 1] \o StepFrom(class, ends[1], ends[2])
                                \o StepFrom(class, ends[2], ends[1])
    IN  steps[Len(schema.associations)]

\* What a class declares itself, in the order both walks read it.
Stored(schema, class) ==
    IF HasClass(schema, class)
    THEN schema.classes[class].props \o schema.classes[class].qualified
    ELSE <<>>

Supers(schema, class) ==
    IF HasClass(schema, class) THEN schema.classes[class].supers ELSE <<>>

(***************************************************************************)
(* What the deserialised document is: finitely many classes, each with its *)
(* lists, every property of some type.                                     *)
(***************************************************************************)
IsList(s) == s \in Seq(ToSet(s))

IsPropType(type) == \/ type.kind = "primitive" /\ type.name \in PrimName
                    \/ type.kind \in {"class", "enum"}

IsProperties(s) == IsList(s) /\ \A i \in DOMAIN s : IsPropType(s[i].type)

IsSchema(schema) ==
    /\ IsFiniteSet(DOMAIN schema.classes)
    /\ \A class \in DOMAIN schema.classes :
         /\ IsProperties(schema.classes[class].props)
         /\ IsProperties(schema.classes[class].qualified)
         /\ IsList(schema.classes[class].supers)
    /\ IsList(schema.associations)

\* Every path a walk from `class` can come to.
Paths(schema, class) ==
    {class} \cup DOMAIN schema.classes
      \cup UNION {ToSet(schema.classes[c].supers) : c \in DOMAIN schema.classes}

\* A call of either walk: a class, and the classes visited before it.
Visits(paths) == [class : paths, visited : SUBSET paths]

Visit(class, visited) == [class |-> class, visited |-> visited]

Entered(call) == call.visited \cup {call.class}

(***************************************************************************)
(* member_names: depth first through the super-types, one list of visited  *)
(* classes threaded through the whole walk.  `collect` is the walk itself. *)
(***************************************************************************)
\* What a class and its first n super-types add.
MembersAbove(schema, collect, call) ==
    LET parents == Supers(schema, call.class)
        above[n \in 0 .. Len(parents)] ==
          IF n = 0 THEN [names   |-> NamesOf(Stored(schema, call.class)),
                         visited |-> Entered(call)]
          ELSE LET done == above[n - 1]
                   more == collect[Visit(parents[n], done.visited)]
               IN  [names |-> done.names \o more.names, visited |-> more.visited]
    IN  above[Len(parents)]

\* Faulty: the association steps of the super-types are not collected.
CollectOwnSteps(schema, collect, call) ==
    IF call.class \in call.visited THEN [names |-> <<>>, visited |-> call.visited]
    ELSE LET above == MembersAbove(schema, collect, call)
             own   == IF call.visited = {} THEN NamesOf(Navigable(schema, call.class))
                      ELSE <<>>
         IN  [names |-> above.names \o own, visited |-> above.visited]

CollectMembers(schema, collect, call) ==
    IF call.class \in call.visited THEN [names |-> <<>>, visited |-> call.visited]
    ELSE LET above == MembersAbove(schema, collect, call)
         IN  [names   |-> above.names \o NamesOf(Navigable(schema, call.class)),
              visited |-> above.visited]

MemberNames(schema, class) ==
    LET collect[call \in Visits(Paths(schema, class))] ==
          CollectMembers(schema, collect, call)
    IN  collect[Visit(class, {})].names

(***************************************************************************)
(* resolve: the same walk, stopping at the first member of that name.      *)
(***************************************************************************)
FirstNamed(properties, ident) ==
    LET named == {i \in DOMAIN properties : properties[i].name = ident}
    IN  IF named = {} THEN NotFound ELSE properties[Min(named)].type

\* What a class or the first n super-types find, the class's own first.
FoundAbove(schema, find, call, ident) ==
    LET parents == Supers(schema, call.class)
        above[n \in 0 .. Len(parents)] ==
          IF n = 0 THEN [found   |-> FirstNamed(Stored(schema, call.class), ident),
                         visited |-> Entered(call)]
          ELSE LET done == above[n - 1]
               IN  IF done.found # NotFound THEN done
                   ELSE find[Visit(parents[n], done.visited)]
    IN  above[Len(parents)]

\* Faulty: the association steps of a class are tried before its super-types.
ResolveNavigableFirst(schema, find, call, ident) ==
    LET own == FirstNamed(Navigable(schema, call.class), ident)
    IN  IF call.class \in call.visited THEN [found |-> NotFound, visited |-> call.visited]
        ELSE IF own # NotFound THEN [found |-> own, visited |-> Entered(call)]
        ELSE FoundAbove(schema, find, call, ident)

\* Faulty: only the first super-type is asked.
ResolveFirstParent(schema, find, call, ident) ==
    LET own == FirstNamed(Stored(schema, call.class) \o Navigable(schema, call.class), ident)
    IN  IF call.class \in call.visited THEN [found |-> NotFound, visited |-> call.visited]
        ELSE IF own # NotFound \/ Supers(schema, call.class) = <<>>
        THEN [found |-> own, visited |-> Entered(call)]
        ELSE find[Visit(Supers(schema, call.class)[1], Entered(call))]

\* Faulty: the super-types are asked from the last to the first.
ResolveLastFirst(schema, find, call, ident) ==
    LET parents == Reverse(Supers(schema, call.class))
        above[n \in 0 .. Len(parents)] ==
          IF n = 0 THEN [found   |-> FirstNamed(Stored(schema, call.class), ident),
                         visited |-> Entered(call)]
          ELSE LET done == above[n - 1]
               IN  IF done.found # NotFound THEN done
                   ELSE find[Visit(parents[n], done.visited)]
        last == above[Len(parents)]
    IN  IF call.class \in call.visited THEN [found |-> NotFound, visited |-> call.visited]
        ELSE IF last.found # NotFound THEN last
        ELSE [found   |-> FirstNamed(Navigable(schema, call.class), ident),
              visited |-> last.visited]

ResolveIn(schema, find, call, ident) ==
    IF call.class \in call.visited THEN [found |-> NotFound, visited |-> call.visited]
    ELSE LET above == FoundAbove(schema, find, call, ident)
         IN  IF above.found # NotFound THEN above
             ELSE [found   |-> FirstNamed(Navigable(schema, call.class), ident),
                   visited |-> above.visited]

Resolve(schema, class, ident) ==
    LET find[call \in Visits(Paths(schema, class))] ==
          ResolveIn(schema, find, call, ident)
    IN  find[Visit(class, {})].found
=============================================================================
