------------------------- MODULE MCSchemaNavigation -------------------------
(***************************************************************************)
(* Every super-type graph over three classes and a path that is no class   *)
(* (cycles, self loops, diamonds, dangling parents), a name declared by    *)
(* some of them under different types, and associations that share its     *)
(* name, cross two classes or come back to one.                            *)
(***************************************************************************)
EXTENDS SchemaNavigation

Cs == {"A", "B", "C"}

\* At most two parents, in either order; D is no class.
ParentLists ==
    {<<>>, <<"A">>, <<"B">>, <<"C">>, <<"A", "B">>, <<"B", "C">>, <<"C", "B">>, <<"D", "C">>}

Declared ==
    [A |-> <<Property("p", Primitive("Integer"))>>,
     B |-> <<Property("p", ClassType("C")), Property("q", EnumType("K"))>>,
     C |-> <<Property("p", Primitive("Date")), Property("p", ClassType("A"))>>]

Associations ==
    { <<>>,
      << <<End("n", "A"), End("p", "B")>> >>,
      << <<End("n", "A"), End("q", "C")>>, <<End("n", "A"), End("n", "A")>> >> }

AllSchemas ==
    { [classes |-> [c \in Cs |->
         [props     |-> IF c \in declaring THEN SubSeq(Declared[c], 1, 1) ELSE <<>>,
          qualified |-> IF c \in declaring THEN Tail(Declared[c]) ELSE <<>>,
          supers    |-> parents[c]]],
       associations |-> assocs, db_path |-> "Db"] :
      parents \in [Cs -> ParentLists], declaring \in SUBSET Cs, assocs \in Associations }

AllIdents == {"p", "q", "n", "z"}
=============================================================================
