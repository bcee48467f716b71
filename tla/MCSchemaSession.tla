-------------------------- MODULE MCSchemaSession --------------------------
(***************************************************************************)
(* A schema of two classes, one a prefix of the other, with members that   *)
(* are prefixes of one another, a super-type and an association; queries   *)
(* that use every rule; and a vocabulary that cuts and fuses their lexemes.*)
(***************************************************************************)
EXTENDS SchemaSession

\* Classes A and AA; AA inherits from T.  A has al (Integer), a (of class
\* AA) and, by an association, t (of class AA); AA has e (String), el (of
\* class A) and inherits t (Boolean).
TestSchema ==
    [classes |->
       (<<"A">> :>
          [props |-> <<Property(<<"a", "l">>, Primitive("Integer")),
                       Property(<<"a">>, ClassType(<<"A", "A">>))>>,
           qualified |-> <<>>, supers |-> <<>>]) @@
       (<<"A", "A">> :>
          [props |-> <<Property(<<"e">>, Primitive("String"))>>,
           qualified |-> <<Property(<<"e", "l">>, ClassType(<<"A">>))>>,
           supers |-> << <<"T">> >>]) @@
       (<<"T">> :>
          [props |-> <<Property(<<"t">>, Primitive("Boolean"))>>,
           qualified |-> <<>>, supers |-> <<>>]),
     associations |-> << <<End(<<"l">>, <<"A">>), End(<<"t">>, <<"A", "A">>)>> >>,
     db_path |-> <<"E">>]

All     == <<"a", "l", "l">>
Project == <<"t", "a">>        \* an establishing method
Sort    == <<"a", "t">>        \* a column-reference method
Filter  == <<"l", "e">>        \* a method the machine does not know

EstablishingMethods == {Project}
RefMethods          == {Sort}

\* Pieces: any lexeme, a name of those the schema allows, a literal of a class.
P(bytes)              == [bytes |-> bytes, legal |-> {}, type |-> NoType]
N(bytes, legal)       == [bytes |-> bytes, legal |-> legal, type |-> NoType]
L(bytes, type)        == [bytes |-> bytes, legal |-> {}, type |-> type]

MembersOfA  == {<<"a", "l">>, <<"a">>, <<"t">>}
MembersOfAA == {<<"e">>, <<"e", "l">>, <<"t">>, <<"l">>}
Sources     == {<<"A">>, <<"A", "A">>, <<"T">>, <<"E">>, <<"l", "e", "t">>}

\* Words of several lexemes.
Bar          == <<P(<<"|">>)>>
Dot          == <<P(<<".">>)>>
Comma        == <<P(<<",">>)>>
Shut         == <<P(<<")">>)>>
And          == <<P(<<"&", "&">>)>>
Extent       == Dot \o <<P(All), P(<<"(">>)>> \o Shut
Source(path) == <<N(path, Sources)>> \o Extent
Call(method) == <<P(<<"-", ">">>), P(method), P(<<"(">>)>>
Lambda(var)  == <<P(var)>> \o Bar
Use(var)     == <<P(<<"$">>), P(var)>> \o Dot
Is(literal)  == <<P(<<"=", "=">>), literal>>
Str(s)       == <<"'">> \o s \o <<"'">>
Columns      == <<P(<<"~">>), P(<<"[">>)>>
Square       == <<P(<<"]">>)>>

X  == <<"_">>
al == <<N(<<"a", "l">>, MembersOfA)>>
a  == <<N(<<"a">>, MembersOfA)>>
e  == <<N(<<"e">>, MembersOfAA)>>
Zero == Is(L(<<"0">>, "Number"))
Text1 == Is(L(Str(<<"a">>), "Str"))

\* |A.all()->le(_|$_.a->le(_|$_.e=='a')&&$_.al==0): the inner lambda takes
\* the same name for another class.
QNested == Bar \o Source(<<"A">>) \o Call(Filter) \o Lambda(X)
             \o Use(X) \o a \o Call(Filter) \o Lambda(X) \o Use(X) \o e \o Text1 \o Shut
             \o And \o Use(X) \o al \o Zero \o Shut

\* |A.all()->ta(~[e:_|$_.al,te:_|$_.a.e])->le(_|$_.te==0): a relation whose
\* row has the columns e and te.
QRelation == Bar \o Source(<<"A">>) \o Call(Project) \o Columns
               \o <<P(<<"e">>), P(<<":">>)>> \o Lambda(X) \o Use(X) \o al \o Comma
               \o <<P(<<"t", "e">>), P(<<":">>)>> \o Lambda(X) \o Use(X) \o a \o Dot \o e
               \o Square \o Shut
               \o Call(Filter) \o Lambda(X) \o Use(X)
               \o <<N(<<"t", "e">>, {<<"e">>, <<"t", "e">>})>> \o Is(P(<<"0">>)) \o Shut

\* |A.all()->ta([_|$_.al],['te'])->le(_|$_.at('te')==0)->at('te'): the same
\* by quoted names, read by a getter and sorted by.
TdsColumn == <<N(Str(<<"t", "e">>), {Str(<<"t", "e">>)})>>
QTds == Bar \o Source(<<"A">>) \o Call(Project) \o <<P(<<"[">>)>> \o Lambda(X) \o Use(X) \o al
          \o Square \o Comma \o <<P(<<"[">>), P(Str(<<"t", "e">>))>> \o Square \o Shut
          \o Call(Filter) \o Lambda(X) \o Use(X) \o <<P(Sort), P(<<"(">>)>> \o TdsColumn \o Shut
          \o Is(P(<<"0">>)) \o Shut
          \o Call(Sort) \o TdsColumn \o Shut

\* |A.all()->le(_|AA.all()->ta(~[e:_|$_.e])->le(_|$_.e=='a')&&$_.al==0)
\* ->le(_|$_.al==0): the relation of a subquery is left with it.
QSubquery == Bar \o Source(<<"A">>) \o Call(Filter) \o Lambda(X)
               \o <<P(<<"A", "A">>)>> \o Extent \o Call(Project) \o Columns
               \o <<P(<<"e">>), P(<<":">>)>> \o Lambda(X) \o Use(X) \o e \o Square \o Shut
               \o Call(Filter) \o Lambda(X) \o Use(X) \o <<N(<<"e">>, {<<"e">>})>>
               \o Is(P(Str(<<"a">>))) \o Shut
               \o And \o Use(X) \o al \o Zero \o Shut
               \o Call(Filter) \o Lambda(X) \o Use(X) \o al \o Zero \o Shut

\* {|let _=A.all();$_->le(a|$a.al==0)}
QBlock == <<P(<<"{">>), P(<<"|">>), P(<<"l", "e", "t">>), P(<<" ">>), P(X), P(<<"=">>)>>
            \o Source(<<"A">>) \o <<P(<<";">>), P(<<"$">>), P(X)>>
            \o Call(Filter) \o Lambda(<<"a">>) \o Use(<<"a">>) \o al \o Zero \o Shut
            \o <<P(<<"}">>)>>

\* |A.all()->le(_|$_.t.l.al ==0): associations both ways, and blanks.
QAssociation == Bar \o Source(<<"A">>) \o Call(Filter) \o Lambda(X) \o Use(X)
                  \o <<N(<<"t">>, MembersOfA)>> \o Dot \o <<N(<<"l">>, MembersOfAA)>>
                  \o Dot \o al \o <<P(<<" ">>)>> \o Zero \o Shut

TestQueries == {QNested, QRelation, QTds, QSubquery, QBlock, QAssociation}

\* |A.all()->le(_|$_.a->ta(~[e:_|$_.e])): a relation made from the objects a
\* navigation leads to.
QNavigated == Bar \o Source(<<"A">>) \o Call(Filter) \o Lambda(X)
                \o Use(X) \o a \o Call(Project) \o Columns
                \o <<P(<<"e">>), P(<<":">>)>> \o Lambda(X) \o Use(X) \o e \o Square \o Shut
                \o Shut

\* {|let _=A.all();let e=AA.all();$_->le(a|$a.al==0)}
QTwoLets == <<P(<<"{">>), P(<<"|">>), P(<<"l", "e", "t">>), P(<<" ">>), P(X), P(<<"=">>)>>
            \o Source(<<"A">>)
            \o <<P(<<";">>), P(<<"l", "e", "t">>), P(<<" ">>), P(<<"e">>), P(<<"=">>)>>
            \o Source(<<"A", "A">>) \o <<P(<<";">>), P(<<"$">>), P(X)>>
            \o Call(Filter) \o Lambda(<<"a">>) \o Use(<<"a">>) \o al \o Zero \o Shut
            \o <<P(<<"}">>)>>

\* |AA.all()->le(_|$_.l->le({_:A[0]|$_.al==0})): a binder with its type.
QTypedBinder == Bar \o Source(<<"A", "A">>) \o Call(Filter) \o Lambda(X)
                  \o Use(X) \o <<N(<<"l">>, MembersOfAA)>> \o Call(Filter)
                  \o <<P(<<"{">>), P(X), P(<<":">>), P(<<"A">>), P(<<"[">>), P(<<"0">>)>>
                  \o Square \o Bar \o Use(X) \o al \o Zero \o <<P(<<"}">>)>> \o Shut \o Shut

NavClaimQueries    == {QNavigated}
LetClaimQueries    == {QTwoLets}
BinderClaimQueries == {QTypedBinder}

TestVocab == << <<"|">>, <<"A">>, <<"A", "A">>, <<".">>, <<"a">>, <<"l">>, <<"a", "l", "l">>,
                <<"(">>, <<")">>, <<"-", ">">>, <<"l", "e">>, <<"e">>, <<"_">>, <<"$">>, <<"$", "_">>,
                <<"=", "=">>, <<"0">>, <<"'">>, <<"&", "&">>, <<"_", ".">>, <<".", "a">>, <<".", "e">>,
                <<".", "a", "l">>, <<")", "-", ">">>, <<"(", "_", "|">>, <<"'", ")">>,
                <<"'", "a", "'">>, <<"t">>, <<" ">>,  <<".", "t">>,
                <<"~">>, <<"[">>, <<"]">>, <<":">>, <<",">>, <<"{">>, <<"}">>, <<"=">>, <<";">>,
                <<"t", "e", "'">>, <<"]", ")">>, <<"{", "|">>, <<"'", "t">>, <<"e", ")">>, <<"a", ".">> >>
\* )  and  A, by their ids
TestStrays == {8, 1}
TestStrayBytes == {")"}
=============================================================================
