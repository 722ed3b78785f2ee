----------------------------- MODULE PathTextProps -----------------------------
(***************************************************************************)
(* The functions of PathText compute what TfsPath says of sequences of     *)
(* components: what the file system modules assume of paths.               *)
(* PathTextProofs proves these properties, but for the last.               *)
(***************************************************************************)
EXTENDS PathText

\* The characters of a path that are in some component.
Solid(p) == Places(p, Char \ {"/", " "})

\* No separator is at or between two places; where the components of a text
\* begin, and where the one that begins at k ends.
Joined(text, j, k) == \A i \in j .. k : text[i] # "/"
Begins(text, solid) == {k \in solid : \A j \in solid : j < k => ~Joined(text, j, k)}
End(text, solid, k) == Max({j \in solid : k <= j /\ Joined(text, k, j)})

\* The n-th of some places, in their order.
Nth(places, n) == CHOOSE k \in places : Cardinality({j \in places : j < k}) = n - 1

\* The components of a text: what is between its separators, without the
\* blanks around it, if anything is left.
ComponentsIn(text, solid) ==
    LET begins == Begins(text, solid) IN
    [n \in 1 .. Cardinality(begins) |->
        SubSeq(text, Nth(begins, n), End(text, solid, Nth(begins, n)))]
ComponentsOf(p) == ComponentsIn(p.text, Solid(p))
Components(text) == ComponentsOf(PathOf(text))

\* The components path.h:16-18 documents: "Each path is made up of several
\* components, separated by any number of forward slashes ('/') and whitespace
\* characters."  They are the words between '/' and blanks.  path.c splits at
\* '/' only: "a b" is one component to it, and two words.
Unspaced(text, j, k) == \A i \in j .. k : text[i] \notin {"/", " "}
WordBegins(text, solid) == {k \in solid : \A j \in solid : j < k => ~Unspaced(text, j, k)}
WordEnd(text, solid, k) == Max({j \in solid : k <= j /\ Unspaced(text, k, j)})
WordsIn(text, solid) ==
    LET begins == WordBegins(text, solid) IN
    [n \in 1 .. Cardinality(begins) |->
        SubSeq(text, Nth(begins, n), WordEnd(text, solid, Nth(begins, n)))]
WordsOf(p) == WordsIn(p.text, Solid(p))

\* No component has a blank inside.
Unbroken(p) ==
    \A j, k \in Solid(p) : j <= k /\ Joined(p.text, j, k) => Unspaced(p.text, j, k)

Word == UNION {ToSet(Components(text)) : text \in Texts}
Place == [w \in Word |-> Cardinality({v \in Word : BytesBefore(Append(v, "/"), Append(w, "/"))})]
WordLen == [w \in Word |-> Len(w)]
Paths == INSTANCE TfsPath WITH
    Name <- Word, NoName <- <<>>, Capacity <- 1, NameLen <- WordLen, NameRank <- Place

-----------------------------------------------------------------------------
\* A component taken from either end of a text is that component, and the
\* rest is the other components, whatever separators and blanks are around
\* them; the rest has no characters just when it has no components, which
\* is what fs.c:316 and fs.c:352 test.  The components are those path.h:16-18
\* documents if none has a blank inside.
PopsComponents ==
    \A p \in {curLhs, curRhs} :
        LET path == ComponentsOf(p)
            first == PopFirst(p)
            last == PopLast(p)
        IN  /\ Unbroken(p) => path = WordsOf(p)
            /\ Chars(first.component) = (IF path = <<>> THEN <<>> ELSE Head(path))
            /\ ComponentsOf(first.rest) = (IF path = <<>> THEN <<>> ELSE Tail(path))
            /\ Chars(last.component) = Paths!LastName(path)
            /\ ComponentsOf(last.rest) = Paths!ParentPath(path)
            /\ Length(last.rest) = 0 <=> Paths!ParentPath(path) = <<>>

\* tfs_path_eq sees nothing but what is between the '/', without the blanks
\* around it.  path.h:55-56 ("Two paths are considered equal if they both
\* contain the same components.") holds of paths without a blank inside a
\* component; "a b" and "a/b" have the same documented components, and differ.
EqRight ==
    result.kind = "eq" =>
        /\ result.equal <=> ComponentsOf(lhs) = ComponentsOf(rhs)
        /\ Unbroken(lhs) /\ Unbroken(rhs) => (result.equal <=> WordsOf(lhs) = WordsOf(rhs))

\* tfs_path_components_len counts what is between the '/'; these are as many
\* as the documented components just when none has a blank inside.
LenRight ==
    result.kind = "len" =>
        /\ result.len = Len(ComponentsOf(lhs))
        /\ result.len = Len(WordsOf(lhs)) <=> Unbroken(lhs)

\* tfs_path_common_ancestor and its out parameters are those of TfsPath, of
\* the documented components if none has a blank inside.  Both rests are
\* empty texts, which fs.c:326 takes for a move of a path to itself, just when
\* the paths have the same components, unless both are the root: their text is
\* returned untrimmed then, and fs.c:292 has refused the move.
AncestorRight ==
    result.kind = "ancestor" =>
        LET l == ComponentsOf(lhs)
            r == ComponentsOf(rhs)
        IN  /\ ComponentsOf(result.ancestor) = Paths!CommonAncestor(l, r)
            /\ ComponentsOf(result.lhsRest) = Paths!PathRest(l, r)
            /\ ComponentsOf(result.rhsRest) = Paths!PathRest(r, l)
            /\ l # <<>> \/ r # <<>> =>
                  (Length(result.lhsRest) = 0 /\ Length(result.rhsRest) = 0 <=> l = r)
            /\ Unbroken(lhs) /\ Unbroken(rhs) =>
                  WordsOf(result.ancestor) = Paths!CommonAncestor(WordsOf(lhs), WordsOf(rhs))

\* The parents of two paths without a common ancestor, if their texts have one
\* '/' between components and no blanks around them, are ordered as TfsPath
\* orders them: this is the order in which a move locks them.
Tidy(p) ==
    Length(p) = Paths!TextLen(ComponentsOf(p)) - (IF ComponentsOf(p) = <<>> THEN 0 ELSE 1)
Apart(v, w) == v = <<>> \/ w = <<>> \/ Head(v) # Head(w)
OrderRight ==
    result.kind = "order" /\ Tidy(PopLast(lhs).rest) /\ Tidy(PopLast(rhs).rest)
        /\ Apart(ComponentsOf(lhs), ComponentsOf(rhs)) =>
            (result.originFirst <=>
                Paths!Before(Paths!ParentPath(ComponentsOf(lhs)), Paths!ParentPath(ComponentsOf(rhs))))
=============================================================================
