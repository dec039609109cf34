---------------------------- MODULE TypeLattice ----------------------------
(***************************************************************************)
(* The types that the traffic profiler infers for the values of a          *)
(* parameter, and how they widen: internal/profile/types.go.               *)
(***************************************************************************)

ValueType == {"empty", "bool", "int", "float", "uuid", "ipv4", "ipv6", "email",
              "date", "hex", "json", "alnum", "var", "freetext"}

\* The types whose values draw from letters and digits only.
AlnumCharset == {"bool", "int", "hex", "alnum"}

\* The types a path position may collapse to on its values' account.
Promotable == {"int", "uuid", "hex", "date"}

Join(a, b) ==
    IF a = b THEN a
    ELSE IF a = "empty" THEN b
    ELSE IF b = "empty" THEN a
    ELSE IF "freetext" \in {a, b} THEN "freetext"
    ELSE IF {a, b} = {"int", "float"} THEN "float"
    ELSE IF {a, b} = {"int", "hex"} THEN "hex"
    ELSE IF {a, b} \subseteq AlnumCharset THEN "alnum"
    ELSE "freetext"

\* a is recorded as b without widening b: what Matches asks of a value's type.
Below(a, b) == Join(a, b) = b

\* types.go:130 calls Join the least upper bound of two types.  Then a parameter's
\* type is the same whatever the order of its values and of the merges of its
\* endpoints, and whatever is observed again.
JoinIsLeastUpperBound ==
    \A a, b \in ValueType :
        /\ Join(a, b) \in ValueType
        /\ Below(a, Join(a, b)) /\ Below(b, Join(a, b))
        /\ \A c \in ValueType : Below(a, c) /\ Below(b, c) => Below(Join(a, b), c)

JoinIsOrderFree ==
    \A a, b, c \in ValueType :
        /\ Join(a, b) = Join(b, a)
        /\ Join(Join(a, b), c) = Join(a, Join(b, c))
=============================================================================
