------------------------------- MODULE Preload ------------------------------
(* Preload of a relation (pack/preload.go, runPreload): one query for all     *)
(* parents, then each parent is given its children.  A key is a value and the *)
(* Go type of the field that holds it: a nullable column is a pointer, which  *)
(* a map compares by address.                                                 *)
EXTENDS Integers, Sequences, SequencesExt, FiniteSets, FiniteSetsExt, Functions

CONSTANTS
  Keys,                       \* values of the joining columns; 0 is the zero value
  MaxParents, MaxChildren     \* bounds

VARIABLES
  parents,                    \* values of the batch column, one per parent
  stored,                     \* the related table: key and whether the scope wants it
  nullable,                   \* which side's field is a pointer
  slice,                      \* has_many, or a single child
  given                       \* parent |-> its children; <<>> before the preload

vars == <<parents, stored, nullable, slice, given>>

SeqsUpTo(S, n) == UNION {[1..k -> S] : k \in 0..n}

Init ==
  /\ parents \in SeqsUpTo(Keys, MaxParents)
  /\ stored \in SeqsUpTo([key : Keys, wanted : BOOLEAN], MaxChildren)
  /\ nullable \in {"neither", "parent", "child"}
  /\ slice \in BOOLEAN
  /\ given = <<>>

\* What a map of Go compares: the value, or the address of the row's own copy.
GoKey(side, v, i) == IF nullable = side THEN <<side, i>> ELSE <<"value", v>>

\* A nil pointer or a zero value is no key.
KeyToParents ==
  LET used == {i \in DOMAIN parents : parents[i] # 0}
  IN [k \in {GoKey("parent", parents[i], i) : i \in used} |->
        {i \in used : GoKey("parent", parents[i], i) = k}]

\* The rows the IN (...) and the scope of the preload select.
Children ==
  {j \in DOMAIN stored :
     stored[j].wanted /\ stored[j].key \in {parents[i] : i \in DOMAIN parents} \ {0}}

\* Rows as the query returns them.
Scanned(S) ==
  CHOOSE q \in [1..Cardinality(S) -> S] : \A i, j \in DOMAIN q : i < j => q[i] < q[j]

\* Mutant: the children of every key.
ChildrenByKey_all(k) == Scanned(Children)

ChildrenByKey(k) == Scanned({j \in Children : GoKey("child", stored[j].key, j) = k})

\* A parent without a key, or whose key has no child, keeps what it had.
runPreload ==
  /\ given = <<>> /\ parents # <<>>
  /\ given' = [i \in DOMAIN parents |->
       LET ks == {k \in DOMAIN KeyToParents : i \in KeyToParents[k]}
           kids == IF ks = {} THEN <<>> ELSE ChildrenByKey(CHOOSE k \in ks : TRUE)
       IN IF slice \/ kids = <<>> THEN kids ELSE <<kids[1]>>]
  /\ UNCHANGED <<parents, stored, nullable, slice>>

Next == runPreload

Spec == Init /\ [][Next]_vars

-----------------------------------------------------------------------------
(* Properties.                                                                *)

\* The children of parent i: those with its key that the scope wants.
Owned(i) == {j \in DOMAIN stored : parents[i] # 0 /\ stored[j].key = parents[i] /\ stored[j].wanted}

\* One query for many parents gives each of them all of its own children and no
\* other's, once each, also when several parents share a key (runPreload);
\* provided that neither key field is a pointer, where nothing is attached.
PreloadAttaches ==
  \A i \in DOMAIN given :
    /\ Range(given[i]) \subseteq Owned(i)
    /\ nullable = "neither" =>
         /\ slice => Range(given[i]) = Owned(i) /\ Len(given[i]) = Cardinality(Owned(i))
         /\ ~slice => (given[i] = <<>>) = (Owned(i) = {})
=============================================================================
