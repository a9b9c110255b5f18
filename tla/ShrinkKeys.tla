----------------------------- MODULE ShrinkKeys -----------------------------
(***************************************************************************)
(* shrink_boundary() and the range cut of shrink_around() in              *)
(* src/src/item.c over keys that are byte strings, where the in-place     *)
(* scoutfs_key_inc/_dec of an item's key is not the next or previous key *)
(* of the key space: an item key that is a prefix of the next item's key *)
(* increments past it ("smaller items share a prefix with the next larger *)
(* item").  ItemCache keeps keys as naturals, for which the crossing test *)
(* always holds; this module checks the test itself.                       *)
(*                                                                         *)
(* The key comparison and inc/dec live outside src/ and follow spec.md:   *)
(* keys compare byte by byte, a prefix first; inc/dec work on the key's   *)
(* bytes in place, as a big-endian number of the key's own length.        *)
(* Incrementing the largest or decrementing the smallest key of a length *)
(* is a precondition violation (spec.md, open questions), so item keys    *)
(* are neither all zero nor all ByteMax bytes.                             *)
(***************************************************************************)
EXTENDS Integers, FiniteSets, Sequences
LOCAL INSTANCE SequencesExt

CONSTANTS ByteMax,      \* the largest byte value
          KeyLenMax,    \* the longest key, in bytes
          ItemsMax,     \* the most items in the tree around a shrink
          ShrinkMin,    \* BOUNDARY_MIN
          ShrinkMax     \* BOUNDARY_MAX

Str == UNION {[1 .. n -> 0 .. ByteMax] : n \in 1 .. KeyLenMax}

(* scoutfs_key_compare() < 0: the first differing byte, or a prefix.     *)
RECURSIVE KeyLessAt(_, _, _)
KeyLessAt(a, b, i) ==
    IF i > Len(a) THEN Len(a) < Len(b)
    ELSE IF i > Len(b) THEN FALSE
    ELSE IF a[i] # b[i] THEN a[i] < b[i]
    ELSE KeyLessAt(a, b, i + 1)

KeyLess(a, b) == KeyLessAt(a, b, 1)

InKeyRange(x, r) == ~KeyLess(x, r.start) /\ ~KeyLess(r.end, x)

(* scoutfs_key_inc()/_dec() of a key in place: carry or borrow from the  *)
(* last byte towards the first.                                            *)
RECURSIVE IncAt(_, _)
IncAt(k, i) == IF k[i] < ByteMax THEN [k EXCEPT ![i] = @ + 1]
               ELSE IncAt([k EXCEPT ![i] = 0], i - 1)

RECURSIVE DecAt(_, _)
DecAt(k, i) == IF k[i] > 0 THEN [k EXCEPT ![i] = @ - 1]
               ELSE DecAt([k EXCEPT ![i] = ByteMax], i - 1)

KeyInc(k) == IncAt(k, Len(k))
KeyDec(k) == DecAt(k, Len(k))

ItemKeys == {k \in Str : (\E i \in DOMAIN k : k[i] # 0) /\
                         (\E i \in DOMAIN k : k[i] # ByteMax)}

NoItem == 0

\* Variant: shrink_boundary() taking every item as a boundary.
BoundaryOkAlways(Q, k, nx, right) == TRUE

(* The crossing test: key_inc of the item's key (walking right) is still *)
(* at or before the next item, key_dec (walking left) at or after it.    *)
BoundaryOk(Q, k, nx, right) ==
    IF right THEN ~KeyLess(Q[nx], KeyInc(Q[k])) ELSE ~KeyLess(KeyDec(Q[k]), Q[nx])

(***************************************************************************)
(* shrink_boundary() from the item at index k of the sorted item keys Q,  *)
(* towards the range bound: f and n are found and *next_ret so far, i the *)
(* loop count.  At the range's edge (or past the last item) the current   *)
(* item is the boundary and nothing remains beyond it.  Otherwise the     *)
(* item is recorded as a boundary, with next as the remaining neighbour,  *)
(* only when key_inc (right) or key_dec (left) of its key does not cross  *)
(* next; the walk stops there after ShrinkMin items, and at a dirty next. *)
(***************************************************************************)
RECURSIVE BoundaryWalk(_, _, _, _, _, _, _, _)
BoundaryWalk(Q, D, k, i, bound, right, f, n) ==
    LET nx == IF right THEN k + 1 ELSE k - 1 IN
    IF i >= ShrinkMax THEN [found |-> f, next |-> n]
    ELSE IF nx \notin DOMAIN Q \/
            (IF right THEN KeyLess(bound, Q[nx]) ELSE KeyLess(Q[nx], bound))
    THEN [found |-> k, next |-> NoItem]
    ELSE LET ok == BoundaryOk(Q, k, nx, right)
             f2 == IF ok THEN k ELSE f
             n2 == IF ok THEN nx ELSE n
         IN IF (ok /\ i >= ShrinkMin) \/ nx \in D THEN [found |-> f2, next |-> n2]
            ELSE BoundaryWalk(Q, D, nx, i + 1, bound, right, f2, n2)

ShrinkBoundary(Q, D, k, bound, right) ==
    BoundaryWalk(Q, D, k, 0, bound, right, NoItem, NoItem)

(***************************************************************************)
(* shrink_around(rng) of item k: no shrink when either walk found no      *)
(* boundary or when a split has no spare item; otherwise the items        *)
(* first .. last go and rng is cut: it ends at key_dec(first) when items  *)
(* remain before, starts at key_inc(last) when they remain only after,    *)
(* and when both remain a new range from key_inc(last) to the old end is  *)
(* added.                                                                  *)
(***************************************************************************)
ShrinkCut(Q, D, rng, k) ==
    LET L == ShrinkBoundary(Q, D, k, rng.start, FALSE)
        G == ShrinkBoundary(Q, D, k, rng.end, TRUE)
        prev == L.next
        next == G.next
        left == [start |-> rng.start, end |-> KeyDec(Q[L.found])]
        right == [start |-> KeyInc(Q[G.found]), end |-> rng.end]
    IN IF L.found = NoItem \/ G.found = NoItem \/
          (prev # NoItem /\ next # NoItem /\ L.found = G.found)
       THEN [shrunk |-> FALSE]
       ELSE [shrunk |-> TRUE,
             gone |-> L.found .. G.found,
             ranges |-> (IF prev # NoItem THEN {left} ELSE {}) \cup
                        (IF next # NoItem THEN {right} ELSE {})]

-----------------------------------------------------------------------------
\* Sorted item keys of at most ItemsMax items.
ItemSeqs == {SetToSortSeq(X, KeyLess) :
                X \in {X \in SUBSET ItemKeys : Cardinality(X) \in 1 .. ItemsMax}}

(***************************************************************************)
(* Freeing items must keep the ranges honest even for keys that share a  *)
(* prefix: after shrink_around(), every item of the old range that stays *)
(* lies in a remaining range, and no freed item does (it would read as a *)
(* cached negative).  The item the shrinker started from is freed.        *)
(***************************************************************************)
ShrinkCutExact ==
    \A Q \in ItemSeqs, s, e \in Str :
      \A k \in {j \in DOMAIN Q : InKeyRange(Q[j], [start |-> s, end |-> e])} :
        \A D \in SUBSET (DOMAIN Q \ {k}) :
          LET rng == [start |-> s, end |-> e]
              cut == ShrinkCut(Q, D, rng, k)
          IN cut.shrunk =>
               /\ k \in cut.gone
               /\ \A j \in DOMAIN Q : InKeyRange(Q[j], rng) =>
                     (j \in cut.gone <=> ~\E r \in cut.ranges : InKeyRange(Q[j], r))
=============================================================================
