------------------------------ MODULE LruCache ------------------------------
(***************************************************************************)
(* What an object cache promises: a sequence of items from the least to    *)
(* the most recently used, from which an item is served only while it is   *)
(* young enough, and which a new item shortens from the front, by as few   *)
(* items as the limits ask for.                                            *)
(***************************************************************************)
EXTENDS Integers, Sequences, SequencesExt, Functions

CONSTANTS
    Key, Payload,
    Size,           \* the bytes of each payload
    MaxEntries, MaxBytes,
    Ttl             \* how old an item may be when it is served

VARIABLES
    order,          \* the items, the most recently used last
    time,           \* calls made so far
    served          \* what the last call returned, <<>> for nothing

vars == <<order, time, served>>

Init == order = <<>> /\ time = 0 /\ served = <<>>

Items == Range(order)
Old(x) == time + 1 - x.born > Ttl
Without(X) == SelectSeq(order, LAMBDA x : x \notin X)

Fits(q) ==
    /\ Len(q) <= MaxEntries
    /\ FoldLeft(LAMBDA sum, x : sum + Size[x.payload], 0, q) <= MaxBytes

Forget(X) ==
    /\ order' = Without(X)
    /\ served' = <<>>

\* An item is used; old ones met on the way to it may be forgotten.
Serve(x, X) ==
    /\ ~Old(x) /\ x \notin X
    /\ \A y \in X : Old(y)
    /\ order' = Append(Without(X \cup {x}), x)
    /\ served' = x

Replace(x, d) ==
    /\ order' = Append(Without({x}), [x EXCEPT !.payload = d])
    /\ served' = <<>>

\* A new item under a key of which at most an old item is left.
Store(k, d, X) ==
    /\ \A y \in Items : y.key = k => y \in X
    /\ \A y \in X : y.key = k /\ Old(y)
    /\ LET all == Append(Without(X), [key |-> k, payload |-> d, born |-> time + 1])
           after(n) == SubSeq(all, n + 1, Len(all))
       IN  \E n \in 0..Len(all) :
             /\ Fits(after(n)) /\ \A j \in 0..n - 1 : ~Fits(after(j))
             /\ order' = after(n)
    /\ served' = <<>>

Next ==
    /\ time' = time + 1
    /\ \E X \in SUBSET Items :
         \/ Forget(X)
         \/ \E x \in Items : Serve(x, X)
         \/ \E x \in Items, d \in Payload : Replace(x, d)
         \/ \E k \in Key, d \in Payload : Store(k, d, X)

Spec == Init /\ [][Next]_vars
=============================================================================
