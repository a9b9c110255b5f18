----------------------------- MODULE ItemStore ------------------------------
(***************************************************************************)
(* What the item API of src/src/item.c promises its callers, with the     *)
(* cache, the segments and the fills hidden: one logical map from keys to  *)
(* values, changed atomically by the write calls and read by lookup and   *)
(* by the next/prev iterators.  ItemCache refines it with kv mapped to    *)
(* "the cached item if there is one, else what the segments hold".        *)
(*                                                                         *)
(* ret[t] is thread t's last completed call and its result: Res("val", v) *)
(* for a value read, KeyRes(k, v) for an item found by next/prev,         *)
(* Res("OK", 0), or an error such as Res("ENOENT", 0).  Any read-through  *)
(* call may instead fail with the reader's error (EIO) and change nothing. *)
(* saved[t] is the caller's list of items taken by delete_save, as        *)
(* <<key, value>> pairs in list order.                                     *)
(***************************************************************************)
EXTENDS Naturals, Sequences
LOCAL INSTANCE FiniteSetsExt

CONSTANTS Keys, Vals, Threads, NONE,
          RecordCalls   \* whether ret also names the call that produced it

VARIABLES kv, ret, saved

Res(kind, v) == [kind |-> kind, key |-> NONE, val |-> v]
KeyRes(k, v) == [kind |-> "key", key |-> k, val |-> v]
Call(op, k, v) == [op |-> op, key |-> k, val |-> v]
NoCall == Call("none", NONE, 0)

Results == {Res("val", v) : v \in Vals} \cup {KeyRes(k, v) : k \in Keys, v \in Vals} \cup
           {Res(e, 0) : e \in {"none", "OK", "ENOENT", "EEXIST", "EIO"}}

TypeOK ==
    /\ kv \in [Keys -> Vals \cup {NONE}]
    /\ \A t \in Threads : ret[t].res \in Results
    /\ saved \in [Threads -> Seq(Keys \X Vals)]

Init ==
    /\ kv \in [Keys -> Vals \cup {NONE}]
    /\ ret = [t \in Threads |-> [call |-> NoCall, res |-> Res("none", 0)]]
    /\ saved = [t \in Threads |-> <<>>]

Return(t, c, r) ==
    ret' = [ret EXCEPT ![t] = [call |-> IF RecordCalls THEN c ELSE NoCall, res |-> r]]

Lookup(t, k) ==
    /\ Return(t, Call("lookup", k, 0),
              IF kv[k] = NONE THEN Res("ENOENT", 0) ELSE Res("val", kv[k]))
    /\ UNCHANGED <<kv, saved>>

\* The live keys in lo .. hi (empty when lo > hi).
Live(lo, hi) == {j \in Keys : lo <= j /\ j <= hi /\ kv[j] # NONE}

\* next(k, last): the least live key in k .. last, or -ENOENT.
NextItem(t, k, last) ==
    LET L == Live(k, last) IN
    /\ Return(t, Call("next", k, last),
              IF L = {} THEN Res("ENOENT", 0) ELSE KeyRes(Min(L), kv[Min(L)]))
    /\ UNCHANGED <<kv, saved>>

\* prev(k, first): the greatest live key in first .. k, or -ENOENT.
PrevItem(t, k, first) ==
    LET L == Live(first, k) IN
    /\ Return(t, Call("prev", k, first),
              IF L = {} THEN Res("ENOENT", 0) ELSE KeyRes(Max(L), kv[Max(L)]))
    /\ UNCHANGED <<kv, saved>>

Create(t, k, v) ==
    /\ IF kv[k] = NONE
       THEN kv' = [kv EXCEPT ![k] = v] /\ Return(t, Call("create", k, v), Res("OK", 0))
       ELSE Return(t, Call("create", k, v), Res("EEXIST", 0)) /\ UNCHANGED kv
    /\ UNCHANGED saved

CreateForce(t, k, v) ==
    /\ kv' = [kv EXCEPT ![k] = v]
    /\ Return(t, Call("create_force", k, v), Res("OK", 0))
    /\ UNCHANGED saved

Update(t, k, v) ==
    /\ IF kv[k] # NONE
       THEN kv' = [kv EXCEPT ![k] = v] /\ Return(t, Call("update", k, v), Res("OK", 0))
       ELSE Return(t, Call("update", k, v), Res("ENOENT", 0)) /\ UNCHANGED kv
    /\ UNCHANGED saved

Dirty(t, k) ==
    /\ Return(t, Call("dirty", k, 0),
              IF kv[k] # NONE THEN Res("OK", 0) ELSE Res("ENOENT", 0))
    /\ UNCHANGED <<kv, saved>>

Delete(t, k) ==
    /\ IF kv[k] # NONE
       THEN kv' = [kv EXCEPT ![k] = NONE] /\ Return(t, Call("delete", k, 0), Res("OK", 0))
       ELSE Return(t, Call("delete", k, 0), Res("ENOENT", 0)) /\ UNCHANGED kv
    /\ UNCHANGED saved

DeleteForce(t, k) ==
    /\ kv' = [kv EXCEPT ![k] = NONE]
    /\ Return(t, Call("delete_force", k, 0), Res("OK", 0))
    /\ UNCHANGED saved

\* delete_save: the item is deleted and its value appended to the list.
DeleteSave(t, k) ==
    IF kv[k] # NONE
    THEN /\ kv' = [kv EXCEPT ![k] = NONE]
         /\ saved' = [saved EXCEPT ![t] = Append(@, <<k, kv[k]>>)]
         /\ Return(t, Call("delete_save", k, 0), Res("OK", 0))
    ELSE Return(t, Call("delete_save", k, 0), Res("ENOENT", 0)) /\ UNCHANGED <<kv, saved>>

\* restore: every saved pair is put back, in list order, over what is there.
RECURSIVE PutBack(_, _)
PutBack(m, s) == IF s = <<>> THEN m ELSE PutBack([m EXCEPT ![Head(s)[1]] = Head(s)[2]], Tail(s))

Restore(t) ==
    /\ kv' = PutBack(kv, saved[t])
    /\ saved' = [saved EXCEPT ![t] = <<>>]
    /\ Return(t, Call("restore", NONE, 0), Res("OK", 0))

\* delete_dirty and update_dirty return nothing; callers own a live item.
DeleteDirty(k) ==
    kv[k] # NONE /\ kv' = [kv EXCEPT ![k] = NONE] /\ UNCHANGED <<ret, saved>>

UpdateDirty(k, v) ==
    kv[k] # NONE /\ kv' = [kv EXCEPT ![k] = v] /\ UNCHANGED <<ret, saved>>

\* The calls that read through and so can fail with the reader's error.
ReadCalls ==
    {Call(op, k, v) : op \in {"lookup", "dirty", "update", "delete", "create"},
                      k \in Keys, v \in Vals \cup {0}} \cup
    {Call(op, k, j) : op \in {"next", "prev"}, k \in Keys, j \in Keys} \cup
    {Call("delete_save", k, 0) : k \in Keys}

Fail(t, c) == Return(t, c, Res("EIO", 0)) /\ UNCHANGED <<kv, saved>>

Next ==
    \/ \E t \in Threads, k \in Keys :
          \/ Lookup(t, k) \/ Dirty(t, k) \/ Delete(t, k) \/ DeleteForce(t, k)
          \/ \E v \in Vals : Create(t, k, v) \/ CreateForce(t, k, v)
                             \/ Update(t, k, v)
    \/ \E k \in Keys : DeleteDirty(k) \/ \E v \in Vals : UpdateDirty(k, v)
    \/ \E t \in Threads, c \in IF RecordCalls THEN ReadCalls ELSE {NoCall} : Fail(t, c)
    \/ \E t \in Threads :
          \/ Restore(t)
          \/ \E k \in Keys : \/ DeleteSave(t, k)
                             \/ \E j \in Keys : NextItem(t, k, j) \/ PrevItem(t, k, j)

Spec == Init /\ [][Next]_<<kv, ret, saved>>
=============================================================================
