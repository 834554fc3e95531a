--------------------------- MODULE OneWorkerFifo ---------------------------
(***************************************************************************)
(* What a queue_t promises a program with a single worker: a first-in      *)
(* first-out queue with one exception.  An item that arrives while the     *)
(* worker has been woken for the last item and has not yet taken it        *)
(* OVERWRITES that last item.                                              *)
(***************************************************************************)
EXTENDS Naturals, Sequences

CONSTANT Items

VARIABLES
    contents,   \* the items waiting, oldest first
    woken,      \* the worker has been woken and has not yet taken an item
    open,       \* FALSE once the queue has been invalidated
    returned    \* the items the worker got, in order

vars == <<contents, woken, open, returned>>

Init == contents = <<>> /\ woken = FALSE /\ open = TRUE /\ returned = <<>>

Put(i) ==
    /\ open
    /\ contents' = Append(contents, i)
    /\ UNCHANGED <<woken, open, returned>>

Overwrite(i) ==
    /\ open /\ woken /\ Len(contents) = 1
    /\ contents' = <<i>>
    /\ UNCHANGED <<woken, open, returned>>

Wake ==
    /\ ~woken
    /\ woken' = TRUE
    /\ UNCHANGED <<contents, open, returned>>

Take ==
    /\ open /\ woken /\ contents # <<>>
    /\ returned' = Append(returned, Head(contents))
    /\ contents' = Tail(contents)
    /\ woken' = FALSE
    /\ UNCHANGED open

GiveUp ==
    /\ ~open /\ woken
    /\ woken' = FALSE
    /\ UNCHANGED <<contents, open, returned>>

Close ==
    /\ open
    /\ open' = FALSE /\ contents' = <<>>
    /\ UNCHANGED <<woken, returned>>

Next == \/ \E i \in Items : Put(i) \/ Overwrite(i)
        \/ Wake \/ Take \/ GiveUp \/ Close

Spec == Init /\ [][Next]_vars

=============================================================================
