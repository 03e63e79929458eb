------------------------------- MODULE KeyQueue -------------------------------
(***************************************************************************)
(* What the keyboard promises the terminal: the keys come out in the order *)
(* they went in, each once; a key that finds the queue full is dropped.    *)
(* The promise ends when the queue breaks.                                 *)
(***************************************************************************)
EXTENDS Naturals, Sequences

CONSTANTS
    Size,        \* how many keys the queue holds
    Key          \* the keys

VARIABLES
    queue,       \* the keys accepted and not yet handed over
    out,         \* the keys handed over so far
    accepted,    \* all the keys accepted so far
    broken       \* has the queue stopped keeping its promise?

vars == <<queue, out, accepted, broken>>

Init == queue = <<>> /\ out = <<>> /\ accepted = <<>> /\ broken = FALSE

Put ==
    /\ ~ broken /\ broken' = FALSE
    /\ Len(queue) < Size
    /\ \E key \in Key :
           /\ accepted' = Append(accepted, key)
           /\ queue' = Append(queue, key)
    /\ out' = out

Get ==
    /\ ~ broken /\ broken' = FALSE
    /\ queue # <<>>
    /\ queue' = Tail(queue)
    /\ out' = Append(out, Head(queue))
    /\ accepted' = accepted

Break == ~ broken /\ broken'

Broken == broken /\ broken'

Next == Put \/ Get \/ Break \/ Broken

Spec == Init /\ [][Next]_vars
===============================================================================
