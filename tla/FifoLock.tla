------------------------------- MODULE FifoLock -------------------------------
(* What the mutexes of LK promise: the lock has one owner, and goes from   *)
(* an owner that releases it straight to the thread that has waited        *)
(* longest, whatever the scheduler does meanwhile.                         *)
EXTENDS Sequences

CONSTANTS Lock, Client, NoOwner

VARIABLES owner, waiting

Init == owner = [l \in Lock |-> NoOwner] /\ waiting = [l \in Lock |-> <<>>]

Acquire(l, c) ==
    \/ /\ owner[l] = NoOwner
       /\ owner' = [owner EXCEPT ![l] = c]
       /\ UNCHANGED waiting
    \/ /\ owner[l] \notin {NoOwner, c}
       /\ waiting' = [waiting EXCEPT ![l] = Append(@, c)]
       /\ UNCHANGED owner

Release(l) ==
    /\ owner[l] # NoOwner
    /\ \/ /\ waiting[l] = <<>>
          /\ owner' = [owner EXCEPT ![l] = NoOwner]
          /\ UNCHANGED waiting
       \/ /\ waiting[l] # <<>>
          /\ owner' = [owner EXCEPT ![l] = Head(waiting[l])]
          /\ waiting' = [waiting EXCEPT ![l] = Tail(@)]

Next == \E l \in Lock : Release(l) \/ \E c \in Client : Acquire(l, c)

Spec == Init /\ [][Next]_<<owner, waiting>>
=============================================================================
