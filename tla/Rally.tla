------------------------------- MODULE Rally -------------------------------
(***************************************************************************)
(* What every notification method of pingpong promises, whatever           *)
(* mechanism carries the notification: two threads hit N balls back and    *)
(* forth.  A ball is a TSC stamp.  Thread 0 serves, each ball is stamped   *)
(* later than the one before it, each is caught exactly once, by the other *)
(* thread, and the next one is only hit after that.                        *)
(*                                                                         *)
(* The modules Spin, CondVar, Pipe, Semaphore and Futex are shown to       *)
(* implement this specification.                                           *)
(***************************************************************************)
EXTENDS Integers

CONSTANTS N,      \* number of balls (pingpong -n)
          Stamps  \* the values a stamp can have

VARIABLES pub,   \* pub[w]: how many balls thread w has hit
          rcv,   \* rcv[w]: how many balls thread w has caught
          ball,  \* the stamp of the ball hit last
          last   \* last[w]: the stamp of the ball that w caught last

rallyVars == <<pub, rcv, ball, last>>

Threads == {0, 1}

\* The workers start with tsc = 1, so every ball has a stamp above 1.
Init ==
    /\ pub = [w \in Threads |-> 0]
    /\ rcv = [w \in Threads |-> 0]
    /\ ball = 1
    /\ last = [w \in Threads |-> 1]

\* Thread 0 hits when it has caught an answer to all its balls, thread 1
\* when it has caught one ball more than it has hit.
Hit(w) ==
    /\ pub[0] + pub[1] < N
    /\ rcv[w] = pub[w] + w
    /\ ball' \in Stamps
    /\ ball' > ball
    /\ pub' = [pub EXCEPT ![w] = @ + 1]
    /\ UNCHANGED <<rcv, last>>

Catch(w) ==
    /\ rcv[w] < pub[1 - w]
    /\ rcv' = [rcv EXCEPT ![w] = @ + 1]
    /\ last' = [last EXCEPT ![w] = ball]
    /\ UNCHANGED <<pub, ball>>

Next == \E w \in Threads : Hit(w) \/ Catch(w)

Spec == Init /\ [][Next]_rallyVars
=============================================================================
