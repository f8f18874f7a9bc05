------------------------------- MODULE TicLog --------------------------------
(***************************************************************************)
(* What the net game promises, whatever carries it: one log of tics, and   *)
(* every node runs the tics of that log, all of them, in order.  An entry  *)
(* of the log is the set of commands of one tic; the log only grows.  The  *)
(* promise binds until it is given up, which cannot be undone.             *)
(***************************************************************************)
EXTENDS Integers, FiniteSets

CONSTANT Nodes

VARIABLES log,   \* tic number |-> the commands of that tic
          ran,   \* node |-> the tics it has run
          binds  \* the promise has not been given up

vars == <<log, ran, binds>>

Init == log = << >> /\ ran = [n \in Nodes |-> << >>] /\ binds = TRUE

\* The tics already in the log stay as they are.
Decide ==
  /\ DOMAIN log \subseteq DOMAIN log'
  /\ \A t \in DOMAIN log : log'[t] = log[t]
  /\ \E n \in DOMAIN log' \cup {0} : DOMAIN log' = 0 .. n
  /\ UNCHANGED ran

\* Node n runs tic t, the first that it has not run.
Run(n, t) ==
  /\ t \in DOMAIN log
  /\ DOMAIN ran[n] = 0 .. t - 1
  /\ ran' = [ran EXCEPT ![n] = [u \in 0 .. t |-> IF u = t THEN log[t] ELSE ran[n][u]]]
  /\ UNCHANGED log

Kept == binds /\ binds' /\ (Decide \/ \E n \in Nodes : \E t \in DOMAIN log : Run(n, t))

GivenUp == binds' = FALSE

Next == Kept \/ GivenUp

Spec == Init /\ [][Next]_vars
=============================================================================
