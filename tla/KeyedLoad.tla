----------------------------- MODULE KeyedLoad -----------------------------
(***************************************************************************)
(* What loading a sequence of rows promises, for one table seen key by     *)
(* key: rows appear in any grouping, yet the row a key holds never gives   *)
(* way to an earlier one, and a load that completes leaves every key with  *)
(* its last row.  A load that aborts stops anywhere on the way.            *)
(***************************************************************************)
EXTENDS Integers, Sequences

CONSTANT Keys

VARIABLES
  source,   \* the key of each row, in order
  content,  \* the row each key holds, 0 if it holds none of them
  status    \* running, complete or aborted

vars == <<source, content, status>>

Init == /\ source \in Seq(Keys)
        /\ content = [k \in Keys |-> 0]
        /\ status = "running"

\* Some keys move on to a later row of theirs.
Advance == /\ content' \in [Keys -> 0..Len(source)]
           /\ \A k \in Keys : content'[k] # content[k] =>
                                /\ content'[k] > content[k]
                                /\ source[content'[k]] = k

Put == /\ status = "running"
       /\ Advance
       /\ UNCHANGED <<source, status>>

Complete == /\ status = "running"
            /\ \A i \in 1..Len(source) : content[source[i]] >= i
            /\ status' = "complete"
            /\ UNCHANGED <<source, content>>

\* The last request may have been executed although its answer was lost.
Abort == /\ status = "running"
         /\ Advance
         /\ status' = "aborted"
         /\ UNCHANGED source

Next == Put \/ Complete \/ Abort

Spec == Init /\ [][Next]_vars
=============================================================================
