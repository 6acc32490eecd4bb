------------------------------ MODULE MCPgbkCas ------------------------------
(***************************************************************************)
(* PgbkStore with a history variable for the races of CompareAndSwap:      *)
(* which callers have swapped the item a call expects while that call was  *)
(* on its way.  The table and the methods are those of PgbkStore.          *)
(***************************************************************************)
EXTENDS MCPgbkStore

VARIABLE
    rivals      \* rivals[c]: the callers whose CompareAndSwap with the
                \* expected item of c's call has succeeded since c made it

casVars == <<vars, rivals>>

Swapping(c) == call[c] # None /\ call[c].req.op = "CompareAndSwap"

\* c's CompareAndSwap returns a lease in this step.
Swaps(c) == Swapping(c) /\ resp'[c] # None /\ resp'[c].kind = "Lease"

CasInit == Init /\ rivals = [c \in Clients |-> {}]

CasNext ==
    /\ Next
    /\ rivals' = [c \in Clients |->
                    IF ~Swapping(c) THEN {}
                    ELSE rivals[c] \cup
                         {d \in Clients \ {c} :
                             Swaps(d) /\ call[d].req.expected = call[c].req.expected}]

CasSpec == CasInit /\ [][CasNext]_casVars

\* "Concurrent CAS from two callers with the same expected results in
\* exactly one success": a CompareAndSwap does not return a lease when a
\* CompareAndSwap of another caller with the same expected item has
\* returned one while it was on its way.  The statement of CompareAndSwap
\* compares kv.value with expected.Value and nothing else, so a call that
\* swaps a value for itself, or a value put back in between, leaves the
\* row as the other call expects it.
OneSwapPerExpected ==
    [][\A c \in Clients : Swaps(c) => rivals[c] = {}]_casVars
=============================================================================
