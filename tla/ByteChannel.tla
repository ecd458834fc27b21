---------------------------- MODULE ByteChannel ----------------------------
(***************************************************************************)
(* What backpressure.rs promises its callers, without wakers or polling:   *)
(* an ordered byte channel that holds at most Capacity bytes.  Bytes are   *)
(* counted, not named: accepted counts those a write has returned for,     *)
(* delivered those a read has handed out.                                  *)
(***************************************************************************)
EXTENDS Naturals

CONSTANT Capacity

VARIABLES accepted, delivered, finished, reading
chanVars == <<accepted, delivered, finished, reading>>

Init == /\ accepted = 0
        /\ delivered = 0
        /\ finished = FALSE      \* TRUE once no further byte will be accepted
        /\ reading = "open"      \* then "ended", and "abandoned" for good

\* A write takes some bytes, as long as all of them fit.
Accept == /\ ~finished
          /\ reading = "open"
          /\ accepted' > accepted
          /\ accepted' <= delivered + Capacity
          /\ UNCHANGED <<delivered, finished, reading>>

\* A read hands out some of the bytes accepted so far.
Deliver == /\ reading = "open"
           /\ delivered' > delivered
           /\ delivered' <= accepted
           /\ UNCHANGED <<accepted, finished, reading>>

\* The writer shuts down or goes away.
Finish == /\ finished' = TRUE
          /\ UNCHANGED <<accepted, delivered, reading>>

\* End of stream is announced only when nothing is left to deliver.
End == /\ finished
       /\ delivered = accepted
       /\ reading = "open"
       /\ reading' = "ended"
       /\ UNCHANGED <<accepted, delivered, finished>>

\* The reader goes away.
Abandon == /\ reading' = "abandoned"
           /\ UNCHANGED <<accepted, delivered, finished>>

Next == Accept \/ Deliver \/ Finish \/ End \/ Abandon

Spec == Init /\ [][Next]_chanVars
=============================================================================
