-------------------------------- MODULE Blit --------------------------------
(***************************************************************************)
(* What Filter::Scale::AutoFilter promises its caller: between the call    *)
(* and the return every row of the region is filtered with the mode asked  *)
(* for, whatever calls came before; nothing else is written, nothing is    *)
(* written outside a call, and the call returns.                           *)
(***************************************************************************)
EXTENDS Naturals

CONSTANTS Modes, Blank, MaxRows

VARIABLES
    calling,    \* the mode and height asked for, or none
    dest        \* what is in each row of the destination

blitVars == <<calling, dest>>

Rows == 0..(MaxRows - 1)

NoCall == [mode |-> Blank, rows |-> 0]

Init == calling = NoCall /\ dest = [r \in Rows |-> Blank]

Call ==
    /\ calling = NoCall
    /\ \E mode \in Modes, rows \in 1..MaxRows : calling' = [mode |-> mode, rows |-> rows]
    /\ dest' = [r \in Rows |-> Blank]

Write ==
    /\ calling # NoCall
    /\ \E written \in SUBSET {r \in 0..(calling.rows - 1) : dest[r] = Blank} :
           dest' = [r \in Rows |-> IF r \in written THEN calling.mode ELSE dest[r]]
    /\ UNCHANGED calling

Return ==
    /\ calling # NoCall
    /\ \A r \in 0..(calling.rows - 1) : dest[r] = calling.mode
    /\ calling' = NoCall
    /\ UNCHANGED dest

Next == Call \/ Write \/ Return

\* Every call returns.
Returns == (calling # NoCall) ~> (calling = NoCall)

Spec == Init /\ [][Next]_blitVars /\ Returns

=============================================================================
