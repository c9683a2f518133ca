----------------------- MODULE CalibrationTransaction -----------------------
(***************************************************************************)
(* What a calibration session promises of target memory, whatever its      *)
(* commands do and in whatever order they fail: it knows every cell that   *)
(* may differ from what it found, forgets a cell only when that has its    *)
(* first value again, and leaves memory as it found it unless the caller   *)
(* has waived that.                                                        *)
(***************************************************************************)

CONSTANTS Cells, Values

VARIABLES open,     \* a session is connected
          memory,   \* target memory
          base,     \* what the session has found
          dirty,    \* the cells it may have modified
          waived    \* the last request gives up the modifications

transactionVars == <<open, memory, base, dirty, waived>>

Init ==
    /\ open = FALSE /\ dirty = {} /\ waived = FALSE
    /\ memory \in [Cells -> Values] /\ base = memory

Begin ==
    /\ ~open
    /\ open' = TRUE /\ base' = memory
    /\ UNCHANGED <<memory, dirty, waived>>

\* Only cells that are known to be modified change.
Modify ==
    /\ open
    /\ dirty \subseteq dirty' /\ dirty' \subseteq Cells
    /\ memory' \in [Cells -> Values]
    /\ \A c \in Cells \ dirty' : memory'[c] = memory[c]
    /\ UNCHANGED <<open, base, waived>>

Undo ==
    /\ open
    /\ dirty' \subseteq dirty
    /\ memory' \in [Cells -> Values]
    /\ \A c \in Cells \ dirty : memory'[c] = memory[c]
    /\ \A c \in dirty \ dirty' : memory'[c] = base[c]
    /\ UNCHANGED <<open, base, waived>>

\* What it leaves is what it found, or the modifications that were given up.
End ==
    /\ open
    /\ memory' = base \/ (waived /\ memory' = memory)
    /\ open' = FALSE /\ dirty' = {}
    /\ UNCHANGED <<base, waived>>

Ask ==
    /\ waived' \in BOOLEAN
    /\ UNCHANGED <<open, memory, base, dirty>>

\* Between two sessions the target may restart, or be calibrated by another tool.
Foreign ==
    /\ ~open
    /\ memory' \in [Cells -> Values]
    /\ UNCHANGED <<open, base, dirty, waived>>

Next == Ask \/ Begin \/ Modify \/ Undo \/ End \/ Foreign

Spec == Init /\ [][Next]_transactionVars
=============================================================================
