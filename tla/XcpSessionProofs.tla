-------------------------- MODULE XcpSessionProofs --------------------------
(***************************************************************************)
(* Safety of the calibration session for every set of objects, every       *)
(* layout of their spans and every byte alphabet.                          *)
(*                                                                         *)
(* None of the properties is inductive alone.  That saved bytes are those  *)
(* of the session's beginning needs that every modified byte has a record  *)
(* and that records and the rest of the running batch do not overlap; that *)
(* a session ends restored needs to know at which points of disconnect the *)
(* records are exactly the objects still to restore.  From the same        *)
(* invariant the session implements CalibrationTransaction.                *)
(***************************************************************************)
EXTENDS XcpSession, TLAPS

IInv ==
    /\ TypeOK
    /\ RecordsPristine
    /\ ModifiedIsPending
    /\ FailedWriteUndone
    /\ RestoreErrorKeepsPending
    /\ StreamOwned
    /\ PendingDisjoint
    /\ SessionPoint
    /\ BatchPoint

-----------------------------------------------------------------------------
(* What the helpers do *)

\* write_memory changes nothing outside the object, and a confirmed transfer
\* leaves exactly the payload in it.
LEMMA TransferEffect ==
    ASSUME NEW n \in Names, NEW payload, NEW ok \in BOOLEAN,
           \A c \in Span[n] : payload[c] \in Values,
           memory \in Memory,
           Transfer(n, payload, ok)
    PROVE  /\ memory' \in Memory
           /\ \A c \in Cells : c \notin Span[n] => memory'[c] = memory[c]
           /\ \A c \in Span[n] : memory'[c] = memory[c] \/ memory'[c] = payload[c]
           /\ ok => \A c \in Span[n] : memory'[c] = payload[c]
  <1>1. PICK stored \in SUBSET Span[n] :
            /\ ok => stored = Span[n]
            /\ memory' = Stored(payload, stored)
    BY DEF Transfer
  <1>2. Span[n] \subseteq Cells
    BY SessionAssumption
  <1>3. /\ \A c \in Cells : memory'[c] = IF c \in stored THEN payload[c] ELSE memory[c]
        /\ memory' = [c \in Cells |-> IF c \in stored THEN payload[c] ELSE memory[c]]
    BY <1>1 DEF Stored
  <1>4. memory' \in Memory
    <2>1. \A c \in Cells : (IF c \in stored THEN payload[c] ELSE memory[c]) \in Values
      BY <1>1 DEF Memory
    <2>2. QED  BY <1>3, <2>1 DEF Memory
  <1>5. QED  BY <1>1, <1>2, <1>3, <1>4

\* Saving the bytes of an object adds at most that object to the records and
\* changes no other record.
LEMMA RecordedEffect ==
    ASSUME NEW n \in Names, TypeOK
    PROVE  /\ DOMAIN Recorded(n) = DOMAIN original \cup {n}
           /\ \A m \in DOMAIN original : Recorded(n)[m] = original[m]
           /\ n \notin DOMAIN original =>
                /\ Recorded(n)[n] \in [Span[n] -> Values]
                /\ \A c \in Span[n] : Recorded(n)[n][c] = memory[c]
  <1>1. CASE n \in DOMAIN original
    BY <1>1 DEF Recorded
  <1>2. CASE n \notin DOMAIN original
    <2>1. Recorded(n) = [m \in DOMAIN original \cup {n} |->
                            IF m = n THEN Bytes(n) ELSE original[m]]
      BY <1>2 DEF Recorded
    <2>2. Bytes(n) \in [Span[n] -> Values] /\ \A c \in Span[n] : Bytes(n)[c] = memory[c]
      BY SessionAssumption DEF Bytes, TypeOK, Memory
    <2>3. QED  BY <1>2, <2>1, <2>2
  <1>3. QED  BY <1>1, <1>2

\* An object the running batch has not reached, and that has no record, still
\* has the bytes of the session's beginning.
LEMMA UnreachedIsPristine ==
    ASSUME IInv, pc = "write", NEW n \in todo, n \notin DOMAIN original
    PROVE  \A c \in Span[n] : memory[c] = pristine[c]
  <1>1. client /\ n \in Names
    BY DEF IInv, SessionPoint, TypeOK
  <1>2. \A m \in DOMAIN original : Span[n] \cap Span[m] = {}
    BY DEF IInv, PendingDisjoint
  <1>3. Span[n] \subseteq Cells
    BY <1>1, SessionAssumption
  <1>4. QED  BY <1>1, <1>2, <1>3 DEF IInv, ModifiedIsPending

-----------------------------------------------------------------------------
(* Every step keeps the invariant *)

LEMMA InitIInv == Init => IInv
  BY DEF Init, IInv, TypeOK, RecordsPristine, ModifiedIsPending, FailedWriteUndone,
         RestoreErrorKeepsPending, StreamOwned, PendingDisjoint, SessionPoint,
         BatchPoint, NoRecords, Points, Methods, Outcomes

LEMMA WriteCallIInv ==
    ASSUME IInv, NEW batch \in SUBSET Names, WriteCall(batch)
    PROVE  IInv'
  <1> USE DEF IInv, WriteCall, daqVars, Return
  <1>1. TypeOK'  BY DEF TypeOK, Points, Methods, Outcomes
  <1>2. RecordsPristine' /\ ModifiedIsPending' /\ StreamOwned'
    BY DEF RecordsPristine, ModifiedIsPending, StreamOwned
  <1>3. FailedWriteUndone' /\ RestoreErrorKeepsPending'
    BY DEF FailedWriteUndone, RestoreErrorKeepsPending
  <1>4. PendingDisjoint'
    <2>1. CASE NonOverlapping(batch)
      <3>1. \A n, m \in DOMAIN original : n # m => Span[n] \cap Span[m] = {}
        BY DEF PendingDisjoint
      <3>2. \A n \in batch : \A m \in batch \cup DOMAIN original :
                n # m => Span[n] \cap Span[m] = {}
        BY <2>1 DEF NonOverlapping
      <3>3. pc' = "write" /\ todo' = batch /\ original' = original
        BY <2>1
      <3>4. \A n, m \in DOMAIN original \cup batch : n # m => Span[n] \cap Span[m] = {}
        BY <3>1, <3>2
      <3>5. QED  BY <3>3, <3>4 DEF PendingDisjoint
    <2>2. CASE ~NonOverlapping(batch)
      BY <2>2 DEF PendingDisjoint
    <2>3. QED  BY <2>1, <2>2
  <1>5. SessionPoint' /\ BatchPoint'
    BY DEF SessionPoint, BatchPoint
  <1>6. QED  BY <1>1, <1>2, <1>3, <1>4, <1>5

LEMMA RecordFailsIInv ==
    ASSUME IInv, NEW n \in Names, RecordFails(n)
    PROVE  IInv'
  <1> USE DEF IInv, RecordFails, daqVars, Recover
  <1>1. TypeOK'  BY DEF TypeOK, Points
  <1>2. RecordsPristine' /\ ModifiedIsPending' /\ StreamOwned'
    BY DEF RecordsPristine, ModifiedIsPending, StreamOwned
  <1>3. FailedWriteUndone' /\ RestoreErrorKeepsPending'
    BY DEF FailedWriteUndone, RestoreErrorKeepsPending
  <1>4. PendingDisjoint'  BY DEF PendingDisjoint
  <1>5. SessionPoint'  BY DEF SessionPoint, BatchPoint
  <1>6. BatchPoint'
    BY UnreachedIsPristine DEF BatchPoint
  <1>7. QED  BY <1>1, <1>2, <1>3, <1>4, <1>5, <1>6

LEMMA WriteObjectIInv ==
    ASSUME IInv, NEW n \in Names, WriteObject(n)
    PROVE  IInv'
  <1>1. PICK payload \in Memory, ok \in BOOLEAN :
            /\ Transfer(n, payload, ok)
            /\ \/ ok /\ todo' = todo \ {n} /\ UNCHANGED <<pc, failures>>
               \/ ~ok /\ Recover(original', attempted')
    BY DEF WriteObject
  <1>2. /\ pc = "write" /\ n \in todo /\ client /\ op = "write"
        /\ original' = Recorded(n)
        /\ attempted' = attempted \cup {n}
        /\ UNCHANGED <<client, pristine, op, outcome, daq_active, streaming>>
    BY DEF WriteObject, daqVars, IInv, SessionPoint, BatchPoint
  <1>3. /\ memory' \in Memory
        /\ \A c \in Cells : c \notin Span[n] => memory'[c] = memory[c]
    <2>1. \A c \in Span[n] : payload[c] \in Values
      BY SessionAssumption DEF Memory
    <2>2. memory \in Memory  BY DEF IInv, TypeOK
    <2>3. QED  BY <1>1, <2>1, <2>2, TransferEffect
  <1>4. /\ DOMAIN original' = DOMAIN original \cup {n}
        /\ \A m \in DOMAIN original : original'[m] = original[m]
        /\ n \notin DOMAIN original =>
                /\ original'[n] \in [Span[n] -> Values]
                /\ \A c \in Span[n] : original'[n][c] = memory[c]
    BY <1>2, RecordedEffect DEF IInv
  <1>5. \/ ok /\ todo' = todo \ {n} /\ pc' = "write" /\ failures' = failures
        \/ /\ ~ok /\ pc' = "restore" /\ todo' = attempted' \cap DOMAIN original'
           /\ failures' = FALSE
    BY <1>1, <1>2 DEF Recover
  <1>6. TypeOK'
    BY <1>2, <1>3, <1>4, <1>5 DEF IInv, TypeOK, Points
  <1>7. RecordsPristine'
    <2>1. n \notin DOMAIN original => \A c \in Span[n] : memory[c] = pristine[c]
      BY <1>2, UnreachedIsPristine
    <2>2. QED  BY <1>2, <1>4, <2>1 DEF IInv, RecordsPristine
  <1>8. ModifiedIsPending'
    BY <1>2, <1>3, <1>4 DEF IInv, ModifiedIsPending
  <1>9. FailedWriteUndone' /\ RestoreErrorKeepsPending' /\ StreamOwned'
    BY <1>2, <1>5 DEF IInv, FailedWriteUndone, RestoreErrorKeepsPending, StreamOwned
  <1>10. PendingDisjoint'
    <2>1. \A a, b \in DOMAIN original \cup todo : a # b => Span[a] \cap Span[b] = {}
      BY <1>2 DEF IInv, PendingDisjoint
    <2>2. DOMAIN original' \cup (IF pc' = "write" THEN todo' ELSE {})
            \subseteq DOMAIN original \cup todo
      BY <1>2, <1>4, <1>5
    <2>3. QED  BY <2>1, <2>2 DEF PendingDisjoint
  <1>11. SessionPoint'
    BY <1>2, <1>4, <1>5 DEF IInv, SessionPoint
  <1>12. BatchPoint'
    BY <1>2, <1>4, <1>5 DEF IInv, BatchPoint
  <1>13. QED  BY <1>6, <1>7, <1>8, <1>9, <1>10, <1>11, <1>12 DEF IInv

LEMMA RestoreObjectIInv ==
    ASSUME IInv, NEW n \in Names, RestoreObject(n)
    PROVE  IInv'
  <1>1. PICK ok \in BOOLEAN :
            /\ Transfer(n, original[n], ok)
            /\ \/ ok /\ original' = Forgotten(n) /\ UNCHANGED failures
               \/ ~ok /\ failures' = TRUE /\ UNCHANGED original
    BY DEF RestoreObject
  <1>2. /\ pc = "restore" /\ n \in todo /\ todo' = todo \ {n}
        /\ n \in DOMAIN original /\ client
        /\ UNCHANGED <<client, pristine, pc, op, attempted, outcome, daq_active, streaming>>
    BY DEF RestoreObject, daqVars, IInv, SessionPoint
  <1>3. \A c \in Span[n] : original[n][c] = pristine[c]
    BY <1>2 DEF IInv, RecordsPristine
  <1>4. /\ memory' \in Memory
        /\ \A c \in Cells : c \notin Span[n] => memory'[c] = memory[c]
        /\ \A c \in Span[n] : memory'[c] = memory[c] \/ memory'[c] = pristine[c]
        /\ ok => \A c \in Span[n] : memory'[c] = pristine[c]
    <2>1. \A c \in Span[n] : original[n][c] \in Values
      BY <1>2 DEF IInv, TypeOK
    <2>2. memory \in Memory  BY DEF IInv, TypeOK
    <2>3. QED  BY <1>1, <1>3, <2>1, <2>2, TransferEffect
  <1>5. \/ /\ ok /\ failures' = failures
           /\ DOMAIN original' = DOMAIN original \ {n}
           /\ \A m \in DOMAIN original \ {n} : original'[m] = original[m]
        \/ ~ok /\ failures' = TRUE /\ original' = original
    BY <1>1 DEF Forgotten
  <1>6. TypeOK'
    BY <1>2, <1>4, <1>5 DEF IInv, TypeOK
  <1>7. RecordsPristine'
    BY <1>2, <1>5 DEF IInv, RecordsPristine
  <1>8. ModifiedIsPending'
    BY <1>2, <1>4, <1>5 DEF IInv, ModifiedIsPending
  <1>9. FailedWriteUndone' /\ RestoreErrorKeepsPending' /\ StreamOwned'
    BY <1>2 DEF IInv, FailedWriteUndone, RestoreErrorKeepsPending, StreamOwned
  <1>10. PendingDisjoint'
    <2>1. \A a, b \in DOMAIN original : a # b => Span[a] \cap Span[b] = {}
      BY DEF IInv, PendingDisjoint
    <2>2. pc' # "write" /\ DOMAIN original' \subseteq DOMAIN original
      BY <1>2, <1>5
    <2>3. QED  BY <2>1, <2>2 DEF PendingDisjoint
  <1>11. SessionPoint'
    BY <1>2, <1>5 DEF IInv, SessionPoint
  <1>12. BatchPoint'
    <2>1. \A m \in Names : \A c \in Span[m] :
                memory[c] = pristine[c] => memory'[c] = pristine[c]
      BY <1>4, SessionAssumption
    <2>2. attempted \subseteq Names  BY DEF IInv, TypeOK
    <2>3. QED  BY <1>2, <1>4, <1>5, <2>1, <2>2 DEF IInv, BatchPoint
  <1>13. QED  BY <1>6, <1>7, <1>8, <1>9, <1>10, <1>11, <1>12 DEF IInv

\* A step that touches neither memory nor records nor the stream keeps what is
\* said about them.
LEMMA FrameKept ==
    ASSUME IInv, pc' # "write",
           UNCHANGED <<client, memory, pristine, original, daq_active, streaming>>
    PROVE  RecordsPristine' /\ ModifiedIsPending' /\ StreamOwned' /\ PendingDisjoint'
  <1>1. RecordsPristine' /\ ModifiedIsPending' /\ StreamOwned'
    BY DEF IInv, RecordsPristine, ModifiedIsPending, StreamOwned
  <1>2. \A a, b \in DOMAIN original : a # b => Span[a] \cap Span[b] = {}
    BY DEF IInv, PendingDisjoint
  <1>3. PendingDisjoint'  BY <1>2 DEF PendingDisjoint
  <1>4. QED  BY <1>1, <1>3

LEMMA WriteReturnsIInv == IInv /\ WriteReturns => IInv'
  <1> SUFFICES ASSUME IInv, WriteReturns PROVE IInv'
    OBVIOUS
  <1> USE DEF IInv, WriteReturns, daqVars, Return
  <1>1. RecordsPristine' /\ ModifiedIsPending' /\ StreamOwned' /\ PendingDisjoint'
    BY FrameKept
  <1>2. TypeOK'  BY DEF TypeOK, Points, Outcomes
  <1>3. FailedWriteUndone' /\ RestoreErrorKeepsPending'
    BY DEF FailedWriteUndone, RestoreErrorKeepsPending
  <1>4. SessionPoint' /\ BatchPoint'  BY DEF SessionPoint, BatchPoint
  <1>5. QED  BY <1>1, <1>2, <1>3, <1>4

LEMMA RestoreCallIInv ==
    ASSUME IInv, NEW names \in SUBSET Names, RestoreCall(names)
    PROVE  IInv'
  <1> USE DEF IInv, RestoreCall, daqVars, Recover
  <1>1. RecordsPristine' /\ ModifiedIsPending' /\ StreamOwned' /\ PendingDisjoint'
    BY FrameKept
  <1>2. TypeOK'  BY DEF TypeOK, Points, Methods, Outcomes
  <1>3. FailedWriteUndone' /\ RestoreErrorKeepsPending'
    BY DEF FailedWriteUndone, RestoreErrorKeepsPending
  <1>4. SessionPoint' /\ BatchPoint'  BY DEF SessionPoint, BatchPoint
  <1>5. QED  BY <1>1, <1>2, <1>3, <1>4

LEMMA RestoreReturnsIInv == IInv /\ RestoreReturns => IInv'
  <1> SUFFICES ASSUME IInv, RestoreReturns PROVE IInv'
    OBVIOUS
  <1> USE DEF IInv, RestoreReturns, daqVars, Return
  <1>1. RecordsPristine' /\ ModifiedIsPending' /\ StreamOwned' /\ PendingDisjoint'
    BY FrameKept
  <1>2. TypeOK'  BY DEF TypeOK, Points, Outcomes
  <1>3. FailedWriteUndone'
    BY DEF FailedWriteUndone, BatchPoint
  <1>4. RestoreErrorKeepsPending'
    BY DEF RestoreErrorKeepsPending, SessionPoint
  <1>5. SessionPoint'  BY DEF SessionPoint
  <1>6. BatchPoint'  BY DEF BatchPoint
  <1>7. QED  BY <1>1, <1>2, <1>3, <1>4, <1>5, <1>6

\* The first part of disconnect, shared with connect.
LEMMA LeaveSessionEffect ==
    ASSUME IInv, NEW restore \in BOOLEAN, LeaveSession(restore)
    PROVE  \/ /\ restore /\ DOMAIN original # {}
              /\ pc' = "restore" /\ todo' = DOMAIN original /\ failures' = FALSE
           \/ /\ ~restore \/ DOMAIN original = {}
              /\ pc' = "stop_daq" /\ todo' = todo /\ failures' = failures
  BY DEF LeaveSession, Recover

LEMMA DisconnectCallIInv ==
    ASSUME IInv, NEW restore \in BOOLEAN, DisconnectCall(restore)
    PROVE  IInv'
  <1>1. /\ pc = "idle"
        /\ op' = IF restore THEN "disconnect" ELSE "drop"
        /\ attempted' = {}
        /\ UNCHANGED <<client, memory, pristine, daq_active, streaming>>
    BY DEF DisconnectCall, daqVars
  <1>2. CASE client
    <2>1. LeaveSession(restore) /\ outcome' = "none" /\ original' = original
      BY <1>2 DEF DisconnectCall
    <2>2. \/ /\ restore /\ DOMAIN original # {}
             /\ pc' = "restore" /\ todo' = DOMAIN original /\ failures' = FALSE
          \/ /\ ~restore \/ DOMAIN original = {}
             /\ pc' = "stop_daq" /\ todo' = todo /\ failures' = failures
      BY <2>1, LeaveSessionEffect
    <2>3. RecordsPristine' /\ ModifiedIsPending' /\ StreamOwned' /\ PendingDisjoint'
      <3>1. pc' # "write"  BY <2>2
      <3>2. QED  BY <1>1, <2>1, <3>1, FrameKept
    <2>4. TypeOK'
      BY <1>1, <2>1, <2>2 DEF IInv, TypeOK, Points, Methods, Outcomes
    <2>5. FailedWriteUndone' /\ RestoreErrorKeepsPending'
      BY <1>1, <2>1, <2>2 DEF FailedWriteUndone, RestoreErrorKeepsPending
    <2>6. SessionPoint'
      BY <1>1, <1>2, <2>1, <2>2 DEF IInv, SessionPoint
    <2>7. BatchPoint'
      BY <1>1, <2>1, <2>2 DEF BatchPoint
    <2>8. QED  BY <2>3, <2>4, <2>5, <2>6, <2>7 DEF IInv
  <1>3. CASE ~client
    <2>1. DOMAIN original = {}
      BY <1>3 DEF IInv, SessionPoint
    <2>2. /\ pc' = "idle" /\ outcome' = "ok"
          /\ todo' = todo /\ failures' = failures
          /\ DOMAIN original' = {}
      BY <1>3, <2>1 DEF DisconnectCall, Return, NoRecords
    <2>3. TypeOK'
      BY <1>1, <2>2 DEF IInv, TypeOK, Points, Methods, Outcomes
    <2>4. RecordsPristine' /\ ModifiedIsPending' /\ StreamOwned' /\ PendingDisjoint'
      BY <1>1, <1>3, <2>2 DEF IInv, RecordsPristine, ModifiedIsPending, StreamOwned,
                              PendingDisjoint
    <2>5. FailedWriteUndone' /\ RestoreErrorKeepsPending'
      BY <1>1, <2>2 DEF FailedWriteUndone, RestoreErrorKeepsPending
    <2>6. SessionPoint' /\ BatchPoint'
      BY <1>1, <1>3, <2>2 DEF IInv, SessionPoint, BatchPoint
    <2>7. QED  BY <2>3, <2>4, <2>5, <2>6 DEF IInv
  <1>4. QED  BY <1>2, <1>3

LEMMA ConnectCallIInv == IInv /\ ConnectCall => IInv'
  <1> SUFFICES ASSUME IInv, ConnectCall PROVE IInv'
    OBVIOUS
  <1>1. /\ pc = "idle" /\ op' = "connect" /\ attempted' = {} /\ outcome' = "none"
        /\ UNCHANGED <<client, memory, pristine, original, daq_active, streaming>>
    BY DEF ConnectCall, daqVars
  <1>2. \/ /\ client /\ DOMAIN original # {}
           /\ pc' = "restore" /\ todo' = DOMAIN original /\ failures' = FALSE
        \/ /\ client /\ DOMAIN original = {}
           /\ pc' = "stop_daq" /\ todo' = todo /\ failures' = failures
        \/ ~client /\ pc' = "open" /\ todo' = todo /\ failures' = failures
    BY LeaveSessionEffect DEF ConnectCall
  <1>3. RecordsPristine' /\ ModifiedIsPending' /\ StreamOwned' /\ PendingDisjoint'
    <2>1. pc' # "write"  BY <1>2
    <2>2. QED  BY <1>1, <2>1, FrameKept
  <1>4. TypeOK'
    BY <1>1, <1>2 DEF IInv, TypeOK, Points, Methods, Outcomes
  <1>5. FailedWriteUndone' /\ RestoreErrorKeepsPending' /\ BatchPoint'
    BY <1>1, <1>2 DEF FailedWriteUndone, RestoreErrorKeepsPending, BatchPoint
  <1>6. SessionPoint'
    BY <1>1, <1>2 DEF IInv, SessionPoint
  <1>7. QED  BY <1>3, <1>4, <1>5, <1>6 DEF IInv

LEMMA StopDaqIInv == IInv /\ StopDaq => IInv'
  <1> SUFFICES ASSUME IInv, StopDaq PROVE IInv'
    OBVIOUS
  <1>1. /\ pc = "stop_daq"
        /\ UNCHANGED <<client, memory, pristine, original, op, todo, attempted, failures>>
    BY DEF StopDaq
  <1>2. \/ /\ daq_active /\ daq_active' = daq_active /\ streaming' \in {FALSE, streaming}
           /\ pc' = "idle" /\ outcome' = "error"
        \/ /\ daq_active' = FALSE /\ streaming' = FALSE
           /\ pc' = "idle" /\ outcome' = "ok" /\ op = "stop_daq"
        \/ /\ daq_active' = FALSE /\ streaming' = FALSE
           /\ pc' = "close" /\ outcome' = outcome /\ op # "stop_daq"
    BY DEF StopDaq, Return, IInv, StreamOwned, TypeOK
  <1>3. RecordsPristine' /\ ModifiedIsPending'
    BY <1>1 DEF IInv, RecordsPristine, ModifiedIsPending
  <1>4. PendingDisjoint'
    <2>1. \A a, b \in DOMAIN original : a # b => Span[a] \cap Span[b] = {}
      BY DEF IInv, PendingDisjoint
    <2>2. pc' # "write"  BY <1>2
    <2>3. QED  BY <1>1, <2>1, <2>2 DEF PendingDisjoint
  <1>5. TypeOK'
    BY <1>1, <1>2 DEF IInv, TypeOK, Points, Outcomes
  <1>6. StreamOwned'
    BY <1>1, <1>2 DEF IInv, StreamOwned
  <1>7. FailedWriteUndone' /\ RestoreErrorKeepsPending' /\ BatchPoint'
    <2>1. op # "write"  BY <1>1 DEF IInv, SessionPoint
    <2>2. QED  BY <1>1, <1>2, <2>1 DEF FailedWriteUndone, RestoreErrorKeepsPending, BatchPoint
  <1>8. SessionPoint'
    BY <1>1, <1>2 DEF IInv, SessionPoint
  <1>9. QED  BY <1>3, <1>4, <1>5, <1>6, <1>7, <1>8 DEF IInv

LEMMA CloseClientIInv == IInv /\ CloseClient => IInv'
  <1> SUFFICES ASSUME IInv, CloseClient PROVE IInv'
    OBVIOUS
  <1>1. /\ pc = "close" /\ client' = FALSE /\ DOMAIN original' = {}
        /\ UNCHANGED <<memory, pristine, op, todo, attempted, failures, daq_active, streaming>>
    BY DEF CloseClient, daqVars, NoRecords
  <1>2. \/ pc' = "idle" /\ outcome' = "error"
        \/ pc' = "open" /\ outcome' = outcome /\ op = "connect"
        \/ pc' = "idle" /\ outcome' = "ok"
    BY DEF CloseClient, Return
  <1>3. op \in {"disconnect", "drop", "connect"} /\ ~daq_active /\ ~streaming
    BY <1>1 DEF IInv, SessionPoint, StreamOwned
  <1>4. TypeOK'
    BY <1>1, <1>2 DEF IInv, TypeOK, Points, Outcomes
  <1>5. RecordsPristine' /\ ModifiedIsPending' /\ StreamOwned' /\ PendingDisjoint'
    BY <1>1, <1>2, <1>3 DEF RecordsPristine, ModifiedIsPending, StreamOwned, PendingDisjoint
  <1>6. FailedWriteUndone' /\ RestoreErrorKeepsPending' /\ BatchPoint'
    BY <1>1, <1>2, <1>3 DEF FailedWriteUndone, RestoreErrorKeepsPending, BatchPoint
  <1>7. SessionPoint'
    BY <1>1, <1>2, <1>3 DEF SessionPoint
  <1>8. QED  BY <1>4, <1>5, <1>6, <1>7 DEF IInv

LEMMA OpenClientIInv == IInv /\ OpenClient => IInv'
  <1> SUFFICES ASSUME IInv, OpenClient PROVE IInv'
    OBVIOUS
  <1>1. /\ pc = "open" /\ pc' = "idle" /\ ~client /\ op = "connect"
        /\ DOMAIN original = {} /\ ~daq_active /\ ~streaming
        /\ UNCHANGED <<memory, op, todo, attempted, failures, streaming>>
    BY DEF OpenClient, Return, IInv, SessionPoint, StreamOwned
  <1>2. \/ /\ outcome' = "error" /\ client' = client /\ pristine' = pristine
           /\ DOMAIN original' = {} /\ daq_active' = FALSE
        \/ /\ outcome' = "ok" /\ client' = TRUE /\ pristine' = memory
           /\ DOMAIN original' = {} /\ daq_active' = FALSE
    BY <1>1 DEF OpenClient, Return, NoRecords, IInv, TypeOK
  <1>3. TypeOK'
    BY <1>1, <1>2 DEF IInv, TypeOK, Points, Outcomes
  <1>4. RecordsPristine' /\ ModifiedIsPending' /\ StreamOwned' /\ PendingDisjoint'
    BY <1>1, <1>2 DEF RecordsPristine, ModifiedIsPending, StreamOwned, PendingDisjoint
  <1>5. FailedWriteUndone' /\ RestoreErrorKeepsPending' /\ BatchPoint'
    BY <1>1, <1>2 DEF FailedWriteUndone, RestoreErrorKeepsPending, BatchPoint
  <1>6. SessionPoint'
    BY <1>1, <1>2 DEF SessionPoint
  <1>7. QED  BY <1>3, <1>4, <1>5, <1>6 DEF IInv

LEMMA StartDaqIInv == IInv /\ StartDaq => IInv'
  <1> SUFFICES ASSUME IInv, StartDaq PROVE IInv'
    OBVIOUS
  <1>1. /\ pc = "idle" /\ pc' = "idle" /\ client /\ op' = "start_daq" /\ attempted' = {}
        /\ outcome' \in {"ok", "error"}
        /\ UNCHANGED <<client, memory, pristine, original, todo, failures>>
    BY DEF StartDaq, Return
  <1>2. \/ daq_active' = daq_active /\ streaming' = streaming
        \/ daq_active' = TRUE /\ streaming' \in BOOLEAN
    BY DEF StartDaq, daqVars
  <1>3. TypeOK'
    BY <1>1, <1>2 DEF IInv, TypeOK, Points, Methods, Outcomes
  <1>4. RecordsPristine' /\ ModifiedIsPending' /\ PendingDisjoint'
    BY <1>1 DEF IInv, RecordsPristine, ModifiedIsPending, PendingDisjoint
  <1>5. StreamOwned'
    BY <1>1, <1>2 DEF IInv, StreamOwned
  <1>6. FailedWriteUndone' /\ RestoreErrorKeepsPending' /\ BatchPoint'
    BY <1>1 DEF FailedWriteUndone, RestoreErrorKeepsPending, BatchPoint
  <1>7. SessionPoint'
    BY <1>1 DEF IInv, SessionPoint
  <1>8. QED  BY <1>3, <1>4, <1>5, <1>6, <1>7 DEF IInv

LEMMA StopDaqCallIInv == IInv /\ StopDaqCall => IInv'
  <1> SUFFICES ASSUME IInv, StopDaqCall PROVE IInv'
    OBVIOUS
  <1> USE DEF IInv, StopDaqCall, daqVars
  <1>1. RecordsPristine' /\ ModifiedIsPending' /\ StreamOwned' /\ PendingDisjoint'
    BY FrameKept
  <1>2. TypeOK'  BY DEF TypeOK, Points, Methods, Outcomes
  <1>3. FailedWriteUndone' /\ RestoreErrorKeepsPending' /\ BatchPoint'
    BY DEF FailedWriteUndone, RestoreErrorKeepsPending, BatchPoint
  <1>4. SessionPoint'  BY DEF SessionPoint
  <1>5. QED  BY <1>1, <1>2, <1>3, <1>4

LEMMA TargetChangesIInv == IInv /\ TargetChanges => IInv'
  <1> SUFFICES ASSUME IInv, TargetChanges PROVE IInv'
    OBVIOUS
  <1> USE DEF IInv, TargetChanges, daqVars
  <1>1. TypeOK'  BY DEF TypeOK
  <1>2. RecordsPristine' /\ ModifiedIsPending' /\ StreamOwned' /\ PendingDisjoint'
    BY DEF RecordsPristine, ModifiedIsPending, StreamOwned, PendingDisjoint
  <1>3. op # "write"  BY DEF SessionPoint
  <1>4. FailedWriteUndone' /\ RestoreErrorKeepsPending'
    BY <1>3 DEF FailedWriteUndone, RestoreErrorKeepsPending
  <1>5. SessionPoint' /\ BatchPoint'
    BY DEF SessionPoint, BatchPoint
  <1>6. QED  BY <1>1, <1>2, <1>4, <1>5

LEMMA NextIInv == IInv /\ [Next]_vars => IInv'
  <1> SUFFICES ASSUME IInv, [Next]_vars PROVE IInv'
    OBVIOUS
  <1>1. CASE UNCHANGED vars
    BY <1>1 DEF vars, daqVars, IInv, TypeOK, RecordsPristine, ModifiedIsPending,
         FailedWriteUndone, RestoreErrorKeepsPending, StreamOwned, PendingDisjoint,
         SessionPoint, BatchPoint
  <1>2. CASE Next
    BY <1>2, WriteCallIInv, RestoreCallIInv, RecordFailsIInv, WriteObjectIInv,
       RestoreObjectIInv, WriteReturnsIInv, RestoreReturnsIInv, DisconnectCallIInv,
       ConnectCallIInv, StopDaqIInv, CloseClientIInv, OpenClientIInv, StartDaqIInv,
       StopDaqCallIInv, TargetChangesIInv DEF Next
  <1>3. QED  BY <1>1, <1>2

-----------------------------------------------------------------------------
(* The theorems *)

\* The inductive invariant holds in every state of every session.
THEOREM SessionInvariant == Spec => []IInv
  <1>1. Init => IInv  BY InitIInv
  <1>2. IInv /\ [Next]_vars => IInv'  BY NextIInv
  <1>3. QED  BY <1>1, <1>2, PTL DEF Spec

\* The variables keep their types.
THEOREM TypeCorrect == Spec => []TypeOK
  <1>1. IInv => TypeOK  BY DEF IInv
  <1>2. QED  BY <1>1, SessionInvariant, PTL

\* Saved bytes are those of the session's beginning, whatever spans the objects
\* have and whichever commands fail.
THEOREM RecordsArePristine == Spec => []RecordsPristine
  <1>1. IInv => RecordsPristine  BY DEF IInv
  <1>2. QED  BY <1>1, SessionInvariant, PTL

\* No modification of target memory is ever without a record.
THEOREM NoModificationForgotten == Spec => []ModifiedIsPending
  <1>1. IInv => ModifiedIsPending  BY DEF IInv
  <1>2. QED  BY <1>1, SessionInvariant, PTL

\* Records and modifications agree.
THEOREM RecordsAreExact == Spec => []RecordsExact
  BY RecordsArePristine, NoModificationForgotten, PTL DEF RecordsExact

\* A batch that fails with its own error has been undone completely.
THEOREM FailedBatchUndone == Spec => []FailedWriteUndone
  <1>1. IInv => FailedWriteUndone  BY DEF IInv
  <1>2. QED  BY <1>1, SessionInvariant, PTL

\* After a restore error the session is connected and has records to retry.
THEOREM RestoreErrorRetryable == Spec => []RestoreErrorKeepsPending
  <1>1. IInv => RestoreErrorKeepsPending  BY DEF IInv
  <1>2. QED  BY <1>1, SessionInvariant, PTL

\* No DAQ stream outlives the session that owns it.
THEOREM StreamHasOwner == Spec => []StreamOwned
  <1>1. IInv => StreamOwned  BY DEF IInv
  <1>2. QED  BY <1>1, SessionInvariant, PTL

\* No failure makes the session forget memory, a record or the stream.
THEOREM FailuresTracked == Spec => []FailuresKeepTrack
  BY FailedBatchUndone, RestoreErrorRetryable, StreamHasOwner, PTL DEF FailuresKeepTrack

\* Without a record memory is as the open session found it.
LEMMA UntouchedIsPristine ==
    ASSUME IInv, client, DOMAIN original = {}
    PROVE  memory = pristine
  <1>1. \A c \in Cells : memory[c] = pristine[c]
    BY DEF IInv, ModifiedIsPending
  <1>2. memory \in Memory /\ pristine \in Memory
    BY DEF IInv, TypeOK
  <1>3. QED  BY <1>1, <1>2 DEF Memory

\* A session that is left by connect or disconnect(restore = TRUE) leaves the
\* target memory it found.
THEOREM SessionsRestore == Spec => SessionEndRestores
  <1>1. ASSUME IInv, [Next]_vars, client, ~client', op # "drop"
        PROVE  memory = pristine
    <2>1. CloseClient
      BY <1>1 DEF Next, vars, daqVars, WriteCall, RestoreCall, RecordFails, WriteObject,
         RestoreObject, WriteReturns, RestoreReturns, DisconnectCall, ConnectCall,
         StopDaq, OpenClient, StartDaq, StopDaqCall, TargetChanges
    <2>2. DOMAIN original = {}
      <3>1. pc = "close"  BY <2>1 DEF CloseClient
      <3>2. QED  BY <1>1, <3>1 DEF IInv, SessionPoint
    <2>3. QED  BY <1>1, <2>2, UntouchedIsPristine
  <1>2. IInv /\ [Next]_vars => [client /\ ~client' /\ op # "drop" => memory = pristine]_vars
    BY <1>1
  <1>3. QED  BY <1>2, SessionInvariant, PTL DEF Spec, SessionEndRestores

-----------------------------------------------------------------------------
(* The transaction on target memory *)

\* The cells with a record, and what a step does to them.
LEMMA DirtyCells ==
    ASSUME IInv
    PROVE  /\ Dirty \subseteq Cells
           /\ \A c : c \in Dirty <=> \E n \in DOMAIN original : c \in Span[n]
  BY SessionAssumption DEF IInv, TypeOK, Dirty

\* A step that leaves memory, the records and the session alone is a request or
\* a stutter.
LEMMA RequestSteps ==
    ASSUME UNCHANGED <<client, memory, pristine, original>>
    PROVE  Transaction!Ask
  <1>1. Dirty' = Dirty
    BY DEF Dirty
  <1>2. (op' = "drop") \in BOOLEAN
    OBVIOUS
  <1>3. QED  BY <1>1, <1>2 DEF Transaction!Ask

\* A write modifies an object it has a record of.
LEMMA WriteModifies ==
    ASSUME IInv, NEW n \in Names, WriteObject(n)
    PROVE  Transaction!Modify
  <1>1. client /\ UNCHANGED <<client, pristine, op>>
    BY DEF IInv, SessionPoint, WriteObject
  <1>2. DOMAIN original' = DOMAIN original \cup {n}
    BY RecordedEffect DEF IInv, WriteObject
  <1>3. Dirty \subseteq Dirty' /\ Span[n] \subseteq Dirty'
    BY <1>2 DEF Dirty
  <1>4. Dirty' \subseteq Cells
    BY <1>2, SessionAssumption DEF IInv, TypeOK, Dirty
  <1>5. memory' \in Memory /\ \A c \in Cells : c \notin Span[n] => memory'[c] = memory[c]
    <2>1. PICK payload \in Memory, ok \in BOOLEAN : Transfer(n, payload, ok)
      BY DEF WriteObject
    <2>2. \A c \in Span[n] : payload[c] \in Values
      BY SessionAssumption DEF Memory
    <2>3. QED  BY <2>1, <2>2, TransferEffect DEF IInv, TypeOK
  <1>6. QED  BY <1>1, <1>3, <1>4, <1>5 DEF Transaction!Modify, Memory

\* A restored object has the bytes the session has found; one that fails may have
\* any of them.
LEMMA RestoreUndoes ==
    ASSUME IInv, NEW n \in Names, RestoreObject(n)
    PROVE  Transaction!Undo
  <1>1. client /\ UNCHANGED <<client, pristine, op>> /\ n \in DOMAIN original
    BY DEF IInv, SessionPoint, RestoreObject
  <1>2. PICK ok \in BOOLEAN :
            /\ Transfer(n, original[n], ok)
            /\ ok => original' = Forgotten(n)
            /\ ~ok => original' = original
    BY DEF RestoreObject
  <1>3. /\ memory' \in Memory
        /\ \A c \in Cells : c \notin Span[n] => memory'[c] = memory[c]
        /\ ok => \A c \in Span[n] : memory'[c] = original[n][c]
    <2>1. \A c \in Span[n] : original[n][c] \in Values
      BY <1>1 DEF IInv, TypeOK
    <2>2. QED  BY <1>2, <2>1, TransferEffect DEF IInv, TypeOK
  <1>4. Span[n] \subseteq Dirty
    BY <1>1 DEF Dirty
  <1>5. Dirty' \subseteq Dirty
    BY <1>2 DEF Dirty, Forgotten
  <1>6. ASSUME NEW c \in Dirty \ Dirty' PROVE memory'[c] = pristine[c]
    <2>1. ok /\ DOMAIN original' = DOMAIN original \ {n}
      BY <1>2, <1>6 DEF Dirty, Forgotten
    <2>2. c \in Span[n]
      BY <1>6, <2>1 DEF Dirty
    <2>3. original[n][c] = pristine[c]
      BY <1>1, <2>2 DEF IInv, RecordsPristine
    <2>4. QED  BY <1>3, <2>1, <2>2, <2>3
  <1>7. QED  BY <1>1, <1>3, <1>4, <1>5, <1>6 DEF Transaction!Undo, Memory

\* A session is closed with nothing to undo, or after disconnect(restore = FALSE).
LEMMA CloseEnds ==
    ASSUME IInv, CloseClient
    PROVE  Transaction!End
  <1>1. /\ client /\ client' = FALSE /\ UNCHANGED <<memory, pristine, op>>
        /\ op \in {"disconnect", "connect"} => DOMAIN original = {}
        /\ op \in {"disconnect", "drop", "connect"}
    BY DEF IInv, SessionPoint, CloseClient
  <1>2. Dirty' = {}
    BY DEF CloseClient, NoRecords, Dirty
  <1>3. DOMAIN original = {} => memory = pristine
    BY <1>1, UntouchedIsPristine
  <1>4. QED  BY <1>1, <1>2, <1>3 DEF Transaction!End

\* Opening begins a session or leaves everything as it was.
LEMMA OpenBegins ==
    ASSUME IInv, OpenClient
    PROVE  Transaction!Begin \/ Transaction!Ask
  <1>1. ~client /\ DOMAIN original = {} /\ UNCHANGED <<memory, op>>
    BY DEF IInv, SessionPoint, OpenClient
  <1>2. Dirty = {} /\ (DOMAIN original' = {} => Dirty' = {})
    BY <1>1 DEF Dirty
  <1>3. CASE client' = TRUE /\ original' = NoRecords /\ pristine' = memory
    <2>1. Dirty' = Dirty
      BY <1>2, <1>3 DEF NoRecords
    <2>2. QED  BY <1>1, <1>3, <2>1 DEF Transaction!Begin
  <1>4. CASE UNCHANGED <<client, pristine>> /\ (original' = original \/ original' = NoRecords)
    <2>1. Dirty' = Dirty
      BY <1>1, <1>2, <1>4 DEF NoRecords
    <2>2. (op' = "drop") \in BOOLEAN
      OBVIOUS
    <2>3. QED  BY <1>1, <1>4, <2>1, <2>2 DEF Transaction!Ask
  <1>5. QED  BY <1>3, <1>4 DEF OpenClient

\* Without a session there are no records that disconnect could forget.
LEMMA DisconnectAsks ==
    ASSUME IInv, NEW restore \in BOOLEAN, DisconnectCall(restore)
    PROVE  Transaction!Ask
  <1>1. UNCHANGED <<client, memory, pristine>>
    BY DEF DisconnectCall
  <1>2. original' = original \/ (~client /\ original' = NoRecords)
    BY DEF DisconnectCall
  <1>3. Dirty' = Dirty
    BY <1>2 DEF IInv, SessionPoint, NoRecords, Dirty
  <1>4. (op' = "drop") \in BOOLEAN
    OBVIOUS
  <1>5. QED  BY <1>1, <1>3, <1>4 DEF Transaction!Ask

LEMMA TargetIsForeign ==
    ASSUME TargetChanges
    PROVE  Transaction!Foreign
  <1>1. Dirty' = Dirty
    BY DEF TargetChanges, Dirty
  <1>2. QED  BY <1>1 DEF TargetChanges, Transaction!Foreign, Memory

LEMMA InitTransaction == Init => Transaction!Init
  <1> SUFFICES ASSUME Init PROVE Transaction!Init
    OBVIOUS
  <1>1. Dirty = {}
    BY DEF Init, NoRecords, Dirty
  <1>2. QED  BY <1>1 DEF Init, Transaction!Init, Memory

LEMMA StepTransaction ==
    IInv /\ [Next]_vars => [Transaction!Next]_(Transaction!transactionVars)
  <1> SUFFICES ASSUME IInv, [Next]_vars
               PROVE  [Transaction!Next]_(Transaction!transactionVars)
    OBVIOUS
  <1>1. ASSUME NEW batch \in SUBSET Names, WriteCall(batch) \/ RestoreCall(batch)
        PROVE  Transaction!Ask
    BY <1>1, RequestSteps DEF WriteCall, RestoreCall
  <1>2. ASSUME NEW n \in Names, RecordFails(n) \/ WriteObject(n) \/ RestoreObject(n)
        PROVE  Transaction!Ask \/ Transaction!Modify \/ Transaction!Undo
    BY <1>2, RequestSteps, WriteModifies, RestoreUndoes DEF RecordFails
  <1>3. CASE WriteReturns \/ RestoreReturns \/ ConnectCall \/ StopDaq \/ StartDaq \/ StopDaqCall
    <2>1. UNCHANGED <<client, memory, pristine, original>>
      BY <1>3 DEF WriteReturns, RestoreReturns, ConnectCall, StopDaq, StartDaq, StopDaqCall
    <2>2. QED  BY <2>1, RequestSteps DEF Transaction!Next
  <1>4. CASE UNCHANGED vars
    <2>1. Transaction!Ask
      BY <1>4, RequestSteps DEF vars
    <2>2. QED  BY <2>1 DEF Transaction!Next
  <1>5. QED  BY <1>1, <1>2, <1>3, <1>4, DisconnectAsks, CloseEnds, OpenBegins, TargetIsForeign
             DEF Next, Transaction!Next

\* The session implements the transaction, whatever spans the objects have and
\* whichever commands fail: it never forgets a cell it has modified, and leaves
\* memory as it found it unless disconnect(restore = FALSE) waived that.
THEOREM SessionRefinesTransaction == Spec => ImplementsTransaction
  <1>1. Spec => [][Transaction!Next]_(Transaction!transactionVars)
    BY StepTransaction, SessionInvariant, PTL DEF Spec
  <1>2. QED  BY <1>1, InitTransaction, PTL DEF Spec, ImplementsTransaction, Transaction!Spec
=============================================================================
