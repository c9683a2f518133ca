----------------------------- MODULE XcpSession -----------------------------
(***************************************************************************)
(* The serialized XCP session of the host application: connecting, batch   *)
(* calibration writes with exact-byte recovery, restoring, disconnecting,  *)
(* and ownership of the target's DAQ stream.                               *)
(*                                                                         *)
(* Every method holds the session's reentrant lock for its whole call, so  *)
(* methods do not interleave; what makes the session hard is that each of  *)
(* the many XCP commands of one call may fail on its own, before, after or *)
(* in the middle of taking effect on the target.  A method is therefore a  *)
(* call action followed by one action per loop iteration or command group, *)
(* and each of these has a failing alternative.                            *)
(*                                                                         *)
(* Target memory is a set of byte cells; an A2L object is the set of cells *)
(* it spans.  Two names may span common cells: aliases exist in A2L files. *)
(* Commands travel over one in-order link: a command that timed out has    *)
(* been executed or lost by the time the next one is.                      *)
(***************************************************************************)

CONSTANTS
    Names,      \* CHARACTERISTIC objects of the loaded A2L file
    Cells,      \* (extension, address) of every byte that can be calibrated
    Values,     \* what a byte can hold
    Span        \* the cells of each object

ASSUME SessionAssumption ==
    /\ Values # {}
    /\ Span \in [Names -> SUBSET Cells]
    /\ \A n \in Names : Span[n] # {}

VARIABLES
    client,     \* the session has a connected client
    memory,     \* target memory
    pristine,   \* history: target memory when this session connected
    original,   \* _original_bytes: saved bytes of each modified object
    pc,         \* the point inside the running method, "idle" between calls
    op,         \* the method that runs, or ran last
    todo,       \* objects its loop has not reached yet
    attempted,  \* objects the running batch has tried to write
    failures,   \* restore_calibrations has collected a failure
    outcome,    \* how the last method ended
    daq_active, \* DaqAcquisition.active
    streaming   \* the target sends DAQ data

vars == <<client, memory, pristine, original, pc, op, todo, attempted, failures,
          outcome, daq_active, streaming>>
daqVars == <<daq_active, streaming>>

Points == {"idle", "write", "restore", "stop_daq", "close", "open"}
Methods == {"none", "write", "restore", "disconnect", "drop", "connect",
            "start_daq", "stop_daq"}
Outcomes == {"none", "ok", "error", "restore_error"}

Memory == [Cells -> Values]

\* The empty dictionary of saved bytes.
NoRecords == [n \in {} |-> {}]

\* Mutant of Bytes: the read does not use the size of the object.
BytesOfAll(n) == memory

\* What read_memory returns for an object.
Bytes(n) == [c \in Span[n] |-> memory[c]]

\* Target memory after the cells in stored took their byte of payload.
Stored(payload, stored) ==
    [c \in Cells |-> IF c \in stored THEN payload[c] ELSE memory[c]]

\* write_memory and the read-back that follows it.  When both succeed the whole
\* object holds the payload; when a chunk, its answer or the read-back fails, or
\* the target kept other bytes, any part of it may have been stored.
Transfer(n, payload, ok) ==
    \E stored \in SUBSET Span[n] :
        /\ ok => stored = Span[n]
        /\ memory' = Stored(payload, stored)

\* Mutant of NonOverlapping: pending objects of earlier batches are not compared.
NonOverlappingInBatch(batch) ==
    \A n, m \in batch : n # m => Span[n] \cap Span[m] = {}

\* No two different names of a batch, or of a batch and the session's pending
\* objects, span a common cell.
NonOverlapping(batch) ==
    \A n \in batch : \A m \in batch \cup DOMAIN original :
        n # m => Span[n] \cap Span[m] = {}

Return(result) == pc' = "idle" /\ outcome' = result

Init ==
    /\ client = FALSE
    /\ memory \in Memory
    /\ pristine = memory
    /\ original = NoRecords
    /\ pc = "idle"
    /\ op = "none"
    /\ todo = {}
    /\ attempted = {}
    /\ failures = FALSE
    /\ outcome = "none"
    /\ daq_active = FALSE
    /\ streaming = FALSE

-----------------------------------------------------------------------------
(* write_calibrations *)

WriteCall(batch) ==
    /\ pc = "idle"
    /\ client
    /\ batch # {}
    /\ op' = "write"
    /\ attempted' = {}
    /\ \/ /\ NonOverlapping(batch)
          /\ pc' = "write"
          /\ todo' = batch
          /\ outcome' = "none"
       \/ /\ ~NonOverlapping(batch)
          /\ Return("error")
          /\ UNCHANGED todo
    /\ UNCHANGED <<client, memory, pristine, original, failures, daqVars>>

\* The records after the first write of n in this session saved its bytes.
Recorded(n) ==
    IF n \in DOMAIN original
    THEN original
    ELSE [m \in DOMAIN original \cup {n} |->
            IF m = n THEN Bytes(n) ELSE original[m]]

\* The except clause: restore_calibrations(written + [name]).  Names without a
\* record are skipped there.
Recover(records, names) ==
    /\ pc' = "restore"
    /\ todo' = names \cap DOMAIN records
    /\ failures' = FALSE

\* Reading the original bytes of n failed: n has no record and is not written.
RecordFails(n) ==
    /\ pc = "write"
    /\ n \in todo
    /\ n \notin DOMAIN original
    /\ attempted' = attempted \cup {n}
    /\ Recover(original, attempted')
    /\ UNCHANGED <<client, memory, pristine, original, op, outcome, daqVars>>

\* Mutant of WriteObject: only the names already written are recovered, not the
\* one whose write failed.
WriteObjectRecoversWritten(n) ==
    /\ pc = "write"
    /\ n \in todo
    /\ original' = Recorded(n)
    /\ attempted' = attempted \cup {n}
    /\ \E payload \in Memory, ok \in BOOLEAN :
        /\ Transfer(n, payload, ok)
        /\ \/ /\ ok
              /\ todo' = todo \ {n}
              /\ UNCHANGED <<pc, failures>>
           \/ /\ ~ok
              /\ Recover(original', attempted)
    /\ UNCHANGED <<client, pristine, op, outcome, daqVars>>

\* One iteration of the loop: save the original bytes once, write, read back.
WriteObject(n) ==
    /\ pc = "write"
    /\ n \in todo
    /\ original' = Recorded(n)
    /\ attempted' = attempted \cup {n}
    /\ \E payload \in Memory, ok \in BOOLEAN :
        /\ Transfer(n, payload, ok)
        /\ \/ /\ ok
              /\ todo' = todo \ {n}
              /\ UNCHANGED <<pc, failures>>
           \/ /\ ~ok
              /\ Recover(original', attempted')
    /\ UNCHANGED <<client, pristine, op, outcome, daqVars>>

WriteReturns ==
    /\ pc = "write"
    /\ todo = {}
    /\ Return("ok")
    /\ UNCHANGED <<client, memory, pristine, original, op, todo, attempted,
                   failures, daqVars>>

-----------------------------------------------------------------------------
(* restore_calibrations *)

\* Called for a selection of names; with names = None it is every record.
RestoreCall(names) ==
    /\ pc = "idle"
    /\ client
    /\ names # {} \/ DOMAIN original = {}
    /\ op' = "restore"
    /\ attempted' = {}
    /\ Recover(original, names)
    /\ outcome' = "none"
    /\ UNCHANGED <<client, memory, pristine, original, daqVars>>

Forgotten(n) == [m \in DOMAIN original \ {n} |-> original[m]]

\* The record is deleted only after the bytes read back equal.  A failure is
\* collected and the loop goes on with the next object.
RestoreObject(n) ==
    /\ pc = "restore"
    /\ n \in todo
    /\ todo' = todo \ {n}
    /\ \E ok \in BOOLEAN :
        /\ Transfer(n, original[n], ok)
        /\ \/ ok /\ original' = Forgotten(n) /\ UNCHANGED failures
           \/ ~ok /\ failures' = TRUE /\ UNCHANGED original
    /\ UNCHANGED <<client, pristine, pc, op, attempted, outcome, daqVars>>

\* Mutant of RestoreReturns: disconnect goes on after a collected failure.
RestoreReturnsRegardless ==
    /\ pc = "restore"
    /\ todo = {}
    /\ \/ op = "write" /\ Return(IF failures THEN "restore_error" ELSE "error")
       \/ op = "restore" /\ Return(IF failures THEN "restore_error" ELSE "ok")
       \/ op \in {"disconnect", "connect"} /\ pc' = "stop_daq" /\ UNCHANGED outcome
    /\ UNCHANGED <<client, memory, pristine, original, op, todo, attempted,
                   failures, daqVars>>

\* Mutant of RestoreReturns: a failed restore still drops the client and records.
RestoreReturnsDropping ==
    /\ pc = "restore"
    /\ todo = {}
    /\ IF failures
       THEN Return("restore_error") /\ client' = FALSE /\ original' = NoRecords
       ELSE /\ \/ op = "write" /\ Return("error")
               \/ op = "restore" /\ Return("ok")
               \/ op \in {"disconnect", "connect"} /\ pc' = "stop_daq" /\ UNCHANGED outcome
            /\ UNCHANGED <<client, original>>
    /\ UNCHANGED <<memory, pristine, op, todo, attempted, failures, daqVars>>

\* The end of the loop: raise when a failure was collected, otherwise return to
\* the caller.  A failed batch re-raises its own error after a full recovery.
RestoreReturns ==
    /\ pc = "restore"
    /\ todo = {}
    /\ \/ failures /\ Return("restore_error")
       \/ ~failures /\ op = "write" /\ Return("error")
       \/ ~failures /\ op = "restore" /\ Return("ok")
       \/ /\ ~failures
          /\ op \in {"disconnect", "connect"}
          /\ pc' = "stop_daq"
          /\ UNCHANGED outcome
    /\ UNCHANGED <<client, memory, pristine, original, op, todo, attempted,
                   failures, daqVars>>

-----------------------------------------------------------------------------
(* disconnect and connect *)

\* The part of disconnect(restore) before the DAQ stream is stopped.
LeaveSession(restore) ==
    \/ restore /\ DOMAIN original # {} /\ Recover(original, DOMAIN original)
    \/ ~(restore /\ DOMAIN original # {}) /\ pc' = "stop_daq" /\ UNCHANGED <<todo, failures>>

\* disconnect(restore = TRUE) is "disconnect", disconnect(restore = FALSE) "drop".
DisconnectCall(restore) ==
    /\ pc = "idle"
    /\ op' = IF restore THEN "disconnect" ELSE "drop"
    /\ attempted' = {}
    /\ \/ /\ client
          /\ LeaveSession(restore)
          /\ outcome' = "none"
          /\ UNCHANGED original
       \/ /\ ~client
          /\ IF restore /\ DOMAIN original # {}
             THEN Return("restore_error")
             ELSE Return("ok")
          /\ original' = IF restore THEN original ELSE NoRecords
          /\ UNCHANGED <<todo, failures>>
    /\ UNCHANGED <<client, memory, pristine, daqVars>>

\* connect leaves a connected session first, as disconnect(restore = TRUE) does.
ConnectCall ==
    /\ pc = "idle"
    /\ op' = "connect"
    /\ attempted' = {}
    /\ outcome' = "none"
    /\ \/ client /\ LeaveSession(TRUE)
       \/ ~client /\ pc' = "open" /\ UNCHANGED <<todo, failures>>
    /\ UNCHANGED <<client, memory, pristine, original, daqVars>>

\* DaqAcquisition.stop inside stop_daq.  When the command fails the target may
\* have stopped or not, and the acquisition stays active.
StopDaq ==
    /\ pc = "stop_daq"
    /\ \/ /\ daq_active
          /\ streaming' \in {FALSE, streaming}
          /\ Return("error")
          /\ UNCHANGED daq_active
       \/ /\ daq_active' = FALSE
          /\ streaming' = IF daq_active THEN FALSE ELSE streaming
          /\ \/ op = "stop_daq" /\ Return("ok")
             \/ op # "stop_daq" /\ pc' = "close" /\ UNCHANGED outcome
    /\ UNCHANGED <<client, memory, pristine, original, op, todo, attempted,
                   failures>>

\* client.disconnect() and the finally clause: the client and the records go
\* whether the command succeeds or raises.
CloseClient ==
    /\ pc = "close"
    /\ client' = FALSE
    /\ original' = NoRecords
    /\ \/ Return("error")
       \/ op = "connect" /\ pc' = "open" /\ UNCHANGED outcome
       \/ op # "connect" /\ Return("ok")
    /\ UNCHANGED <<memory, pristine, op, todo, attempted, failures, daqVars>>

\* client.connect() fails; or it succeeds and connection_info() rejects the
\* target, which closes the client again; or the session begins.
OpenClient ==
    /\ pc = "open"
    /\ \/ Return("error") /\ UNCHANGED <<client, original, pristine, daq_active>>
       \/ /\ Return("error")
          /\ original' = NoRecords
          /\ daq_active' = FALSE
          /\ UNCHANGED <<client, pristine>>
       \/ /\ Return("ok")
          /\ client' = TRUE
          /\ original' = NoRecords
          /\ pristine' = memory
          /\ daq_active' = FALSE
    /\ UNCHANGED <<memory, op, todo, attempted, failures, streaming>>

-----------------------------------------------------------------------------
(* start_daq and stop_daq *)

\* Mutant of StartDaq: a failed start gives up ownership without a confirmed stop.
StartDaqDisowned ==
    /\ pc = "idle"
    /\ client
    /\ op' = "start_daq"
    /\ attempted' = {}
    /\ \/ Return("error") /\ UNCHANGED daqVars
       \/ ~daq_active /\ Return("error") /\ streaming' \in BOOLEAN /\ UNCHANGED daq_active
       \/ ~daq_active /\ Return("ok") /\ daq_active' = TRUE /\ streaming' = TRUE
    /\ UNCHANGED <<client, memory, pristine, original, todo, failures>>

\* Setting up fails before the consumer is attached; the start command fails and
\* the stop that follows succeeds, or fails too and ownership is kept; or the
\* acquisition runs.
StartDaq ==
    /\ pc = "idle"
    /\ client
    /\ op' = "start_daq"
    /\ attempted' = {}
    /\ \/ Return("error") /\ UNCHANGED daqVars
       \/ /\ ~daq_active
          /\ Return("error")
          /\ daq_active' = TRUE
          /\ streaming' \in BOOLEAN
       \/ /\ ~daq_active
          /\ Return("ok")
          /\ daq_active' = TRUE
          /\ streaming' = TRUE
    /\ UNCHANGED <<client, memory, pristine, original, todo, failures>>

StopDaqCall ==
    /\ pc = "idle"
    /\ op' = "stop_daq"
    /\ attempted' = {}
    /\ pc' = "stop_daq"
    /\ outcome' = "none"
    /\ UNCHANGED <<client, memory, pristine, original, todo, failures, daqVars>>

\* While no session is connected the target may restart or another tool may
\* calibrate it.
TargetChanges ==
    /\ ~client
    /\ pc = "idle"
    /\ memory' \in Memory
    /\ UNCHANGED <<client, pristine, original, pc, op, todo, attempted, failures,
                   outcome, daqVars>>

Next ==
    \/ \E batch \in SUBSET Names : WriteCall(batch) \/ RestoreCall(batch)
    \/ \E n \in Names : RecordFails(n) \/ WriteObject(n) \/ RestoreObject(n)
    \/ WriteReturns
    \/ RestoreReturns
    \/ \E restore \in BOOLEAN : DisconnectCall(restore)
    \/ ConnectCall
    \/ StopDaq
    \/ CloseClient
    \/ OpenClient
    \/ StartDaq
    \/ StopDaqCall
    \/ TargetChanges

Spec == Init /\ [][Next]_vars
-----------------------------------------------------------------------------
(* Properties *)

\* The types of the variables; a record holds one value per byte of its object.
TypeOK ==
    /\ client \in BOOLEAN
    /\ memory \in Memory
    /\ pristine \in Memory
    /\ DOMAIN original \subseteq Names
    /\ \A n \in DOMAIN original : original[n] \in [Span[n] -> Values]
    /\ pc \in Points
    /\ op \in Methods
    /\ todo \subseteq Names
    /\ attempted \subseteq Names
    /\ failures \in BOOLEAN
    /\ outcome \in Outcomes
    /\ daq_active \in BOOLEAN
    /\ streaming \in BOOLEAN

\* The saved bytes are the ones the target had when the session began
\* (write_calibrations saves them before the first modification of an object and
\* rejects an object that overlaps a modified one).
RecordsPristine ==
    \A n \in DOMAIN original : \A c \in Span[n] : original[n][c] = pristine[c]

\* Every byte that differs from what the target had when the session began
\* belongs to an object with a record: whatever fails, no modification is
\* forgotten (write_calibrations, restore_calibrations).
ModifiedIsPending ==
    client => \A c \in Cells :
        memory[c] # pristine[c] => \E n \in DOMAIN original : c \in Span[n]

\* The session knows what it has to undo and how: records and modifications agree.
RecordsExact == RecordsPristine /\ ModifiedIsPending

\* After a failed batch that did not report a restore error, every object the
\* batch tried to write has its bytes from the beginning of the session and no
\* record is left for it (the except clause of write_calibrations).
FailedWriteUndone ==
    (pc = "idle" /\ op = "write" /\ outcome = "error") =>
        \A n \in attempted :
            /\ n \notin DOMAIN original
            /\ \A c \in Span[n] : memory[c] = pristine[c]

\* A restore error never goes with a lost record or a dropped connection: the
\* restore can be tried again (restore_calibrations raises before disconnect
\* stops the stream and closes the client).
RestoreErrorKeepsPending ==
    (pc = "idle" /\ outcome = "restore_error") =>
        client /\ DOMAIN original # {}

\* The target streams DAQ data only to a session that is connected and knows
\* that it owns the stream, so that Stop or Disconnect can be tried again
\* (DaqAcquisition.start and stop, disconnect).
StreamOwned == streaming => client /\ daq_active

\* Whatever command fails, the session still knows what it has changed on the
\* target: memory, records or the stream.
FailuresKeepTrack == FailedWriteUndone /\ RestoreErrorKeepsPending /\ StreamOwned

\* A session ends with target memory as it was at its beginning, unless the
\* caller asked for disconnect(restore = FALSE).
SessionEndRestores ==
    [][client /\ ~client' /\ op # "drop" => memory = pristine]_vars

-----------------------------------------------------------------------------
(* What the session is for: a transaction on target memory.                *)

\* The cells of the objects with a record.
Dirty == UNION {Span[n] : n \in DOMAIN original}

Transaction == INSTANCE CalibrationTransaction WITH
    open <- client,
    base <- pristine,
    dirty <- Dirty,
    waived <- op = "drop"

\* With one command after the other, each failing on its own, the session still
\* makes only the steps of a transaction: no cell changes without a record, no
\* record goes before its bytes are back, and a session leaves memory as it found
\* it unless disconnect(restore = FALSE) gives that up.
ImplementsTransaction == Transaction!Spec

-----------------------------------------------------------------------------
(* The inductive invariant of XcpSessionProofs; TLC checks it as well. *)

\* Objects with a record span disjoint cells, also together with the objects a
\* running batch has not reached.
PendingDisjoint ==
    \A n, m \in DOMAIN original \cup (IF pc = "write" THEN todo ELSE {}) :
        n # m => Span[n] \cap Span[m] = {}

\* What holds at each point of a method.
SessionPoint ==
    /\ pc \in {"write", "restore", "close"} \/ op = "write" \/ daq_active => client
    /\ pc = "stop_daq" => client \/ op = "stop_daq"
    /\ pc = "stop_daq" => op \in {"stop_daq", "disconnect", "drop", "connect"}
    /\ ~client => DOMAIN original = {}
    /\ pc = "restore" => todo \subseteq DOMAIN original
    /\ pc = "restore" /\ op \in {"disconnect", "connect"} /\ ~failures =>
            DOMAIN original = todo
    /\ pc \in {"stop_daq", "close"} /\ op \in {"disconnect", "connect"} =>
            DOMAIN original = {}
    /\ pc = "restore" /\ failures => DOMAIN original \ todo # {}
    /\ pc \in {"close", "open"} => ~daq_active
    /\ pc = "open" => ~client /\ op = "connect"
    /\ pc = "close" => op \in {"disconnect", "drop", "connect"}

\* The objects a failing batch has tried are the ones being restored.
BatchPoint ==
    /\ pc = "write" => op = "write"
    /\ pc = "write" => attempted \subseteq DOMAIN original
    /\ pc = "restore" /\ op = "write" /\ ~failures =>
            \A n \in attempted : n \in todo \/
                ( /\ n \notin DOMAIN original
                  /\ \A c \in Span[n] : memory[c] = pristine[c])
=============================================================================
