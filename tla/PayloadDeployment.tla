-------------------------- MODULE PayloadDeployment --------------------------
(***************************************************************************)
(* Upload, start and stop of one model directory on the target, as         *)
(* ssh_deployment.py does them.  A host runs one operation at a time, as a *)
(* sequence of remote commands with SFTP writes between them.  A command   *)
(* is a process of the target: when the host's timeout passes or the user  *)
(* cancels, the host goes on and the command does too.  Hosts do not know  *)
(* of each other, and process numbers are reused.                          *)
(*                                                                         *)
(* A file is its name and the version it was last written with.  Each      *)
(* command is cut where it has read something and has yet to act on it.    *)
(***************************************************************************)
EXTENDS Naturals, FiniteSets

CONSTANTS
    Hosts,
    Slots,       \* commands that may run on the target at once
    Versions,    \* payloads that can be uploaded
    Files,       \* names of a payload, the same in every version
    Elf,         \* the executable among them
    Pids,        \* process numbers
    PidFd,       \* whether Python and the kernel offer pidfd_open
    None,        \* no version, command or process
    MaxBirths    \* bound: processes that start

ASSUME DeploymentAssumption ==
    /\ None \notin Versions \union Slots \union Pids
    /\ Elf \in Files
    /\ PidFd \in BOOLEAN
    /\ MaxBirths \in Nat

VARIABLES
    content,     \* version of each file of the directory, or None
    pending,     \* .pyxcp-payload.pending exists
    receipt,     \* .pyxcp-payload.json: the version whose hashes it lists
    marker,      \* <elf>.pyxcp-host.json: identity of the started process
    proc,        \* process at each number
    cmds,        \* commands running on the target
    host,        \* what each host is doing
    births,      \* start times given so far
    overlapped,  \* ghost: two operations were under way at once, and since
                 \* then the target was never idle when one began
    stray        \* ghost: a signal reached a process that was not the model

vars == <<content, pending, receipt, marker, proc, cmds, host, births,
          overlapped, stray>>
files == <<content, pending, receipt>>

NoId == [pid |-> None, start |-> 0]
NoFiles == [f \in Files |-> None]
Free == [start |-> 0, model |-> FALSE, ran |-> NoFiles]
NoCmd == [op |-> "none", pc |-> "none", version |-> None, id |-> NoId,
          fd |-> 0, last |-> FALSE, seen |-> NoFiles]
AtRest == [pc |-> "rest", version |-> None, slot |-> None, left |-> {}]

Running == {p \in Pids : proc[p].model}
Id(p) == [pid |-> p, start |-> proc[p].start]

\* The marker names a process that is still the one it was written for.
OwnedState ==
    IF marker.start # 0 /\ proc[marker.pid].model
       /\ proc[marker.pid].start = marker.start THEN marker ELSE NoId

\* No executable below the directory runs, and no marker is valid.
Stopped == Running = {}  /\ OwnedState = NoId

\* validate_payload: the files of a manifest and no others, each with its hash.
Payload(v) == [f \in Files |-> v]

\* verify_payload
Complete(v) == content = Payload(v)

\* check_deployed_payload: a process may be started from the files as they
\* are.  Without a receipt only the executable has to exist.
Startable ==
    /\ ~pending
    /\ receipt # None => Complete(receipt)
    /\ content[Elf] # None

Init ==
    /\ content = NoFiles
    /\ pending = FALSE
    /\ receipt = None
    /\ marker = NoId
    /\ proc = [p \in Pids |-> Free]
    /\ cmds = [s \in Slots |-> NoCmd]
    /\ host = [h \in Hosts |-> AtRest]
    /\ births = 0
    /\ overlapped = FALSE
    /\ stray = FALSE

-----------------------------------------------------------------------------
(* The host: _execute and the operations built on it.                      *)

Busy == \/ \E s \in Slots : cmds[s] # NoCmd
        \/ \E h \in Hosts : host[h] # AtRest

\* An overlap is over when an operation begins with nothing under way and no
\* model running.
StillOverlapped == Busy \/ (overlapped /\ Running # {})

\* _request: the command starts on the target and the host waits for it.
Launch(h, op, first, v, next) ==
    \E s \in Slots :
        /\ cmds[s] = NoCmd
        /\ cmds' = [cmds EXCEPT ![s] =
               [NoCmd EXCEPT !.op = op, !.pc = first, !.version = v]]
        /\ host' = [host EXCEPT ![h] = [next EXCEPT !.slot = s]]

Begin(h, op, first, v) ==
    /\ host[h] = AtRest
    /\ Launch(h, op, first, v, [AtRest EXCEPT !.pc = "wait", !.version = v])
    /\ overlapped' = StillOverlapped
    /\ UNCHANGED <<files, marker, proc, births, stray>>

Deploy(h, v) == Begin(h, "payload_begin", "check", v)
Start(h) == Begin(h, "start", "check", None)
Stop(h) == Begin(h, "stop", "owned", None)

\* deploy_payload, once every file is in place and the local directory is, or is
\* again, the payload the operation began with; otherwise it is abandoned.
Verify(h) ==
    /\ host[h].pc = "put" /\ host[h].left = {}
    /\ Launch(h, "payload_verify", "check", host[h].version,
              [host[h] EXCEPT !.pc = "wait"])
    /\ UNCHANGED <<files, marker, proc, births, overlapped, stray>>

\* _upload: a file is written beside its destination and renamed over it.  The
\* local directory may be replaced meanwhile.
Put(h) ==
    /\ host[h].pc = "put"
    /\ \E f \in host[h].left, v \in Versions :
        /\ content' = [content EXCEPT ![f] = v]
        /\ host' = [host EXCEPT ![h].left = @ \ {f}]
    /\ UNCHANGED <<pending, receipt, marker, proc, cmds, births, overlapped, stray>>

\* A timeout, a cancellation or a lost connection; the command goes on.
Abandon(h) ==
    /\ host[h] # AtRest
    /\ host' = [host EXCEPT ![h] = AtRest]
    /\ UNCHANGED <<files, marker, proc, cmds, births, overlapped, stray>>

-----------------------------------------------------------------------------
(* The remote helper.                                                      *)

Progress(s, change) == cmds' = [cmds EXCEPT ![s] = change] /\ UNCHANGED host

Waits(h, s) == host[h].slot = s

\* A command ends.  The host that waits for it goes on to the next command
\* or to its files, or is done; an abandoned command's answer is lost.
End(s, ok) ==
    LET goesOn == ok /\ \E h \in Hosts : Waits(h, s) IN
    /\ cmds' = [cmds EXCEPT ![s] =
           IF goesOn /\ cmds[s].op = "payload_begin"
             THEN [NoCmd EXCEPT !.op = "directory", !.pc = "check"] ELSE NoCmd]
    /\ host' = [h \in Hosts |->
           IF ~Waits(h, s) \/ (ok /\ cmds[s].op = "payload_begin") THEN host[h]
           ELSE IF ok /\ cmds[s].op = "directory"
             THEN [host[h] EXCEPT !.pc = "put", !.slot = None, !.left = Files]
           ELSE AtRest]

At(s, op, pc) == cmds[s].op = op /\ cmds[s].pc = pc

\* payload_begin: nothing of the directory runs; then the marker is written.
BeginCheck(s) ==
    /\ At(s, "payload_begin", "check")
    /\ IF Stopped THEN Progress(s, [cmds[s] EXCEPT !.pc = "write"])
                  ELSE End(s, FALSE)
    /\ UNCHANGED <<files, marker, proc, births, overlapped, stray>>

BeginWrite(s) ==
    /\ At(s, "payload_begin", "write")
    /\ pending' = TRUE
    /\ End(s, TRUE)
    /\ UNCHANGED <<content, receipt, marker, proc, births, overlapped, stray>>

\* directory with require_stopped.
DirectoryCheck(s) ==
    /\ At(s, "directory", "check")
    /\ End(s, Stopped)
    /\ UNCHANGED <<files, marker, proc, births, overlapped, stray>>

\* payload_verify: checks, then the receipt, then the marker of the upload.
VerifyCheck(s) ==
    /\ At(s, "payload_verify", "check")
    /\ IF Stopped /\ pending /\ Complete(cmds[s].version)
         THEN Progress(s, [cmds[s] EXCEPT !.pc = "receipt"])
         ELSE End(s, FALSE)
    /\ UNCHANGED <<files, marker, proc, births, overlapped, stray>>

\* Mutant: the marker is removed and the receipt is not put in place.
MutantUnlinkFirst(s) ==
    /\ At(s, "payload_verify", "receipt")
    /\ pending' = FALSE
    /\ Progress(s, [cmds[s] EXCEPT !.pc = "unlink"])
    /\ UNCHANGED <<content, receipt, marker, proc, births, overlapped, stray>>

VerifyReceipt(s) ==
    /\ At(s, "payload_verify", "receipt")
    /\ receipt' = cmds[s].version
    /\ Progress(s, [cmds[s] EXCEPT !.pc = "unlink"])
    /\ UNCHANGED <<content, pending, marker, proc, births, overlapped, stray>>

\* Removing a marker another verification removed first is an error.
VerifyUnlink(s) ==
    /\ At(s, "payload_verify", "unlink")
    /\ pending' = FALSE
    /\ End(s, pending)
    /\ UNCHANGED <<content, receipt, marker, proc, births, overlapped, stray>>

\* Mutant: a model that runs already is started again.
MutantStartsAgain(s) ==
    /\ At(s, "start", "check")
    /\ IF Startable
         THEN Progress(s, [cmds[s] EXCEPT !.pc = "spawn", !.seen = content])
         ELSE End(s, FALSE)
    /\ UNCHANGED <<files, marker, proc, births, overlapped, stray>>

\* start: a model that is owned and runs is the answer; otherwise the
\* payload must be complete.
StartCheck(s) ==
    /\ At(s, "start", "check")
    /\ IF OwnedState # NoId THEN End(s, TRUE)
       ELSE IF Startable
         THEN Progress(s, [cmds[s] EXCEPT !.pc = "spawn", !.seen = content])
         ELSE End(s, FALSE)
    /\ UNCHANGED <<files, marker, proc, births, overlapped, stray>>

\* A process takes a free number and runs the files that are there.
Born(p, model, ran) ==
    /\ births < MaxBirths
    /\ proc[p] = Free
    /\ births' = births + 1
    /\ proc' = [proc EXCEPT ![p] = [start |-> births + 1, model |-> model, ran |-> ran]]

\* Popen, some time after the check: the files may be others by now.
Spawn(s) ==
    /\ At(s, "start", "spawn")
    /\ \E p \in Pids :
        /\ Born(p, TRUE, content)
        /\ Progress(s, [cmds[s] EXCEPT !.pc = "marker",
               !.id = [pid |-> p, start |-> births + 1]])
    /\ UNCHANGED <<files, marker, overlapped, stray>>

\* The child is still there and its marker is put in place; when the marker
\* cannot be written the child is terminated.
WriteMarker(s) ==
    /\ At(s, "start", "marker")
    /\ LET id == cmds[s].id IN
       IF proc[id.pid].start # id.start
         THEN End(s, FALSE) /\ UNCHANGED <<marker, proc>>
         ELSE \/ /\ marker' = id
                 /\ End(s, TRUE)
                 /\ UNCHANGED proc
              \/ /\ proc' = [proc EXCEPT ![id.pid] = Free]
                 /\ End(s, FALSE)
                 /\ UNCHANGED marker
    /\ UNCHANGED <<files, births, overlapped, stray>>

\* stop: the identity is read before every signal.
StopOwned(s) ==
    /\ At(s, "stop", "owned")
    /\ IF OwnedState = NoId THEN End(s, TRUE)
       ELSE Progress(s, [cmds[s] EXCEPT !.id = OwnedState,
                !.pc = IF PidFd THEN "open" ELSE "kill"])
    /\ UNCHANGED <<files, marker, proc, births, overlapped, stray>>

\* pidfd_open refers to the process that has the number now.
OpenPidFd(s) ==
    /\ At(s, "stop", "open")
    /\ LET p == cmds[s].id.pid IN
       IF proc[p] = Free THEN End(s, OwnedState = NoId)
       ELSE Progress(s, [cmds[s] EXCEPT !.fd = proc[p].start, !.pc = "recheck"])
    /\ UNCHANGED <<files, marker, proc, births, overlapped, stray>>

\* Mutant: the identity is not read again behind the descriptor.
MutantNoRecheck(s) ==
    /\ At(s, "stop", "recheck")
    /\ Progress(s, [cmds[s] EXCEPT !.pc = "kill"])
    /\ UNCHANGED <<files, marker, proc, births, overlapped, stray>>

Recheck(s) ==
    /\ At(s, "stop", "recheck")
    /\ IF OwnedState = cmds[s].id THEN Progress(s, [cmds[s] EXCEPT !.pc = "kill"])
       ELSE End(s, OwnedState = NoId)
    /\ UNCHANGED <<files, marker, proc, births, overlapped, stray>>

\* The process a signal reaches: that of the descriptor, or that of the number.
Reached(s) ==
    LET p == cmds[s].id.pid IN
    IF proc[p] = Free \/ (PidFd /\ proc[p].start # cmds[s].fd) THEN Free ELSE proc[p]

\* SIGTERM, then SIGKILL: the process ends, or does not in time and the
\* identity is read again.
Signal(s) ==
    /\ At(s, "stop", "kill")
    /\ LET id == cmds[s].id IN
       /\ stray' = (stray \/ (Reached(s) # Free /\ Reached(s).start # id.start))
       /\ \/ /\ Reached(s) # Free
             /\ proc' = [proc EXCEPT ![id.pid] = Free]
          \/ UNCHANGED proc
    /\ Progress(s, [cmds[s] EXCEPT !.pc = IF cmds[s].last THEN "wait" ELSE "owned",
                                    !.last = TRUE])
    /\ UNCHANGED <<files, marker, births, overlapped>>

\* After the last signal, a process that is still owned is an error.
StopWait(s) ==
    /\ At(s, "stop", "wait")
    /\ End(s, OwnedState = NoId)
    /\ UNCHANGED <<files, marker, proc, births, overlapped, stray>>

-----------------------------------------------------------------------------
(* The target.                                                             *)

Exit(p) ==
    /\ proc[p] # Free
    /\ proc' = [proc EXCEPT ![p] = Free]
    /\ UNCHANGED <<files, marker, cmds, host, births, overlapped, stray>>

OtherProcess(p) ==
    /\ Born(p, FALSE, NoFiles)
    /\ UNCHANGED <<files, marker, cmds, host, overlapped, stray>>

\* A restart ends every process and command; the files stay.
Reboot ==
    /\ proc' = [p \in Pids |-> Free]
    /\ cmds' = [s \in Slots |-> NoCmd]
    /\ host' = [h \in Hosts |-> AtRest]
    /\ UNCHANGED <<files, marker, births, overlapped, stray>>

HostStep(h) ==
    \/ \E v \in Versions : Deploy(h, v)
    \/ Start(h) \/ Stop(h) \/ Verify(h) \/ Put(h) \/ Abandon(h)

CommandStep(s) ==
    \/ BeginCheck(s) \/ BeginWrite(s) \/ DirectoryCheck(s)
    \/ VerifyCheck(s) \/ VerifyReceipt(s) \/ VerifyUnlink(s)
    \/ StartCheck(s) \/ Spawn(s) \/ WriteMarker(s)
    \/ StopOwned(s) \/ OpenPidFd(s) \/ Recheck(s) \/ Signal(s) \/ StopWait(s)

Next ==
    \/ \E h \in Hosts : HostStep(h)
    \/ \E s \in Slots : CommandStep(s)
    \/ \E p \in Pids : Exit(p) \/ OtherProcess(p)
    \/ Reboot

Spec == Init /\ [][Next]_vars

-----------------------------------------------------------------------------
(* Properties.                                                             *)

\* A signal of stop reaches the process whose identity was read for it, or
\* none: never another that was given the same number meanwhile.
KillsOnlyOwned == ~stray

\* The files of a model that runs are one payload, whole, as they were when it
\* was spawned (TOOLCHAIN.md: changed files prevent the start).
RunsWhole ==
    \A p \in Running : \E v \in Versions : proc[p].ran = Payload(v)

\* What a start has checked, and is about to run, was one payload, whole: also
\* when an upload was cut off, when the late verification of an earlier
\* upload removes the marker of a newer one, when two hosts upload, and when
\* the local files change under the upload.
CheckedWhole ==
    \A s \in Slots : At(s, "start", "spawn") =>
        \E v \in Versions : cmds[s].seen = Payload(v)

\* While operations come one at a time, from whichever host, a model that
\* runs was spawned from one payload, whole, still has those files, is the
\* only one, and can be stopped: the marker names it, or the start that is
\* going to does.
SerialSafe ==
    ~overlapped =>
        /\ RunsWhole
        /\ Cardinality(Running) <= 1
        /\ \A p \in Running :
            /\ content = proc[p].ran
            /\ Id(p) = marker \/ \E s \in Slots : cmds[s].op = "start" /\ cmds[s].id = Id(p)

\* Every start has checked one whole payload, however operations overlap; what
\* then runs is that payload, alone and under its owner, as long as they do not.
StartsOneWhole == CheckedWhole /\ SerialSafe

=============================================================================
