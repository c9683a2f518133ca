----------------------- MODULE PayloadDeploymentProofs -----------------------
(***************************************************************************)
(* Safety of upload, start and stop for every number of hosts, commands,   *)
(* files, versions and process numbers.                                    *)
(*                                                                         *)
(* A signal hits only the owned process because start times at a number    *)
(* only grow: a descriptor that was opened after the identity was read,    *)
(* and before it was read again, is of that process.  What a start checks  *)
(* is whole because files change behind the marker of the upload only,     *)
(* which goes away after a receipt is there.  That a model runs what was   *)
(* checked, and keeps its files, rests on who may be active when           *)
(* operations have come one at a time.                                     *)
(***************************************************************************)
EXTENDS PayloadDeployment, FiniteSetTheorems, TLAPS

Contents == [Files -> Versions \union {None}]
Ids == [pid: Pids \union {None}, start: Nat]
Procs == [start: Nat, model: BOOLEAN, ran: Contents]
Ops == {"none", "payload_begin", "directory", "payload_verify", "start", "stop"}
Points == {"none", "check", "write", "receipt", "unlink", "spawn", "marker",
           "owned", "open", "recheck", "kill", "wait"}
Cmds == [op: Ops, pc: Points, version: Versions \union {None}, id: Ids, fd: Nat,
         last: BOOLEAN, seen: Contents]
HostStates == [pc: {"rest", "wait", "put"}, version: Versions \union {None},
               slot: Slots \union {None}, left: SUBSET Files]
DirectoryCmd == [NoCmd EXCEPT !.op = "directory", !.pc = "check"]

\* Every variable has its type.
TypeOK ==
    /\ content \in Contents
    /\ pending \in BOOLEAN
    /\ receipt \in Versions \union {None}
    /\ marker \in Ids
    /\ proc \in [Pids -> Procs]
    /\ cmds \in [Slots -> Cmds]
    /\ host \in [Hosts -> HostStates]
    /\ births \in Nat
    /\ overlapped \in BOOLEAN
    /\ stray \in BOOLEAN

\* A process has a start time that was given before, an owned one a number.
Numbered ==
    /\ \A p \in Pids : proc[p].start <= births /\ (proc[p].start = 0 => proc[p] = Free)
    /\ marker.start # 0 => marker.pid \in Pids

\* A command that stops a process: the number has been used for nothing older
\* than the identity, nor than the descriptor, since either was read.
StopPoint(c) ==
    /\ c.op = "stop" /\ c.pc \in {"open", "recheck", "kill"} => c.id.pid \in Pids
    /\ c.op = "stop" /\ c.pc = "open" =>
         /\ c.id.start <= births
         /\ proc[c.id.pid].start = 0 \/ c.id.start <= proc[c.id.pid].start
    /\ c.op = "stop" /\ c.pc = "recheck" =>
         /\ c.id.start <= c.fd /\ c.fd <= births
         /\ proc[c.id.pid].start = 0 \/ c.fd <= proc[c.id.pid].start
    /\ PidFd /\ c.op = "stop" /\ c.pc = "kill" => c.fd = c.id.start

\* A command that starts a process has seen a whole payload.
StartPoint(c) ==
    /\ c.op = "start" /\ c.pc = "check" => c.id = NoId
    /\ c.op = "start" /\ c.pc = "spawn" => \E v \in Versions : c.seen = Payload(v)
    /\ c.op = "start" /\ c.pc = "marker" => c.id.pid \in Pids

\* A command of an upload: the first receipt comes before the marker goes.
UploadPoint(c) ==
    /\ c.op = "directory" => pending \/ receipt # None
    /\ c.op = "payload_verify" => c.version \in Versions
    /\ c.op = "payload_verify" /\ c.pc = "unlink" => receipt # None

\* A slot without an operation is empty.
CommandPoint(c) ==
    /\ c.op = "none" => c = NoCmd
    /\ StopPoint(c)
    /\ StartPoint(c)
    /\ UploadPoint(c)

\* A host at rest or putting files waits for no command; one that uploads
\* knows its version.
HostPoint(h) ==
    /\ host[h].pc = "put" =>
         host[h].slot = None /\ host[h].version \in Versions /\ (pending \/ receipt # None)
    /\ \A s \in Slots : host[h].slot = s =>
         /\ cmds[s].op # "none"
         /\ cmds[s].op \in {"payload_begin", "directory", "payload_verify"} =>
              host[h].version \in Versions

\* Files are there only behind the marker or a receipt.
FilesPoint == pending \/ receipt # None \/ content = NoFiles

\* When nothing has overlapped, one command or one host is active, or a host
\* with its command.
OneActive ==
    ~overlapped =>
        /\ \A s, t \in Slots : cmds[s].op # "none" /\ cmds[t].op # "none" => s = t
        /\ \A g, h \in Hosts : host[g] # AtRest /\ host[h] # AtRest => g = h
        /\ \A h \in Hosts, s \in Slots :
             host[h] # AtRest /\ cmds[s].op # "none" => host[h].slot = s

\* A model that was started alone runs a whole payload.
AloneWhole == ~overlapped => RunsWhole

\* A model that was started alone keeps its files and its owner.
Known(p) == Id(p) = marker \/ \E s \in Slots : cmds[s].op = "start" /\ cmds[s].id = Id(p)
SerialPoint ==
    ~overlapped =>
        /\ \A p, q \in Running : p = q
        /\ \A p \in Running : content = proc[p].ran /\ Known(p)
        /\ \A h \in Hosts : host[h].pc = "put" => Running = {}
        /\ \A s \in Slots : cmds[s].op = "start" /\ cmds[s].pc = "spawn" =>
             Running = {} /\ cmds[s].seen = content
        /\ \A s \in Slots : cmds[s].op = "start" /\ cmds[s].pc = "marker" =>
             \A p \in Running : Id(p) = cmds[s].id

IInv ==
    /\ TypeOK
    /\ Numbered
    /\ \A s \in Slots : CommandPoint(cmds[s])
    /\ \A h \in Hosts : HostPoint(h)
    /\ FilesPoint
    /\ OneActive
    /\ SerialPoint
    /\ AloneWhole
    /\ PidFd => KillsOnlyOwned

\* What a step may do to processes and receipts without disturbing a command
\* that takes no part in it.
Later ==
    /\ births <= births'
    /\ \A p \in Pids : \/ proc'[p].start = 0
                       \/ proc'[p].start = proc[p].start
                       \/ births < proc'[p].start
    /\ receipt # None => receipt' # None
    /\ pending \/ receipt # None => pending' \/ receipt' # None

\* Processes may end, and no model starts.
Fewer ==
    /\ proc' \in [Pids -> Procs]
    /\ Numbered'
    /\ \A p \in Pids : proc'[p].model => proc'[p] = proc[p]

-----------------------------------------------------------------------------
(* Helpers.                                                                *)

LEMMA Constants ==
    /\ NoId \in Ids /\ NoFiles \in Contents /\ Free \in Procs
    /\ NoCmd \in Cmds /\ DirectoryCmd \in Cmds /\ AtRest \in HostStates
    /\ NoCmd.op = "none" /\ DirectoryCmd.op = "directory" /\ DirectoryCmd.pc = "check"
    /\ AtRest.slot = None /\ AtRest.pc = "rest"
    /\ None \notin Versions /\ None \notin Slots /\ None \notin Pids
  <1>1. None \notin Versions /\ None \notin Slots /\ None \notin Pids
    BY DeploymentAssumption
  <1>2. NoId \in Ids /\ NoFiles \in Contents /\ Free \in Procs
    BY DEF NoId, Ids, NoFiles, Contents, Free, Procs
  <1>3. NoCmd \in Cmds
    BY <1>2 DEF NoCmd, Cmds, Ops, Points
  <1>4. DirectoryCmd \in Cmds
    BY <1>2 DEF DirectoryCmd, NoCmd, Cmds, Ops, Points
  <1>5. AtRest \in HostStates
    BY DEF AtRest, HostStates
  <1>6. QED  BY <1>1, <1>2, <1>3, <1>4, <1>5 DEF NoCmd, DirectoryCmd, AtRest

\* An owned state is the marker, of a process that still has its number.
LEMMA OwnedFacts ==
    ASSUME TypeOK, Numbered
    PROVE  /\ OwnedState \in Ids
           /\ OwnedState # NoId => /\ OwnedState = marker
                                   /\ marker.start # 0 /\ marker.pid \in Pids
                                   /\ proc[marker.pid].start = marker.start
           /\ \A p \in Running : Id(p) = marker => OwnedState # NoId
  <1>1. OwnedState = marker \/ OwnedState = NoId
    BY DEF OwnedState
  <1>2. OwnedState \in Ids
    BY <1>1, Constants DEF TypeOK
  <1>3. OwnedState # NoId => /\ OwnedState = marker
                             /\ marker.start # 0 /\ marker.pid \in Pids
                             /\ proc[marker.pid].start = marker.start
    BY DEF OwnedState, Numbered
  <1>4. ASSUME NEW p \in Running, Id(p) = marker PROVE OwnedState # NoId
    <2>1. p \in Pids /\ proc[p].model /\ marker.pid = p /\ marker.start = proc[p].start
      BY <1>4 DEF Running, Id
    <2>2. proc[p].start # 0
      BY <2>1 DEF Numbered, Free
    <2>3. OwnedState = marker
      BY <2>1, <2>2 DEF OwnedState
    <2>4. QED  BY <2>2, <2>3, <2>1 DEF NoId
  <1>5. QED  BY <1>2, <1>3, <1>4

\* A command keeps its invariant while others go on.
LEMMA PointStays ==
    ASSUME TypeOK, TypeOK', Numbered, Later, NEW c \in Cmds, CommandPoint(c)
    PROVE  CommandPoint(c)'
  <1>1. c.id.start \in Nat /\ c.fd \in Nat /\ births \in Nat /\ births' \in Nat
    BY DEF Cmds, Ids, TypeOK
  <1>2. \A p \in Pids : proc[p].start \in Nat /\ proc'[p].start \in Nat
    BY DEF TypeOK, Procs
  <1>3. StopPoint(c)'
    BY <1>1, <1>2 DEF CommandPoint, StopPoint, Later
  <1>4. StartPoint(c)'
    BY DEF CommandPoint, StartPoint, Payload
  <1>5. UploadPoint(c)'
    BY DEF CommandPoint, UploadPoint, Later
  <1>6. QED  BY <1>3, <1>4, <1>5 DEF CommandPoint

\* What the end of a command does to its slot and to the hosts.
LEMMA EndEffect ==
    ASSUME TypeOK, NEW s \in Slots, NEW ok \in BOOLEAN, End(s, ok)
    PROVE  /\ cmds' \in [Slots -> Cmds] /\ host' \in [Hosts -> HostStates]
           /\ \A t \in Slots : t # s => cmds'[t] = cmds[t]
           /\ \/ cmds'[s] = NoCmd /\ \A h \in Hosts : host'[h].slot # s
              \/ cmds'[s] = DirectoryCmd /\ ok /\ cmds[s].op = "payload_begin"
           /\ \A h \in Hosts :
                \/ host'[h] = AtRest
                \/ host'[h] = host[h]
                \/ /\ ok /\ cmds[s].op = "directory" /\ host[h].slot = s
                   /\ host'[h].pc = "put" /\ host'[h].slot = None
                   /\ host'[h].version = host[h].version
  <1> DEFINE on == ok /\ cmds[s].op = "payload_begin"
             waits == \E h \in Hosts : Waits(h, s)
  <1>1. cmds' = [cmds EXCEPT ![s] = IF on /\ waits THEN DirectoryCmd ELSE NoCmd]
    BY DEF End, DirectoryCmd
  <1>2. /\ cmds' \in [Slots -> Cmds]
        /\ \A t \in Slots : t # s => cmds'[t] = cmds[t]
        /\ cmds'[s] = IF on /\ waits THEN DirectoryCmd ELSE NoCmd
    BY <1>1, Constants DEF TypeOK
  <1>3. ASSUME NEW h \in Hosts
        PROVE  /\ host'[h] \in HostStates
               /\ ~(on /\ waits) => host'[h].slot # s
               /\ \/ host'[h] = AtRest
                  \/ host'[h] = host[h]
                  \/ /\ ok /\ cmds[s].op = "directory" /\ host[h].slot = s
                     /\ host'[h].pc = "put" /\ host'[h].slot = None
                     /\ host'[h].version = host[h].version
    <2>0. host[h] \in HostStates
      BY DEF TypeOK
    <2>1. host'[h] = IF ~Waits(h, s) \/ on THEN host[h]
                     ELSE IF ok /\ cmds[s].op = "directory"
                       THEN [host[h] EXCEPT !.pc = "put", !.slot = None, !.left = Files]
                     ELSE AtRest
      BY DEF End
    <2>2. CASE ~Waits(h, s) \/ on
      BY <2>0, <2>1, <2>2 DEF Waits
    <2>3. CASE Waits(h, s) /\ ~on /\ ok /\ cmds[s].op = "directory"
      BY <2>0, <2>1, <2>3, Constants DEF Waits, HostStates
    <2>4. CASE Waits(h, s) /\ ~on /\ ~(ok /\ cmds[s].op = "directory")
      BY <2>0, <2>1, <2>4, Constants DEF Waits
    <2>5. QED  BY <2>2, <2>3, <2>4
  <1>4. host' \in [Hosts -> HostStates]
    <2>1. host' = [h \in Hosts |-> host'[h]]
      BY DEF End
    <2>2. QED  BY <2>1, <1>3
  <1>5. QED  BY <1>2, <1>3, <1>4

\* What is known of the models that run when no other one starts, and an
\* overlap is not forgotten while one runs.
LEMMA FewerModels ==
    ASSUME IInv, Fewer, PidFd => ~stray', ~overlapped' => ~overlapped \/ Running = {}
    PROVE  /\ Running' \subseteq Running /\ Running \subseteq Pids
           /\ \A p \in Running' : Id(p)' = Id(p) /\ proc'[p] = proc[p]
           /\ Numbered' /\ AloneWhole' /\ (PidFd => KillsOnlyOwned)'
  <1>1. Running' \subseteq Running /\ Running \subseteq Pids
    BY DEF Fewer, Running
  <1>2. \A p \in Running' : Id(p)' = Id(p) /\ proc'[p] = proc[p]
    BY DEF Fewer, Running, Id
  <1>3. AloneWhole'
    BY <1>1, <1>2 DEF IInv, AloneWhole, RunsWhole, Payload
  <1>4. QED  BY <1>1, <1>2, <1>3 DEF Fewer, KillsOnlyOwned

\* A command ends, after it has changed the marker or the receipt of the
\* upload, the identity of a started process, or nothing.
LEMMA EndStep ==
    ASSUME IInv, NEW s \in Slots, NEW ok \in BOOLEAN,
           End(s, ok), cmds[s].op # "none",
           UNCHANGED <<content, births, overlapped, stray>>, marker' \in Ids,
           pending' \in BOOLEAN, receipt' \in Versions \union {None}, Later, Fewer,
           ok /\ cmds[s].op = "payload_begin" => pending',
           ok /\ cmds[s].op = "directory" => Running = {},
           IF cmds[s].op = "start" THEN ~overlapped => \A p \in Running' : Id(p) = marker'
                                   ELSE marker' = marker
    PROVE  IInv'
  <1>1. /\ TypeOK /\ Numbered /\ FilesPoint /\ OneActive /\ SerialPoint
        /\ \A t \in Slots : CommandPoint(cmds[t])
        /\ \A h \in Hosts : HostPoint(h)
    BY DEF IInv
  <1>2. /\ cmds' \in [Slots -> Cmds] /\ host' \in [Hosts -> HostStates]
        /\ \A t \in Slots : t # s => cmds'[t] = cmds[t]
        /\ \/ cmds'[s] = NoCmd /\ \A h \in Hosts : host'[h].slot # s
           \/ cmds'[s] = DirectoryCmd /\ ok /\ cmds[s].op = "payload_begin"
        /\ \A h \in Hosts :
             \/ host'[h] = AtRest
             \/ host'[h] = host[h]
             \/ /\ ok /\ cmds[s].op = "directory" /\ host[h].slot = s
                /\ host'[h].pc = "put" /\ host'[h].slot = None
                /\ host'[h].version = host[h].version
    BY <1>1, EndEffect
  <1>3. TypeOK'
    BY <1>1, <1>2 DEF TypeOK, Fewer
  <1>4. /\ Running' \subseteq Running /\ Running \subseteq Pids
        /\ \A p \in Running' : Id(p)' = Id(p) /\ proc'[p] = proc[p]
        /\ Numbered' /\ AloneWhole' /\ (PidFd => KillsOnlyOwned)'
    BY FewerModels DEF IInv, KillsOnlyOwned
  <1>5. ASSUME NEW t \in Slots PROVE CommandPoint(cmds[t])'
    <2>1. CASE t # s
      <3>1. PICK c \in Cmds : c = cmds[t]
        BY <1>1 DEF TypeOK
      <3>2. CommandPoint(c)
        BY <1>1, <3>1
      <3>3. CommandPoint(c)'
        BY <1>1, <1>3, <3>2, PointStays
      <3>4. cmds'[t] = c
        BY <1>2, <2>1, <3>1
      <3>5. QED  BY <3>3, <3>4
    <2>2. CASE t = s /\ cmds'[s] = NoCmd
      BY <2>2, Constants DEF CommandPoint, StopPoint, StartPoint, UploadPoint
    <2>3. CASE t = s /\ cmds'[s] = DirectoryCmd /\ ok /\ cmds[s].op = "payload_begin"
      BY <2>3, Constants DEF CommandPoint, StopPoint, StartPoint, UploadPoint
    <2>4. QED  BY <1>2, <2>1, <2>2, <2>3
  <1>6. ASSUME NEW h \in Hosts PROVE HostPoint(h)'
    <2>0. HostPoint(h)
      BY <1>1
    <2>1. CASE host'[h] = AtRest
      BY <2>1, Constants DEF HostPoint
    <2>2. CASE host'[h] = host[h]
      <3>1. host'[h].pc = "put" =>
              host'[h].slot = None /\ host'[h].version \in Versions
                /\ (pending' \/ receipt' # None)
        BY <2>0, <2>2 DEF HostPoint, Later
      <3>2. ASSUME NEW t \in Slots, host'[h].slot = t
            PROVE  /\ cmds'[t].op # "none"
                   /\ cmds'[t].op \in {"payload_begin", "directory", "payload_verify"} =>
                        host'[h].version \in Versions
        <4>1. CASE t # s
          BY <1>2, <2>0, <2>2, <3>2, <4>1 DEF HostPoint
        <4>2. CASE t = s
          BY <1>2, <2>0, <2>2, <3>2, <4>2, Constants DEF HostPoint
        <4>3. QED  BY <4>1, <4>2
      <3>3. QED  BY <3>1, <3>2 DEF HostPoint
    <2>3. CASE /\ ok /\ cmds[s].op = "directory" /\ host[h].slot = s
               /\ host'[h].pc = "put" /\ host'[h].slot = None
               /\ host'[h].version = host[h].version
      <3>1. UploadPoint(cmds[s])
        BY <1>1 DEF CommandPoint
      <3>2. pending' \/ receipt' # None
        BY <2>3, <3>1 DEF UploadPoint, Later
      <3>3. host[h].version \in Versions
        BY <2>0, <2>3 DEF HostPoint
      <3>4. QED  BY <2>3, <3>2, <3>3, Constants DEF HostPoint
    <2>4. QED  BY <1>2, <2>1, <2>2, <2>3
  <1>7. FilesPoint'
    BY <1>1 DEF FilesPoint, Later
  <1>8. OneActive'
    <2> SUFFICES ASSUME ~overlapped'
                 PROVE  /\ \A r, t \in Slots : cmds'[r].op # "none" /\ cmds'[t].op # "none" => r = t
                        /\ \A g, h \in Hosts : host'[g] # AtRest /\ host'[h] # AtRest => g = h
                        /\ \A h \in Hosts, t \in Slots :
                             host'[h] # AtRest /\ cmds'[t].op # "none" => host'[h].slot = t
      BY DEF OneActive
    <2>1. \A t \in Slots : cmds'[t].op # "none" => cmds[t].op # "none"
      BY <1>2
    <2>2. \A h \in Hosts : host'[h] # AtRest => host[h] # AtRest
      BY <1>2, Constants
    <2>3. ~overlapped
      OBVIOUS
    <2>4. \A h \in Hosts, t \in Slots :
             host'[h] # AtRest /\ cmds'[t].op # "none" => host'[h].slot = t
      <3> SUFFICES ASSUME NEW h \in Hosts, NEW t \in Slots,
                          host'[h] # AtRest, cmds'[t].op # "none"
                   PROVE  host'[h].slot = t
        OBVIOUS
      <3>1. host[h].slot = t /\ t = s
        BY <1>1, <2>1, <2>2, <2>3 DEF OneActive
      <3>2. cmds[s].op = "payload_begin"
        BY <1>2, <3>1, Constants
      <3>3. QED  BY <1>2, <3>1, <3>2
    <2>5. QED  BY <1>1, <2>1, <2>2, <2>3, <2>4 DEF OneActive
  <1>9. SerialPoint'
    <2> SUFFICES ASSUME ~overlapped
                 PROVE  /\ \A p, q \in Running' : p = q
                        /\ \A p \in Running' : content = proc[p].ran /\ Known(p)'
                        /\ \A h \in Hosts : host'[h].pc = "put" => Running' = {}
                        /\ \A t \in Slots : cmds'[t].op # "start"
      BY <1>4 DEF SerialPoint
    <2>1. ASSUME NEW p \in Running' PROVE Known(p)'
      <3>1. Id(p) = marker'
        <4>1. Known(p)
          BY <1>1, <1>4 DEF SerialPoint
        <4>2. CASE cmds[s].op = "start"
          BY <4>2
        <4>3. CASE cmds[s].op # "start"
          BY <1>1, <4>1, <4>3 DEF Known, OneActive
        <4>4. QED  BY <4>2, <4>3
      <3>2. QED  BY <1>4, <3>1 DEF Known
    <2>2. \A h \in Hosts : host'[h].pc = "put" => Running = {}
      BY <1>1, <1>2, Constants DEF SerialPoint
    <2>3. ASSUME NEW t \in Slots PROVE cmds'[t].op # "start"
      <3>1. CASE t = s
        BY <1>2, <3>1, Constants
      <3>2. CASE t # s
        BY <1>1, <1>2, <3>2 DEF OneActive
      <3>3. QED  BY <3>1, <3>2
    <2>4. QED  BY <1>1, <1>4, <2>1, <2>2, <2>3 DEF SerialPoint
  <1>10. QED  BY <1>3, <1>4, <1>5, <1>6, <1>7, <1>8, <1>9 DEF IInv

\* A command goes on to its next point; a receipt may have been put in place,
\* or a process ended.
LEMMA ProgressStep ==
    ASSUME IInv, NEW s \in Slots, NEW c \in Cmds, Progress(s, c),
           UNCHANGED <<content, marker, births, overlapped>>, stray' \in BOOLEAN,
           pending' \in BOOLEAN, receipt' \in Versions \union {None}, Later, Fewer,
           PidFd => ~stray',
           c.op = cmds[s].op, c.op # "none", CommandPoint(c)',
           c.op = "start" => /\ c.id = cmds[s].id /\ c.pc = "spawn"
                             /\ ~overlapped => Running = {} /\ c.seen = content
    PROVE  IInv'
  <1>1. /\ TypeOK /\ Numbered /\ FilesPoint /\ OneActive /\ SerialPoint
        /\ \A t \in Slots : CommandPoint(cmds[t])
        /\ \A h \in Hosts : HostPoint(h)
    BY DEF IInv
  <1>2. /\ cmds' \in [Slots -> Cmds] /\ host' = host
        /\ \A t \in Slots : t # s => cmds'[t] = cmds[t]
        /\ cmds'[s] = c
    BY <1>1 DEF Progress, TypeOK
  <1>3. TypeOK'
    BY <1>1, <1>2 DEF TypeOK, Fewer
  <1>4. /\ Running' \subseteq Running /\ Running \subseteq Pids
        /\ \A p \in Running' : Id(p)' = Id(p) /\ proc'[p] = proc[p]
        /\ Numbered' /\ AloneWhole' /\ (PidFd => KillsOnlyOwned)'
    BY FewerModels DEF IInv, KillsOnlyOwned
  <1>5. ASSUME NEW t \in Slots PROVE CommandPoint(cmds[t])'
    <2>1. CASE t # s
      <3>1. PICK d \in Cmds : d = cmds[t]
        BY <1>1 DEF TypeOK
      <3>2. CommandPoint(d)
        BY <1>1, <3>1
      <3>3. CommandPoint(d)'
        BY <1>1, <1>3, <3>2, PointStays
      <3>4. cmds'[t] = d
        BY <1>2, <2>1, <3>1
      <3>5. QED  BY <3>3, <3>4
    <2>2. CASE t = s
      BY <1>2, <2>2
    <2>3. QED  BY <2>1, <2>2
  <1>6. \A h \in Hosts : HostPoint(h)'
    BY <1>1, <1>2 DEF HostPoint, Later
  <1>7. FilesPoint'
    BY <1>1 DEF FilesPoint, Later
  <1>8. OneActive'
    BY <1>1, <1>2 DEF OneActive
  <1>9. SerialPoint'
    <2> SUFFICES ASSUME ~overlapped
                 PROVE  /\ \A p, q \in Running' : p = q
                        /\ \A p \in Running' : content = proc[p].ran /\ Known(p)'
                        /\ \A h \in Hosts : host'[h].pc = "put" => Running' = {}
                        /\ \A t \in Slots : cmds'[t].op = "start" /\ cmds'[t].pc = "spawn" =>
                             Running' = {} /\ cmds'[t].seen = content
                        /\ \A t \in Slots : cmds'[t].op = "start" /\ cmds'[t].pc = "marker" =>
                             \A p \in Running' : Id(p) = cmds'[t].id
      BY <1>4 DEF SerialPoint
    <2>1. ASSUME NEW p \in Running' PROVE Known(p)'
      <3>1. CASE Id(p) = marker
        BY <1>4, <3>1 DEF Known
      <3>2. CASE Id(p) # marker
        <4>1. PICK t \in Slots : cmds[t].op = "start" /\ cmds[t].id = Id(p)
          BY <1>1, <1>4, <3>2 DEF SerialPoint, Known
        <4>2. cmds'[t].op = "start" /\ cmds'[t].id = Id(p)
          BY <1>2, <4>1
        <4>3. QED  BY <1>4, <4>2 DEF Known
      <3>3. QED  BY <3>1, <3>2
    <2>2. QED  BY <1>1, <1>2, <1>4, <2>1 DEF SerialPoint
  <1>10. QED  BY <1>3, <1>4, <1>5, <1>6, <1>7, <1>8, <1>9 DEF IInv

\* Nothing but commands, receipts and markers changes.
LEMMA Quiet ==
    ASSUME IInv, UNCHANGED <<marker, proc, births, stray>>
    PROVE  marker' \in Ids /\ stray' \in BOOLEAN /\ (PidFd => ~stray') /\ Fewer
  BY DEF IInv, TypeOK, Fewer, Numbered, KillsOnlyOwned

\* A step that leaves the files, receipts and processes alone.
LEMMA QuietFiles ==
    ASSUME IInv, UNCHANGED <<files, marker, proc, births, overlapped, stray>>
    PROVE  /\ UNCHANGED <<content, marker, proc, births, overlapped, stray>>
           /\ pending' \in BOOLEAN /\ receipt' \in Versions \union {None} /\ Later
  BY DEF IInv, TypeOK, Later, files

-----------------------------------------------------------------------------
(* The commands of an upload.                                              *)

LEMMA UploadSteps ==
    ASSUME IInv, NEW s \in Slots,
           \/ BeginCheck(s) \/ BeginWrite(s) \/ DirectoryCheck(s)
           \/ VerifyCheck(s) \/ VerifyReceipt(s) \/ VerifyUnlink(s)
    PROVE  IInv'
  <1>1. TypeOK /\ CommandPoint(cmds[s]) /\ cmds[s] \in Cmds
    BY DEF IInv, TypeOK
  <1>2. CASE BeginCheck(s)
    <2>1. cmds[s].op = "payload_begin"
      BY <1>2 DEF BeginCheck, At
    <2>2. /\ UNCHANGED <<content, marker, proc, births, overlapped, stray>>
          /\ pending' \in BOOLEAN /\ receipt' \in Versions \union {None} /\ Later
      BY <1>2, QuietFiles DEF BeginCheck
    <2>3. CASE End(s, FALSE)
      BY <2>1, <2>2, <2>3, EndStep, Quiet
    <2>4. CASE Progress(s, [cmds[s] EXCEPT !.pc = "write"])
      <3>0. PICK c \in Cmds : c = [cmds[s] EXCEPT !.pc = "write"]
        BY <1>1 DEF Cmds, Points
      <3>1. c.op = "payload_begin"
        BY <1>1, <2>1, <3>0 DEF Cmds
      <3>2. CommandPoint(c)'
        BY <3>1 DEF CommandPoint, StopPoint, StartPoint, UploadPoint
      <3>3. Progress(s, c)
        BY <2>4, <3>0
      <3>4. QED  BY <2>1, <2>2, <3>1, <3>2, <3>3, ProgressStep, Quiet
    <2>5. QED  BY <1>2, <2>3, <2>4 DEF BeginCheck
  <1>3. CASE BeginWrite(s)
    <2>1. cmds[s].op = "payload_begin" /\ End(s, TRUE)
      BY <1>3 DEF BeginWrite, At
    <2>2. /\ UNCHANGED <<content, marker, proc, births, overlapped, stray>>
          /\ pending' = TRUE /\ receipt' \in Versions \union {None} /\ Later
      BY <1>1, <1>3 DEF BeginWrite, TypeOK, Later
    <2>3. QED  BY <2>1, <2>2, EndStep, Quiet
  <1>4. CASE DirectoryCheck(s)
    <2>1. cmds[s].op = "directory" /\ End(s, Stopped)
      BY <1>4 DEF DirectoryCheck, At
    <2>2. /\ UNCHANGED <<content, marker, proc, births, overlapped, stray>>
          /\ pending' \in BOOLEAN /\ receipt' \in Versions \union {None} /\ Later
      BY <1>4, QuietFiles DEF DirectoryCheck
    <2>3. Stopped \in BOOLEAN /\ (Stopped => Running = {})
      BY DEF Stopped
    <2>4. QED  BY <2>1, <2>2, <2>3, EndStep, Quiet
  <1>5. CASE VerifyCheck(s)
    <2>1. cmds[s].op = "payload_verify"
      BY <1>5 DEF VerifyCheck, At
    <2>2. /\ UNCHANGED <<content, marker, proc, births, overlapped, stray>>
          /\ pending' \in BOOLEAN /\ receipt' \in Versions \union {None} /\ Later
      BY <1>5, QuietFiles DEF VerifyCheck
    <2>3. CASE End(s, FALSE)
      BY <2>1, <2>2, <2>3, EndStep, Quiet
    <2>4. CASE Progress(s, [cmds[s] EXCEPT !.pc = "receipt"])
      <3>0. PICK c \in Cmds : c = [cmds[s] EXCEPT !.pc = "receipt"]
        BY <1>1 DEF Cmds, Points
      <3>1. c.op = "payload_verify" /\ c.pc = "receipt" /\ c.version = cmds[s].version
        BY <1>1, <2>1, <3>0 DEF Cmds
      <3>2. CommandPoint(c)'
        BY <1>1, <2>1, <3>1 DEF CommandPoint, StopPoint, StartPoint, UploadPoint
      <3>3. Progress(s, c)
        BY <2>4, <3>0
      <3>4. QED  BY <2>1, <2>2, <3>1, <3>2, <3>3, ProgressStep, Quiet
    <2>5. QED  BY <1>5, <2>3, <2>4 DEF VerifyCheck
  <1>6. CASE VerifyReceipt(s)
    <2>1. cmds[s].op = "payload_verify" /\ cmds[s].version \in Versions
      BY <1>1, <1>6 DEF VerifyReceipt, At, CommandPoint, UploadPoint
    <2>2. /\ UNCHANGED <<content, marker, proc, births, overlapped, stray>>
          /\ pending' = pending /\ pending' \in BOOLEAN
          /\ receipt' = cmds[s].version /\ receipt' \in Versions
      BY <1>1, <1>6, <2>1 DEF VerifyReceipt, TypeOK
    <2>3. receipt' # None /\ Later
      BY <1>1, <2>2, Constants DEF Later, TypeOK
    <2>0. PICK c \in Cmds : c = [cmds[s] EXCEPT !.pc = "unlink"]
      BY <1>1 DEF Cmds, Points
    <2>4. c.op = "payload_verify" /\ c.version = cmds[s].version
      BY <1>1, <2>1, <2>0 DEF Cmds
    <2>5. CommandPoint(c)'
      BY <2>1, <2>3, <2>4 DEF CommandPoint, StopPoint, StartPoint, UploadPoint
    <2>6. Progress(s, c)
      BY <1>6, <2>0 DEF VerifyReceipt
    <2>7. QED  BY <2>1, <2>2, <2>3, <2>4, <2>5, <2>6, ProgressStep, Quiet
  <1>7. CASE VerifyUnlink(s)
    <2>1. cmds[s].op = "payload_verify" /\ receipt # None /\ End(s, pending)
      BY <1>1, <1>7 DEF VerifyUnlink, At, CommandPoint, UploadPoint
    <2>2. /\ UNCHANGED <<content, marker, proc, births, overlapped, stray>>
          /\ pending' = FALSE /\ receipt' = receipt /\ receipt \in Versions \union {None}
          /\ pending \in BOOLEAN
      BY <1>1, <1>7 DEF VerifyUnlink, TypeOK
    <2>3. Later
      BY <1>1, <2>1, <2>2 DEF Later, TypeOK
    <2>4. QED  BY <2>1, <2>2, <2>3, EndStep, Quiet
  <1>8. QED  BY <1>2, <1>3, <1>4, <1>5, <1>6, <1>7

-----------------------------------------------------------------------------
(* The command that starts a process.                                      *)

LEMMA StartCheckStep ==
    ASSUME IInv, NEW s \in Slots, StartCheck(s)
    PROVE  IInv'
  <1>1. /\ TypeOK /\ Numbered /\ OneActive /\ SerialPoint /\ FilesPoint
        /\ CommandPoint(cmds[s]) /\ cmds[s] \in Cmds
    BY DEF IInv, TypeOK
  <1>2. cmds[s].op = "start" /\ cmds[s].pc = "check" /\ cmds[s].id = NoId
    BY <1>1 DEF StartCheck, At, CommandPoint, StartPoint
  <1>3. /\ UNCHANGED <<content, marker, proc, births, overlapped, stray>>
        /\ pending' \in BOOLEAN /\ receipt' \in Versions \union {None} /\ Later
    BY QuietFiles DEF StartCheck
  <1>4. Running' = Running
    BY <1>3 DEF Running
  <1>5. ~overlapped => \A p \in Running : Id(p) = marker
    <2> SUFFICES ASSUME ~overlapped, NEW p \in Running, Id(p) # marker PROVE FALSE
      OBVIOUS
    <2>1. PICK t \in Slots : cmds[t].op = "start" /\ cmds[t].id = Id(p)
      BY <1>1 DEF SerialPoint, Known
    <2>2. t = s
      BY <1>1, <1>2, <2>1 DEF OneActive
    <2>3. proc[p].start = 0 /\ p \in Pids /\ proc[p].model
      BY <1>2, <2>1, <2>2 DEF Id, NoId, Running
    <2>4. QED  BY <1>1, <2>3 DEF Numbered, Free
  <1>6. CASE \E ok \in BOOLEAN : End(s, ok)
    BY <1>2, <1>3, <1>4, <1>5, <1>6, EndStep, Quiet
  <1>7. CASE /\ OwnedState = NoId /\ Startable
             /\ Progress(s, [cmds[s] EXCEPT !.pc = "spawn", !.seen = content])
    <2>1. \E v \in Versions : content = Payload(v)
      <3>1. CASE receipt # None
        BY <1>1, <1>7, <3>1 DEF Startable, Complete, TypeOK
      <3>2. CASE receipt = None
        BY <1>1, <1>7, <3>2, DeploymentAssumption DEF Startable, FilesPoint, NoFiles
      <3>3. QED  BY <3>1, <3>2
    <2>2. ~overlapped => Running = {}
      BY <1>1, <1>5, <1>7, OwnedFacts
    <2>3. PICK c \in Cmds : c = [cmds[s] EXCEPT !.pc = "spawn", !.seen = content]
      BY <1>1 DEF Cmds, Points, TypeOK
    <2>4. c.op = "start" /\ c.pc = "spawn" /\ c.seen = content /\ c.id = cmds[s].id
      BY <1>1, <1>2, <2>3 DEF Cmds
    <2>5. CommandPoint(c)'
      BY <2>1, <2>4 DEF CommandPoint, StopPoint, StartPoint, UploadPoint, Payload
    <2>6. Progress(s, c)
      BY <1>7, <2>3
    <2>7. QED  BY <1>2, <1>3, <2>2, <2>4, <2>5, <2>6, ProgressStep, Quiet
  <1>8. QED  BY <1>6, <1>7 DEF StartCheck

\* The child's identity is written, or the child is gone or is ended.
LEMMA WriteMarkerStep ==
    ASSUME IInv, NEW s \in Slots, WriteMarker(s)
    PROVE  IInv'
  <1> DEFINE id == cmds[s].id
  <1>1. /\ TypeOK /\ Numbered /\ OneActive /\ SerialPoint
        /\ CommandPoint(cmds[s]) /\ cmds[s] \in Cmds
    BY DEF IInv, TypeOK
  <1>2. cmds[s].op = "start" /\ cmds[s].pc = "marker" /\ id \in Ids /\ id.pid \in Pids
    BY <1>1 DEF WriteMarker, At, CommandPoint, StartPoint, Cmds
  <1>3. /\ UNCHANGED <<content, births, overlapped, stray>>
        /\ pending' \in BOOLEAN /\ receipt' \in Versions \union {None}
        /\ pending' = pending /\ receipt' = receipt
    BY <1>1 DEF WriteMarker, files, TypeOK
  <1>4. ~overlapped => \A p \in Running : Id(p) = id
    BY <1>1, <1>2 DEF SerialPoint
  <1> HIDE DEF id
  <1>5. ~overlapped => \A p \in Running :
          /\ p \in Pids /\ proc[p].model
          /\ p = id.pid /\ proc[p].start = id.start
    BY <1>4 DEF Running, Id
  <1>6. CASE proc[id.pid].start # id.start /\ End(s, FALSE) /\ UNCHANGED <<marker, proc>>
    <2>1. Later /\ Fewer /\ marker' \in Ids
      BY <1>1, <1>3, <1>6 DEF Later, Fewer, TypeOK, Numbered
    <2>2. ~overlapped => Running' = {}
      BY <1>5, <1>6 DEF Running
    <2>3. End(s, FALSE)
      BY <1>6
    <2>4. QED  BY <1>2, <1>3, <2>1, <2>2, <2>3, EndStep
  <1>7. CASE marker' = id /\ End(s, TRUE) /\ UNCHANGED proc
    <2>1. Later /\ Fewer /\ marker' \in Ids
      BY <1>1, <1>2, <1>3, <1>7 DEF Later, Fewer, TypeOK, Numbered
    <2>2. ~overlapped => \A p \in Running' : Id(p) = marker'
      BY <1>4, <1>7 DEF Running
    <2>3. End(s, TRUE)
      BY <1>7
    <2>4. QED  BY <1>2, <1>3, <2>1, <2>2, <2>3, EndStep
  <1>8. CASE proc' = [proc EXCEPT ![id.pid] = Free] /\ End(s, FALSE) /\ UNCHANGED marker
    <2>1. /\ proc'[id.pid] = Free /\ \A p \in Pids : p # id.pid => proc'[p] = proc[p]
          /\ proc' \in [Pids -> Procs]
      BY <1>1, <1>2, <1>8, Constants DEF TypeOK
    <2>2. Later /\ Fewer /\ marker' \in Ids
      BY <1>1, <1>3, <1>8, <2>1 DEF Later, Fewer, TypeOK, Numbered, Free
    <2>3. ~overlapped => Running' = {}
      <3>1. \A p \in Running' : p \in Running /\ p # id.pid
        BY <2>1 DEF Running, Free
      <3>2. ~overlapped => \A p \in Running' : FALSE
        BY <1>5, <3>1
      <3>3. QED  BY <3>2
    <2>4. QED  BY <1>2, <1>3, <1>8, <2>2, <2>3, EndStep
  <1>9. QED  BY <1>6, <1>7, <1>8 DEF WriteMarker, id

-----------------------------------------------------------------------------
(* The command that stops one.                                             *)

LEMMA StopSteps ==
    ASSUME IInv, NEW s \in Slots,
           StopOwned(s) \/ OpenPidFd(s) \/ Recheck(s) \/ StopWait(s)
    PROVE  IInv'
  <1>1. /\ TypeOK /\ Numbered /\ CommandPoint(cmds[s]) /\ cmds[s] \in Cmds
    BY DEF IInv, TypeOK
  <1>2. cmds[s].op = "stop"
    BY DEF StopOwned, OpenPidFd, Recheck, StopWait, At
  <1>3. /\ UNCHANGED <<content, marker, proc, births, overlapped, stray>>
        /\ pending' \in BOOLEAN /\ receipt' \in Versions \union {None} /\ Later
    BY QuietFiles DEF StopOwned, OpenPidFd, Recheck, StopWait
  <1>4. CASE \E ok \in BOOLEAN : End(s, ok)
    BY <1>2, <1>3, <1>4, EndStep, Quiet
  <1>5. ASSUME NEW c \in Cmds, Progress(s, c), c.op = "stop", StopPoint(c)
        PROVE  IInv'
    <2>1. CommandPoint(c)'
      BY <1>3, <1>5 DEF CommandPoint, StopPoint, StartPoint, UploadPoint
    <2>2. QED  BY <1>2, <1>3, <1>5, <2>1, ProgressStep, Quiet
  <1>6. CASE StopOwned(s) /\ OwnedState # NoId
    <2> DEFINE q == IF PidFd THEN "open" ELSE "kill"
    <2>1. /\ OwnedState \in Ids /\ OwnedState.pid \in Pids
          /\ proc[OwnedState.pid].start = OwnedState.start /\ OwnedState.start <= births
      BY <1>1, <1>6, OwnedFacts DEF Numbered
    <2>2. PICK c \in Cmds : c = [cmds[s] EXCEPT !.id = OwnedState, !.pc = q]
      BY <1>1, <2>1 DEF Cmds, Points
    <2>3. c.op = "stop" /\ c.id = OwnedState /\ c.pc = q
      BY <1>1, <1>2, <2>2 DEF Cmds
    <2>4. StopPoint(c)
      BY <2>1, <2>3, DeploymentAssumption DEF StopPoint, TypeOK, Ids
    <2>5. Progress(s, c)
      BY <1>6, <2>2 DEF StopOwned
    <2>6. QED  BY <1>5, <2>3, <2>4, <2>5
  <1>7. CASE OpenPidFd(s) /\ proc[cmds[s].id.pid] # Free
    <2> DEFINE p == cmds[s].id.pid
    <2>1. /\ p \in Pids /\ proc[p].start \in Nat /\ proc[p].start # 0
          /\ cmds[s].id.start <= proc[p].start /\ proc[p].start <= births
      BY <1>1, <1>7 DEF OpenPidFd, At, CommandPoint, StopPoint, Numbered, TypeOK, Procs
    <2>2. PICK c \in Cmds : c = [cmds[s] EXCEPT !.fd = proc[p].start, !.pc = "recheck"]
      BY <1>1, <2>1 DEF Cmds, Points
    <2>3. /\ c.op = "stop" /\ c.id = cmds[s].id /\ c.pc = "recheck"
          /\ c.fd = proc[p].start
      BY <1>1, <1>2, <2>2 DEF Cmds
    <2>4. StopPoint(c)
      BY <2>1, <2>3 DEF StopPoint
    <2>5. Progress(s, c)
      BY <1>7, <2>2 DEF OpenPidFd
    <2>6. QED  BY <1>5, <2>3, <2>4, <2>5
  <1>8. CASE Recheck(s) /\ OwnedState = cmds[s].id
    <2> DEFINE i == cmds[s].id
    <2>1. i.pid \in Pids /\ i.pid # None
      BY <1>1, <1>8, Constants DEF Recheck, At, CommandPoint, StopPoint
    <2>2. proc[i.pid].start = i.start /\ i.start # 0
      BY <1>1, <1>8, <2>1, OwnedFacts DEF NoId
    <2>3. i.start <= cmds[s].fd /\ cmds[s].fd <= i.start
      BY <1>1, <1>8, <2>2 DEF Recheck, At, CommandPoint, StopPoint
    <2>4. i.start = cmds[s].fd
      BY <1>1, <2>3 DEF Cmds, Ids
    <2>5. PICK c \in Cmds : c = [cmds[s] EXCEPT !.pc = "kill"]
      BY <1>1 DEF Cmds, Points
    <2>6. c.op = "stop" /\ c.id = i /\ c.pc = "kill" /\ c.fd = cmds[s].fd
      BY <1>1, <1>2, <2>5 DEF Cmds
    <2>7. StopPoint(c)
      BY <2>1, <2>4, <2>6 DEF StopPoint
    <2>8. QED  BY <1>5, <1>8, <2>5, <2>6, <2>7 DEF Recheck
  <1>9. (OwnedState = NoId) \in BOOLEAN
    OBVIOUS
  <1>10. CASE StopOwned(s)
    BY <1>4, <1>6, <1>10 DEF StopOwned
  <1>11. CASE OpenPidFd(s)
    BY <1>4, <1>7, <1>9, <1>11 DEF OpenPidFd
  <1>12. CASE Recheck(s)
    BY <1>4, <1>8, <1>9, <1>12 DEF Recheck
  <1>13. CASE StopWait(s)
    BY <1>4, <1>9, <1>13 DEF StopWait
  <1>14. QED  BY <1>10, <1>11, <1>12, <1>13

\* With a descriptor the signal reaches the process of the identity or none.
LEMMA SignalStep ==
    ASSUME IInv, NEW s \in Slots, Signal(s)
    PROVE  IInv'
  <1> DEFINE p == cmds[s].id.pid
             q == IF cmds[s].last THEN "wait" ELSE "owned"
  <1>1. /\ TypeOK /\ Numbered /\ CommandPoint(cmds[s]) /\ cmds[s] \in Cmds
        /\ (PidFd => ~stray)
    BY DEF IInv, TypeOK, KillsOnlyOwned
  <1>2. cmds[s].op = "stop" /\ cmds[s].pc = "kill" /\ p \in Pids
    BY <1>1 DEF Signal, At, CommandPoint, StopPoint
  <1>3. /\ UNCHANGED <<content, marker, births, overlapped>> /\ marker' \in Ids
        /\ pending' = pending /\ receipt' = receipt
        /\ pending' \in BOOLEAN /\ receipt' \in Versions \union {None}
    BY <1>1 DEF Signal, files, TypeOK
  <1>4. proc' = proc \/ proc' = [proc EXCEPT ![p] = Free]
    BY DEF Signal
  <1>5. /\ proc' \in [Pids -> Procs]
        /\ \A r \in Pids : proc'[r] = proc[r] \/ proc'[r] = Free
    BY <1>1, <1>2, <1>4, Constants DEF TypeOK
  <1>6. Later /\ Fewer
    BY <1>1, <1>3, <1>5 DEF Later, Fewer, Numbered, Free, TypeOK
  <1>7. stray' = (stray \/ (Reached(s) # Free /\ Reached(s).start # cmds[s].id.start))
    BY DEF Signal
  <1>8. stray' \in BOOLEAN
    BY <1>1, <1>7 DEF TypeOK
  <1>9. PidFd => ~stray'
    <2> SUFFICES ASSUME PidFd PROVE ~stray'
      OBVIOUS
    <2>1. cmds[s].fd = cmds[s].id.start
      BY <1>1, <1>2 DEF CommandPoint, StopPoint
    <2>2. Reached(s) = Free \/ Reached(s).start = cmds[s].fd
      BY DEF Reached
    <2>3. QED  BY <1>1, <1>7, <2>1, <2>2
  <1>10. PICK c \in Cmds : c = [cmds[s] EXCEPT !.pc = q, !.last = TRUE]
    BY <1>1 DEF Cmds, Points
  <1>11. c.op = "stop" /\ c.pc = q
    BY <1>1, <1>2, <1>10 DEF Cmds
  <1>12. CommandPoint(c)'
    BY <1>11 DEF CommandPoint, StopPoint, StartPoint, UploadPoint
  <1>13. Progress(s, c)
    BY <1>10 DEF Signal
  <1>14. QED  BY <1>2, <1>3, <1>6, <1>8, <1>9, <1>11, <1>12, <1>13, ProgressStep

-----------------------------------------------------------------------------
(* The process that is started, and what else happens to processes.        *)

\* A process is born: it is the youngest, and the others stay.
LEMMA BornFacts ==
    ASSUME TypeOK, Numbered, NEW p \in Pids, NEW m \in BOOLEAN, NEW f \in Contents,
           Born(p, m, f)
    PROVE  /\ proc' \in [Pids -> Procs] /\ births' = births + 1
           /\ proc'[p] = [start |-> births + 1, model |-> m, ran |-> f]
           /\ \A q \in Pids : q # p => proc'[q] = proc[q]
  <1>1. [start |-> births + 1, model |-> m, ran |-> f] \in Procs
    BY DEF TypeOK, Procs
  <1>2. QED  BY <1>1 DEF Born, TypeOK

LEMMA SpawnStep ==
    ASSUME IInv, NEW s \in Slots, Spawn(s)
    PROVE  IInv'
  <1>1. /\ TypeOK /\ Numbered /\ FilesPoint /\ OneActive /\ SerialPoint /\ AloneWhole
        /\ \A t \in Slots : CommandPoint(cmds[t])
        /\ \A h \in Hosts : HostPoint(h)
        /\ cmds[s] \in Cmds
    BY DEF IInv, TypeOK
  <1>2. cmds[s].op = "start" /\ cmds[s].pc = "spawn" /\ content \in Contents
    BY <1>1 DEF Spawn, At, TypeOK
  <1>3. PICK v \in Versions : cmds[s].seen = Payload(v)
    BY <1>1, <1>2 DEF CommandPoint, StartPoint
  <1>4. PICK p \in Pids :
          /\ Born(p, TRUE, content)
          /\ Progress(s, [cmds[s] EXCEPT !.pc = "marker",
                            !.id = [pid |-> p, start |-> births + 1]])
    BY DEF Spawn
  <1>5. /\ proc' \in [Pids -> Procs] /\ births' = births + 1 /\ births \in Nat
        /\ proc'[p] = [start |-> births + 1, model |-> TRUE, ran |-> content]
        /\ \A q \in Pids : q # p => proc'[q] = proc[q]
    BY <1>1, <1>2, <1>4, BornFacts DEF TypeOK
  <1>6. UNCHANGED <<content, pending, receipt, marker, overlapped, stray>>
    BY DEF Spawn, files
  <1>7. PICK c \in Cmds : c = [cmds[s] EXCEPT !.pc = "marker",
                                 !.id = [pid |-> p, start |-> births + 1]]
    <2>1. [pid |-> p, start |-> births + 1] \in Ids
      BY <1>5 DEF Ids
    <2>2. QED  BY <1>1, <2>1 DEF Cmds, Points
  <1>8. c.op = "start" /\ c.pc = "marker" /\ c.id = [pid |-> p, start |-> births + 1]
    BY <1>1, <1>2, <1>7 DEF Cmds
  <1>9. /\ cmds' \in [Slots -> Cmds] /\ host' = host
        /\ \A t \in Slots : t # s => cmds'[t] = cmds[t]
        /\ cmds'[s] = c
    BY <1>1, <1>4, <1>7 DEF Progress, TypeOK
  <1>10. TypeOK'
    BY <1>1, <1>5, <1>6, <1>9 DEF TypeOK
  <1>11. Numbered'
    BY <1>1, <1>5, <1>6 DEF Numbered, TypeOK, Procs
  <1>12. Later
    BY <1>1, <1>5, <1>6 DEF Later, TypeOK
  <1>13. ASSUME NEW t \in Slots PROVE CommandPoint(cmds[t])'
    <2>1. CASE t # s
      <3>1. PICK d \in Cmds : d = cmds[t]
        BY <1>1 DEF TypeOK
      <3>2. CommandPoint(d)'
        BY <1>1, <1>10, <1>12, <3>1, PointStays
      <3>3. cmds'[t] = d
        BY <1>9, <2>1, <3>1
      <3>4. QED  BY <3>2, <3>3
    <2>2. CASE t = s
      BY <1>8, <1>9, <2>2 DEF CommandPoint, StopPoint, StartPoint, UploadPoint
    <2>3. QED  BY <2>1, <2>2
  <1>14. \A h \in Hosts : HostPoint(h)'
    BY <1>1, <1>2, <1>6, <1>8, <1>9 DEF HostPoint
  <1>15. FilesPoint' /\ OneActive'
    BY <1>1, <1>2, <1>6, <1>8, <1>9 DEF FilesPoint, OneActive
  <1>16. AloneWhole'
    <2> SUFFICES ASSUME ~overlapped, NEW q \in Running'
                 PROVE  \E w \in Versions : proc'[q].ran = Payload(w)
      BY <1>6 DEF AloneWhole, RunsWhole, Payload
    <2>0. content = Payload(v)
      BY <1>1, <1>2, <1>3 DEF SerialPoint
    <2>1. q \in Pids /\ proc'[q].model
      BY DEF Running
    <2>2. CASE q = p
      BY <1>5, <2>0, <2>2
    <2>3. CASE q # p
      BY <1>1, <1>5, <2>1, <2>3 DEF AloneWhole, RunsWhole, Running
    <2>4. QED  BY <2>2, <2>3
  <1>17. SerialPoint'
    <2> SUFFICES ASSUME ~overlapped
                 PROVE  /\ \A q \in Running' :
                             /\ q = p /\ content = proc'[q].ran /\ Known(q)'
                             /\ Id(q)' = c.id
                        /\ \A h \in Hosts : host[h].pc # "put"
                        /\ \A t \in Slots : cmds'[t].op = "start" =>
                             cmds'[t].pc = "marker" /\ cmds'[t].id = c.id
      BY <1>6, <1>9 DEF SerialPoint
    <2>1. Running = {} /\ cmds[s].seen = content
      BY <1>1, <1>2 DEF SerialPoint
    <2>2. ASSUME NEW q \in Running' PROVE q = p
      <3>1. q \in Pids /\ proc'[q].model
        BY DEF Running
      <3>2. q # p => q \in Running
        BY <1>5, <3>1 DEF Running
      <3>3. QED  BY <2>1, <3>2
    <2>3. Id(p)' = c.id
      BY <1>5, <1>8 DEF Id
    <2>4. Known(p)'
      BY <1>8, <1>9, <2>3 DEF Known
    <2>5. content = proc'[p].ran
      BY <1>5, <2>1
    <2>6. \A h \in Hosts : host[h].pc # "put"
      BY <1>1, <1>2, Constants DEF OneActive, HostPoint
    <2>7. ASSUME NEW t \in Slots, cmds'[t].op = "start"
          PROVE  cmds'[t].pc = "marker" /\ cmds'[t].id = c.id
      <3>1. t = s
        BY <1>1, <1>2, <1>9, <2>7 DEF OneActive
      <3>2. QED  BY <1>8, <1>9, <3>1
    <2>8. QED  BY <2>2, <2>3, <2>4, <2>5, <2>6, <2>7
  <1>18. PidFd => ~stray'
    BY <1>6 DEF IInv, KillsOnlyOwned
  <1>19. QED
    BY <1>10, <1>11, <1>13, <1>14, <1>15, <1>16, <1>17, <1>18 DEF IInv, KillsOnlyOwned

\* A process ends by itself, or another one is born.
LEMMA ProcessSteps ==
    ASSUME IInv, NEW p \in Pids, Exit(p) \/ OtherProcess(p)
    PROVE  IInv'
  <1>1. /\ TypeOK /\ Numbered /\ FilesPoint /\ OneActive /\ SerialPoint
        /\ \A t \in Slots : CommandPoint(cmds[t])
        /\ \A h \in Hosts : HostPoint(h)
        /\ (PidFd => ~stray)
    BY DEF IInv, KillsOnlyOwned
  <1>2. UNCHANGED <<content, pending, receipt, marker, cmds, host, overlapped, stray>>
    BY DEF Exit, OtherProcess, files
  <1>3. /\ proc' \in [Pids -> Procs] /\ births' \in Nat /\ Later /\ Numbered'
        /\ \A q \in Pids : proc'[q].model => proc'[q] = proc[q]
    <2>1. CASE Exit(p)
      <3>1. /\ births' = births /\ proc' \in [Pids -> Procs] /\ proc'[p] = Free
            /\ \A q \in Pids : q # p => proc'[q] = proc[q]
        BY <1>1, <2>1, Constants DEF Exit, TypeOK
      <3>2. QED  BY <1>1, <1>2, <3>1 DEF TypeOK, Later, Numbered, Free
    <2>2. CASE OtherProcess(p)
      <3>1. /\ births' = births + 1 /\ proc' \in [Pids -> Procs]
            /\ proc'[p] = [start |-> births + 1, model |-> FALSE, ran |-> NoFiles]
            /\ \A q \in Pids : q # p => proc'[q] = proc[q]
        BY <1>1, <2>2, Constants, BornFacts DEF OtherProcess
      <3>2. \A q \in Pids : proc[q].start \in Nat
        BY <1>1 DEF TypeOK, Procs
      <3>3. QED  BY <1>1, <1>2, <3>1, <3>2 DEF TypeOK, Later, Numbered
    <2>3. QED  BY <2>1, <2>2
  <1>4. Fewer /\ (PidFd => ~stray')
    BY <1>1, <1>2, <1>3 DEF Fewer
  <1>5. /\ Running' \subseteq Running /\ Running \subseteq Pids
        /\ \A q \in Running' : Id(q)' = Id(q) /\ proc'[q] = proc[q]
        /\ AloneWhole' /\ (PidFd => KillsOnlyOwned)'
    BY <1>2, <1>4, FewerModels
  <1>6. TypeOK'
    BY <1>1, <1>2, <1>3 DEF TypeOK
  <1>7. ASSUME NEW t \in Slots PROVE CommandPoint(cmds[t])'
    <2>1. PICK d \in Cmds : d = cmds[t]
      BY <1>1 DEF TypeOK
    <2>2. CommandPoint(d)'
      BY <1>1, <1>3, <1>6, <2>1, PointStays
    <2>3. QED  BY <1>2, <2>1, <2>2
  <1>8. (\A h \in Hosts : HostPoint(h)') /\ FilesPoint' /\ OneActive'
    BY <1>1, <1>2 DEF HostPoint, FilesPoint, OneActive
  <1>9. SerialPoint'
    <2>1. \A q \in Running' : Known(q) => Known(q)'
      BY <1>2, <1>5 DEF Known
    <2>2. QED  BY <1>1, <1>2, <1>5, <2>1 DEF SerialPoint
  <1>10. QED  BY <1>3, <1>5, <1>6, <1>7, <1>8, <1>9 DEF IInv

\* A restart of the target.
LEMMA RebootStep ==
    ASSUME IInv, Reboot
    PROVE  IInv'
  <1>1. TypeOK /\ Numbered /\ FilesPoint /\ (PidFd => ~stray)
    BY DEF IInv, KillsOnlyOwned
  <1>2. /\ UNCHANGED <<content, pending, receipt, marker, births, overlapped, stray>>
        /\ \A p \in Pids : proc'[p] = Free
        /\ \A s \in Slots : cmds'[s] = NoCmd
        /\ \A h \in Hosts : host'[h] = AtRest
    BY DEF Reboot, files
  <1>3. TypeOK'
    BY <1>1, Constants DEF Reboot, TypeOK, files
  <1>4. Running' = {}
    BY <1>2 DEF Running, Free
  <1>5. Numbered' /\ FilesPoint' /\ AloneWhole' /\ (PidFd => KillsOnlyOwned)'
    <2>1. Numbered'
      <3>1. births' \in Nat /\ marker' = marker /\ Free.start = 0
        BY <1>1, <1>2 DEF TypeOK, Free
      <3>2. \A p \in Pids : proc'[p].start = 0 /\ proc'[p] = Free
        BY <1>2, <3>1
      <3>3. QED  BY <1>1, <3>1, <3>2 DEF Numbered
    <2>2. AloneWhole'
      BY <1>4 DEF AloneWhole, RunsWhole
    <2>3. QED  BY <1>1, <1>2, <2>1, <2>2 DEF FilesPoint, KillsOnlyOwned
  <1>6. \A s \in Slots : CommandPoint(cmds[s])'
    BY <1>2, Constants DEF CommandPoint, StopPoint, StartPoint, UploadPoint
  <1>7. \A h \in Hosts : HostPoint(h)'
    BY <1>2, Constants DEF HostPoint
  <1>8. OneActive' /\ SerialPoint'
    BY <1>2, <1>4, Constants DEF OneActive, SerialPoint
  <1>9. QED  BY <1>3, <1>5, <1>6, <1>7, <1>8 DEF IInv

-----------------------------------------------------------------------------
(* The hosts.                                                              *)

\* A host asks the target for a command, in an empty slot.
LEMMA LaunchStep ==
    ASSUME IInv, NEW h \in Hosts, NEW s \in Slots, NEW c \in Cmds, NEW n \in HostStates,
           cmds[s] = NoCmd, cmds' = [cmds EXCEPT ![s] = c],
           host' = [host EXCEPT ![h] = n], n.slot = s, n.pc = "wait",
           c.op # "none", CommandPoint(c)', c.op = "start" => c.pc = "check",
           c.op \in {"payload_begin", "directory", "payload_verify"} => n.version \in Versions,
           UNCHANGED <<files, marker, proc, births, stray>>, overlapped' \in BOOLEAN,
           ~overlapped' => /\ ~overlapped \/ Running = {}
                           /\ \A t \in Slots : cmds[t].op = "none"
                           /\ \A g \in Hosts : g # h => host[g] = AtRest
    PROVE  IInv'
  <1>1. /\ TypeOK /\ Numbered /\ FilesPoint /\ OneActive /\ SerialPoint
        /\ \A t \in Slots : CommandPoint(cmds[t])
        /\ \A g \in Hosts : HostPoint(g)
    BY DEF IInv
  <1>2. /\ cmds' \in [Slots -> Cmds] /\ cmds'[s] = c
        /\ \A t \in Slots : t # s => cmds'[t] = cmds[t]
        /\ host' \in [Hosts -> HostStates] /\ host'[h] = n
        /\ \A g \in Hosts : g # h => host'[g] = host[g]
    BY <1>1 DEF TypeOK
  <1>3. UNCHANGED <<content, pending, receipt, marker, proc, births, stray>>
    BY DEF files
  <1>4. TypeOK'
    BY <1>1, <1>2, <1>3 DEF TypeOK
  <1>5. Later /\ Fewer /\ (PidFd => ~stray')
    BY <1>3, Quiet DEF Later, IInv, TypeOK
  <1>6. Running' = Running /\ \A p \in Pids : Id(p)' = Id(p)
    BY <1>3 DEF Running, Id
  <1>7. Numbered' /\ AloneWhole' /\ (PidFd => KillsOnlyOwned)'
    BY <1>5, FewerModels
  <1>8. ASSUME NEW t \in Slots PROVE CommandPoint(cmds[t])'
    <2>1. CASE t # s
      <3>1. PICK d \in Cmds : d = cmds[t]
        BY <1>1 DEF TypeOK
      <3>2. CommandPoint(d)'
        BY <1>1, <1>4, <1>5, <3>1, PointStays
      <3>3. cmds'[t] = d
        BY <1>2, <2>1, <3>1
      <3>4. QED  BY <3>2, <3>3
    <2>2. CASE t = s
      BY <1>2, <2>2
    <2>3. QED  BY <2>1, <2>2
  <1>9. ASSUME NEW g \in Hosts PROVE HostPoint(g)'
    <2>1. CASE g = h
      BY <1>2, <2>1 DEF HostPoint
    <2>2. CASE g # h
      <3>1. host'[g] = host[g] /\ host[g].slot # s
        BY <1>1, <1>2, <2>2, Constants DEF HostPoint
      <3>2. QED  BY <1>1, <1>2, <1>3, <3>1 DEF HostPoint
    <2>3. QED  BY <2>1, <2>2
  <1>10. FilesPoint'
    BY <1>1, <1>3 DEF FilesPoint
  <1>11. OneActive'
    BY <1>2 DEF OneActive
  <1>12. SerialPoint'
    <2> SUFFICES ASSUME ~overlapped'
                 PROVE  /\ \A p, q \in Running : p = q
                        /\ \A p \in Running : content = proc[p].ran /\ Known(p)'
                        /\ \A g \in Hosts : host'[g].pc = "put" => Running = {}
                        /\ \A t \in Slots : cmds'[t].op = "start" => cmds'[t].pc = "check"
      BY <1>3, <1>6 DEF SerialPoint
    <2>1. ~overlapped \/ Running = {}
      OBVIOUS
    <2>2. \A p \in Running : Known(p)'
      <3>1. \A p \in Running : p \in Pids /\ Id(p) = marker
        BY <1>1, <2>1 DEF SerialPoint, Known, Running
      <3>2. QED  BY <1>3, <1>6, <3>1 DEF Known
    <2>3. \A g \in Hosts : host'[g].pc # "put"
      BY <1>2, Constants
    <2>4. \A t \in Slots : cmds'[t].op = "start" => cmds'[t].pc = "check"
      BY <1>2
    <2>5. CASE ~overlapped
      BY <1>1, <2>2, <2>3, <2>4, <2>5 DEF SerialPoint
    <2>6. CASE Running = {}
      BY <2>3, <2>4, <2>6
    <2>7. QED  BY <2>1, <2>5, <2>6
  <1>13. QED
    BY <1>4, <1>7, <1>8, <1>9, <1>10, <1>11, <1>12 DEF IInv

LEMMA BeginStep ==
    ASSUME IInv, NEW h \in Hosts, NEW v \in Versions \union {None},
           \/ v \in Versions /\ Begin(h, "payload_begin", "check", v)
           \/ Begin(h, "start", "check", v)
           \/ Begin(h, "stop", "owned", v)
    PROVE  IInv'
  <1>1. PICK op \in {"payload_begin", "start", "stop"}, first \in {"check", "owned"} :
          /\ Begin(h, op, first, v)
          /\ op = "payload_begin" => v \in Versions
          /\ op = "start" => first = "check"
          /\ op = "stop" => first = "owned"
    OBVIOUS
  <1>2. PICK s \in Slots :
          /\ cmds[s] = NoCmd
          /\ cmds' = [cmds EXCEPT ![s] = [NoCmd EXCEPT !.op = op, !.pc = first, !.version = v]]
          /\ host' = [host EXCEPT ![h] =
               [[AtRest EXCEPT !.pc = "wait", !.version = v] EXCEPT !.slot = s]]
    BY <1>1 DEF Begin, Launch
  <1>3. PICK c \in Cmds : c = [NoCmd EXCEPT !.op = op, !.pc = first, !.version = v]
    BY Constants DEF Cmds, Ops, Points
  <1>4. c.op = op /\ c.pc = first /\ c.id = NoId
    BY <1>3 DEF NoCmd
  <1>5. PICK n \in HostStates :
          n = [[AtRest EXCEPT !.pc = "wait", !.version = v] EXCEPT !.slot = s]
    BY Constants DEF HostStates
  <1>6. n.pc = "wait" /\ n.slot = s /\ n.version = v
    BY <1>5 DEF AtRest
  <1>7. /\ UNCHANGED <<files, marker, proc, births, stray>>
        /\ overlapped' = StillOverlapped /\ overlapped' \in BOOLEAN
    BY <1>1 DEF Begin, StillOverlapped
  <1>8. CommandPoint(c)'
    BY <1>1, <1>4 DEF CommandPoint, StopPoint, StartPoint, UploadPoint
  <1>9. ~overlapped' => /\ ~overlapped \/ Running = {}
                        /\ \A t \in Slots : cmds[t].op = "none"
                        /\ \A g \in Hosts : g # h => host[g] = AtRest
    BY <1>7, Constants DEF Busy, StillOverlapped
  <1>10. /\ cmds' = [cmds EXCEPT ![s] = c] /\ host' = [host EXCEPT ![h] = n]
         /\ c.op # "none" /\ (c.op = "start" => c.pc = "check")
         /\ c.op \in {"payload_begin", "directory", "payload_verify"} => n.version \in Versions
    BY <1>1, <1>2, <1>3, <1>4, <1>5, <1>6
  <1>11. QED  BY <1>2, <1>6, <1>7, <1>8, <1>9, <1>10, LaunchStep

\* The files are in place and the target is asked to verify them.
LEMMA VerifyStep ==
    ASSUME IInv, NEW h \in Hosts, Verify(h)
    PROVE  IInv'
  <1>1. TypeOK /\ OneActive /\ HostPoint(h) /\ host[h] \in HostStates
    BY DEF IInv, TypeOK
  <1>2. host[h].pc = "put" /\ host[h].slot = None /\ host[h].version \in Versions
    BY <1>1 DEF Verify, HostPoint
  <1>3. PICK s \in Slots :
          /\ cmds[s] = NoCmd
          /\ cmds' = [cmds EXCEPT ![s] = [NoCmd EXCEPT !.op = "payload_verify",
                                            !.pc = "check", !.version = host[h].version]]
          /\ host' = [host EXCEPT ![h] = [[host[h] EXCEPT !.pc = "wait"] EXCEPT !.slot = s]]
    BY DEF Verify, Launch
  <1>4. PICK c \in Cmds : c = [NoCmd EXCEPT !.op = "payload_verify", !.pc = "check",
                                              !.version = host[h].version]
    BY <1>2, Constants DEF Cmds, Ops, Points
  <1>5. c.op = "payload_verify" /\ c.pc = "check" /\ c.version \in Versions
    BY <1>2, <1>4 DEF NoCmd
  <1>6. PICK n \in HostStates : n = [[host[h] EXCEPT !.pc = "wait"] EXCEPT !.slot = s]
    BY <1>1 DEF HostStates
  <1>7. n.pc = "wait" /\ n.slot = s /\ n.version \in Versions
    BY <1>1, <1>2, <1>6 DEF HostStates
  <1>8. UNCHANGED <<files, marker, proc, births, stray, overlapped>> /\ overlapped' \in BOOLEAN
    BY <1>1 DEF Verify, TypeOK
  <1>9. CommandPoint(c)'
    BY <1>5 DEF CommandPoint, StopPoint, StartPoint, UploadPoint
  <1>10. host[h] # AtRest
    BY <1>2 DEF AtRest
  <1>11. ~overlapped' => /\ ~overlapped
                         /\ \A t \in Slots : cmds[t].op = "none"
                         /\ \A g \in Hosts : g # h => host[g] = AtRest
    BY <1>1, <1>2, <1>8, <1>10, Constants DEF OneActive
  <1>12. cmds' = [cmds EXCEPT ![s] = c] /\ host' = [host EXCEPT ![h] = n]
    BY <1>3, <1>4, <1>6
  <1>13. QED  BY <1>3, <1>5, <1>7, <1>8, <1>9, <1>11, <1>12, LaunchStep

\* A file is put in place, or the host gives up.
LEMMA PutAbandonStep ==
    ASSUME IInv, NEW h \in Hosts, Put(h) \/ Abandon(h)
    PROVE  IInv'
  <1>1. /\ TypeOK /\ Numbered /\ FilesPoint /\ OneActive /\ SerialPoint /\ AloneWhole
        /\ \A t \in Slots : CommandPoint(cmds[t])
        /\ \A g \in Hosts : HostPoint(g)
        /\ host[h] \in HostStates
    BY DEF IInv, TypeOK
  <1>2. UNCHANGED <<pending, receipt, marker, proc, cmds, births, overlapped, stray>>
    BY DEF Put, Abandon, files
  <1>3. /\ Numbered' /\ AloneWhole' /\ (PidFd => KillsOnlyOwned)'
        /\ \A t \in Slots : CommandPoint(cmds[t])'
    BY <1>2 DEF IInv, Numbered, AloneWhole, RunsWhole, KillsOnlyOwned, CommandPoint,
                StopPoint, StartPoint, UploadPoint, Running, Payload
  <1>4. \A p \in Pids : Known(p) => Known(p)'
    BY <1>2 DEF Known, Id
  <1>5. CASE Put(h)
    <2>1. PICK f \in host[h].left, v \in Versions :
            /\ content' = [content EXCEPT ![f] = v]
            /\ host' = [host EXCEPT ![h].left = @ \ {f}]
      BY <1>5 DEF Put
    <2>2. host[h].pc = "put" /\ host[h].slot = None /\ (pending \/ receipt # None)
      BY <1>1, <1>5 DEF Put, HostPoint
    <2>3. content' \in Contents
      BY <1>1, <2>1 DEF TypeOK, Contents
    <2>4. /\ host' \in [Hosts -> HostStates]
          /\ \A g \in Hosts : /\ host'[g].pc = host[g].pc /\ host'[g].slot = host[g].slot
                              /\ host'[g].version = host[g].version
                              /\ host'[g] # AtRest => host[g] # AtRest
      <3>1. [host[h] EXCEPT !.left = @ \ {f}] \in HostStates
        BY <1>1 DEF HostStates
      <3>2. host' = [host EXCEPT ![h] = [host[h] EXCEPT !.left = @ \ {f}]]
        BY <1>1, <2>1 DEF TypeOK
      <3>3. host' \in [Hosts -> HostStates]
        BY <1>1, <3>1, <3>2 DEF TypeOK
      <3>4. ASSUME NEW g \in Hosts
            PROVE  /\ host'[g].pc = host[g].pc /\ host'[g].slot = host[g].slot
                   /\ host'[g].version = host[g].version
                   /\ host'[g] # AtRest => host[g] # AtRest
        <4>1. CASE g = h
          BY <1>1, <2>2, <3>2, <4>1 DEF TypeOK, HostStates, AtRest
        <4>2. CASE g # h
          BY <1>1, <3>2, <4>2 DEF TypeOK
        <4>3. QED  BY <4>1, <4>2
      <3>5. QED  BY <3>3, <3>4
    <2>5. TypeOK'
      BY <1>1, <1>2, <2>3, <2>4 DEF TypeOK
    <2>6. \A g \in Hosts : HostPoint(g)'
      BY <1>1, <1>2, <2>4 DEF HostPoint
    <2>7. FilesPoint'
      BY <1>2, <2>2 DEF FilesPoint
    <2>8. OneActive'
      BY <1>1, <1>2, <2>4 DEF OneActive
    <2>9. SerialPoint'
      <3> SUFFICES ASSUME ~overlapped
                   PROVE  Running' = {} /\ \A t \in Slots : cmds[t].op = "none"
        BY <1>2 DEF SerialPoint
      <3>1. Running' = {}
        BY <1>1, <1>2, <2>2 DEF SerialPoint, Running
      <3>2. \A t \in Slots : cmds[t].op = "none"
        BY <1>1, <2>2, Constants DEF OneActive
      <3>3. QED  BY <3>1, <3>2
    <2>10. QED  BY <1>3, <2>5, <2>6, <2>7, <2>8, <2>9 DEF IInv
  <1>6. CASE Abandon(h)
    <2>1. /\ host' \in [Hosts -> HostStates] /\ content' = content
          /\ \A g \in Hosts : host'[g] = host[g] \/ host'[g] = AtRest
      BY <1>1, <1>6, Constants DEF Abandon, TypeOK, files
    <2>2. TypeOK'
      BY <1>1, <1>2, <2>1 DEF TypeOK
    <2>3. \A g \in Hosts : HostPoint(g)'
      BY <1>1, <1>2, <2>1, Constants DEF HostPoint
    <2>4. FilesPoint' /\ OneActive'
      BY <1>1, <1>2, <2>1 DEF FilesPoint, OneActive
    <2>5. SerialPoint'
      <3>1. Running' = Running /\ Running \subseteq Pids /\ \A p \in Pids : Id(p)' = Id(p)
        BY <1>2 DEF Running, Id
      <3>2. \A g \in Hosts : host'[g].pc = "put" => host[g].pc = "put"
        BY <2>1, Constants
      <3>3. QED  BY <1>1, <1>2, <1>4, <2>1, <3>1, <3>2 DEF SerialPoint
    <2>6. QED  BY <1>3, <2>2, <2>3, <2>4, <2>5 DEF IInv
  <1>7. QED  BY <1>5, <1>6

-----------------------------------------------------------------------------
(* The theorems.                                                           *)

LEMMA InitIInv == Init => IInv
  <1> SUFFICES ASSUME Init PROVE IInv
    OBVIOUS
  <1>1. Running = {}
    BY DEF Init, Running, Free
  <1>2. TypeOK
    BY Constants DEF Init, TypeOK
  <1>3. Numbered /\ FilesPoint /\ AloneWhole /\ KillsOnlyOwned
    BY <1>1 DEF Init, Numbered, FilesPoint, AloneWhole, RunsWhole, KillsOnlyOwned, Free, NoId
  <1>4. \A s \in Slots : CommandPoint(cmds[s])
    BY Constants DEF Init, CommandPoint, StopPoint, StartPoint, UploadPoint
  <1>5. (\A h \in Hosts : HostPoint(h)) /\ OneActive /\ SerialPoint
    BY <1>1, Constants DEF Init, HostPoint, OneActive, SerialPoint
  <1>6. QED  BY <1>2, <1>3, <1>4, <1>5 DEF IInv

LEMMA NextIInv == IInv /\ [Next]_vars => IInv'
  <1> SUFFICES ASSUME IInv, [Next]_vars PROVE IInv'
    OBVIOUS
  <1>1. ASSUME NEW h \in Hosts, HostStep(h) PROVE IInv'
    <2>1. CASE \E v \in Versions : Deploy(h, v)
      BY <2>1, BeginStep DEF Deploy
    <2>2. CASE Start(h) \/ Stop(h)
      BY <2>2, BeginStep DEF Start, Stop
    <2>3. CASE Verify(h)
      BY <2>3, VerifyStep
    <2>4. CASE Put(h) \/ Abandon(h)
      BY <2>4, PutAbandonStep
    <2>5. QED  BY <1>1, <2>1, <2>2, <2>3, <2>4 DEF HostStep
  <1>2. ASSUME NEW s \in Slots, CommandStep(s) PROVE IInv'
    BY <1>2, UploadSteps, StartCheckStep, SpawnStep, WriteMarkerStep, StopSteps, SignalStep
       DEF CommandStep
  <1>3. ASSUME NEW p \in Pids, Exit(p) \/ OtherProcess(p) PROVE IInv'
    BY <1>3, ProcessSteps
  <1>4. CASE Reboot
    BY <1>4, RebootStep
  <1>5. CASE UNCHANGED vars
    <2>1. \A p \in Pids : Known(p)' = Known(p) /\ Id(p)' = Id(p)
      BY <1>5 DEF vars, Known, Id
    <2>2. Running' = Running /\ Running \subseteq Pids
      BY <1>5 DEF vars, Running
    <2>3. TypeOK' /\ Numbered' /\ FilesPoint' /\ AloneWhole' /\ (PidFd => KillsOnlyOwned)'
      BY <1>5, <2>2 DEF vars, IInv, TypeOK, Numbered, FilesPoint, AloneWhole, RunsWhole,
                        KillsOnlyOwned, Payload
    <2>4. \A s \in Slots : CommandPoint(cmds[s])'
      BY <1>5 DEF vars, IInv, CommandPoint, StopPoint, StartPoint, UploadPoint, Payload
    <2>5. (\A h \in Hosts : HostPoint(h)') /\ OneActive'
      BY <1>5 DEF vars, IInv, HostPoint, OneActive
    <2>6. SerialPoint'
      BY <1>5, <2>1, <2>2 DEF vars, IInv, SerialPoint
    <2>7. QED  BY <2>3, <2>4, <2>5, <2>6 DEF IInv
  <1>6. QED  BY <1>1, <1>2, <1>3, <1>4, <1>5 DEF Next

\* The invariant holds of every behaviour.
LEMMA Invariance == Spec => []IInv
  BY InitIInv, NextIInv, PTL DEF Spec

\* Every variable of the deployment keeps its type.
THEOREM DeploymentTypes == Spec => []TypeOK
  <1>1. IInv => TypeOK
    BY DEF IInv
  <1>2. QED  BY <1>1, Invariance, PTL

\* On a target with pidfd_open, a signal of stop reaches the process whose
\* identity was read for it, or none, for every number of hosts, commands and
\* process numbers (ssh_deployment.py, the remote helper's stop).
THEOREM StopKillsOwned ==
    ASSUME PidFd
    PROVE  Spec => []KillsOnlyOwned
  <1>1. IInv => KillsOnlyOwned
    BY DEF IInv
  <1>2. QED  BY <1>1, Invariance, PTL

\* Every start has checked one whole payload, for every number of hosts,
\* commands, files and payloads; while operations come one at a time the model
\* that runs was spawned from it, is the only one, keeps its files and can be
\* stopped (the checks of payload_begin, directory, payload_verify and start).
\* Between the check and the spawn an overlapping upload may change the files.
THEOREM StartIsWhole == Spec => []StartsOneWhole
  <1>1. IInv => StartsOneWhole
    <2> SUFFICES ASSUME IInv PROVE CheckedWhole /\ SerialSafe
      BY DEF StartsOneWhole
    <2>1. CheckedWhole
      BY DEF IInv, CheckedWhole, At, CommandPoint, StartPoint
    <2>2. ASSUME ~overlapped PROVE Cardinality(Running) <= 1
      <3>1. \A p, q \in Running : p = q
        BY <2>2 DEF IInv, SerialPoint
      <3>2. CASE Running = {}
        BY <3>2, FS_EmptySet
      <3>3. CASE Running # {}
        <4>1. PICK p \in Running : Running = {p}
          BY <3>1, <3>3
        <4>2. Cardinality(Running) = 1
          BY <4>1, FS_Singleton
        <4>3. QED  BY <4>2
      <3>4. QED  BY <3>2, <3>3
    <2>3. ~overlapped =>
            \A p \in Running : content = proc[p].ran /\ Known(p)
      BY DEF IInv, SerialPoint
    <2>4. ~overlapped => RunsWhole
      BY DEF IInv, AloneWhole
    <2>5. SerialSafe
      BY <2>2, <2>3, <2>4 DEF SerialSafe, Known
    <2>6. QED  BY <2>1, <2>5
  <1>2. QED  BY <1>1, Invariance, PTL

=============================================================================
