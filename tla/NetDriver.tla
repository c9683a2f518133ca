------------------------------ MODULE NetDriver ------------------------------
(***************************************************************************)
(* One channel of the TCP and UDP driver, simrt_network.c: the worker that *)
(* opens, accepts, connects, sends and receives, the step calls that only  *)
(* touch the queues under queue_lock, and setup and release.               *)
(*                                                                         *)
(* A message is MessageSize units and the number of the connection during  *)
(* which it was queued; received data is the connection and the range of   *)
(* its units.  A UDP socket counts as a connection.                        *)
(***************************************************************************)
EXTENDS Naturals, Sequences

CONSTANTS
    Kinds,        \* "tcp server", "tcp client", "udp": what setup may ask for
    Capacity,     \* QUEUE_CAPACITY
    MessageSize,  \* units of a message
    MaxTokens,    \* bound: setups
    MaxConns,     \* bound: connections
    MaxUnits      \* bound: units received on a connection

NetAssumption ==
    /\ Kinds \subseteq {"tcp server", "tcp client", "udp"}
    /\ Capacity \in Nat \ {0} /\ MessageSize \in Nat \ {0}
    /\ MaxTokens \in Nat /\ MaxConns \in Nat /\ MaxUnits \in Nat

VARIABLES
    token,        \* owner of the endpoint, 0 for none
    nextToken,    \* next_token
    kind,         \* protocol and server
    stop, status, error,
    tx, rx,       \* queues
    worker,       \* step, socket (connection number or 0), listener,
                  \* connecting, packet being sent and its offset
    caller,       \* "rest", or "join" within simrt_net_release
    conns,        \* connections so far
    taken,        \* units received from the current connection
    line,         \* ghost: connection and units of a message last on the wire
    got           \* ghost: connection and last unit the application has read

vars == <<token, nextToken, kind, stop, status, error, tx, rx, worker, caller,
          conns, taken, line, got>>
endpoint == <<token, nextToken, kind, stop, caller>>
ghosts == <<line, got>>

NoPacket == [conn |-> 0]
Idle == [pc |-> "ended", fd |-> 0, listener |-> FALSE, connecting |-> FALSE,
         out |-> NoPacket, offset |-> 0]

Init ==
    /\ token = 0 /\ nextToken = 0 /\ kind = "udp"
    /\ stop = FALSE /\ status = "unconfigured" /\ error = "none"
    /\ tx = <<>> /\ rx = <<>>
    /\ worker = Idle /\ caller = "rest"
    /\ conns = 0 /\ taken = 0
    /\ line = [conn |-> 0, units |-> 0] /\ got = [conn |-> 0, unit |-> 0]

Tcp == kind # "udp"
SmallerOf(a, b) == IF a < b THEN a ELSE b

-----------------------------------------------------------------------------
(* Setup, release and the step calls.                                      *)

\* simrt_net_configure: the worker starts, or its thread cannot be created.
Configure ==
    /\ token = 0 /\ caller = "rest" /\ nextToken < MaxTokens
    /\ nextToken' = nextToken + 1
    /\ kind' \in Kinds
    /\ stop' = FALSE /\ error' = "none" /\ tx' = <<>> /\ rx' = <<>>
    /\ \/ /\ token' = nextToken + 1 /\ status' = "pending"
          /\ worker' = [Idle EXCEPT !.pc = "top"]
       \/ /\ token' = 0 /\ status' = "thread"
          /\ UNCHANGED worker
    /\ UNCHANGED <<caller, conns, taken, ghosts>>

Release ==
    /\ token # 0 /\ caller = "rest"
    /\ caller' = "join" /\ stop' = TRUE
    /\ UNCHANGED <<token, nextToken, kind, status, error, tx, rx, worker, conns, taken, ghosts>>

Join ==
    /\ caller = "join" /\ worker.pc = "ended"
    /\ caller' = "rest" /\ token' = 0 /\ stop' = FALSE
    /\ status' = "unconfigured" /\ error' = "none"
    /\ tx' = <<>> /\ rx' = <<>>
    /\ UNCHANGED <<nextToken, kind, worker, conns, taken, ghosts>>

Send ==
    /\ token # 0 /\ status = "ok" /\ Len(tx) < Capacity
    /\ tx' = Append(tx, [conn |-> conns])
    /\ UNCHANGED <<endpoint, status, error, rx, worker, conns, taken, ghosts>>

\* simrt_net_receive with room for n units: a pending error is reported once,
\* and data with it.  The rest of a TCP chunk stays; that of a datagram is cut.
Receive(n) ==
    /\ token # 0
    /\ error' = "none"
    /\ IF rx = <<>> THEN UNCHANGED <<rx, got>>
       ELSE LET p == Head(rx) IN
            IF Tcp /\ p.last - p.first + 1 > n
              THEN /\ rx' = <<[p EXCEPT !.first = @ + n]>> \o Tail(rx)
                   /\ got' = [conn |-> p.conn, unit |-> p.first + n - 1]
              ELSE rx' = Tail(rx) /\ got' = [conn |-> p.conn, unit |-> p.last]
    /\ UNCHANGED <<endpoint, status, tx, worker, conns, taken, line>>

-----------------------------------------------------------------------------
(* worker_main.                                                            *)

To(pc) == [worker EXCEPT !.pc = pc]

\* Mutant: the end of the wait before a retry does not look at stop.
MutantRetryForever ==
    /\ worker.pc \in {"top", "retry"}
    /\ worker' = IF worker.pc = "retry" THEN worker
                 ELSE IF stop THEN Idle
                 ELSE To(IF worker.fd = 0 \/ worker.connecting THEN "open" ELSE "transmit")
    /\ UNCHANGED <<endpoint, status, error, tx, rx, conns, taken, ghosts>>

\* Every round looks at stop, also while the worker waits to retry.
WorkerTop ==
    /\ worker.pc \in {"top", "retry"}
    /\ worker' = IF stop THEN Idle
                 ELSE IF worker.pc = "retry" THEN To("top")
                 ELSE To(IF worker.fd = 0 \/ worker.connecting THEN "open" ELSE "transmit")
    /\ UNCHANGED <<endpoint, status, error, tx, rx, conns, taken, ghosts>>

\* A connection is there: accepted, connected or, for UDP, a bound socket.
Connected(changed) ==
    /\ conns < MaxConns
    /\ conns' = conns + 1 /\ taken' = 0
    /\ worker' = [changed EXCEPT !.fd = conns + 1, !.connecting = FALSE, !.pc = "transmit"]
    /\ status' = "ok"

Waits(changed, st) ==
    /\ worker' = changed /\ status' = st /\ UNCHANGED <<conns, taken>>

\* open_socket, bind, listen and accept.
OpenServer ==
    /\ worker.pc = "open" /\ kind = "tcp server"
    /\ \/ ~worker.listener /\ \E st \in {"socket", "bind"} : Waits(To("retry"), st)
       \/ Waits([To("top") EXCEPT !.listener = TRUE],
                IF worker.listener THEN status ELSE "pending")
       \/ Connected([worker EXCEPT !.listener = TRUE])
    /\ UNCHANGED <<endpoint, error, tx, rx, ghosts>>

OpenUdp ==
    /\ worker.pc = "open" /\ kind = "udp"
    /\ \/ \E st \in {"socket", "bind"} : Waits(To("retry"), st)
       \/ Connected(worker)
    /\ UNCHANGED <<endpoint, error, tx, rx, ghosts>>

\* connect, at once or in progress; refused or given up after a time.
OpenClient ==
    /\ worker.pc = "open" /\ kind = "tcp client"
    /\ \/ \E st \in {"socket", "bind", "connect"} :
              Waits([To("retry") EXCEPT !.connecting = FALSE], st)
       \/ Waits([To("top") EXCEPT !.connecting = TRUE], "pending")
       \/ Connected(worker)
    /\ UNCHANGED <<endpoint, error, tx, rx, ghosts>>

\* The socket is closed and the packet being sent forgotten.
Lost == worker' = [worker EXCEPT !.pc = "reset", !.fd = 0, !.out = NoPacket, !.offset = 0]

\* transmit: the next packet is taken when none is under way; TCP may send a
\* part of it, or nothing.
Sent(packet, offset, count) ==
    /\ line' = [conn |-> worker.fd,
                units |-> ((IF line.conn = worker.fd THEN line.units ELSE 0) + count)
                          % MessageSize]
    /\ worker' = IF offset + count = MessageSize
         THEN [To("receive") EXCEPT !.out = NoPacket, !.offset = 0]
         ELSE [To("receive") EXCEPT !.out = packet, !.offset = offset + count]

Transmit ==
    /\ worker.pc = "transmit"
    /\ IF worker.out = NoPacket /\ tx = <<>>
         THEN worker' = To("receive") /\ UNCHANGED <<tx, line>>
         ELSE LET fresh == worker.out = NoPacket
                  packet == IF fresh THEN Head(tx) ELSE worker.out
                  offset == IF fresh THEN 0 ELSE worker.offset
              IN /\ tx' = IF fresh THEN Tail(tx) ELSE tx
                 /\ \/ /\ worker' = [To("receive") EXCEPT !.out = packet, !.offset = offset]
                       /\ UNCHANGED line
                    \/ \E count \in 1..(MessageSize - offset) :
                           /\ Tcp \/ count = MessageSize
                           /\ Sent(packet, offset, count)
                    \/ Lost /\ UNCHANGED line
    /\ UNCHANGED <<endpoint, status, error, rx, conns, taken, got>>

\* Mutant: a chunk is read from a TCP connection also when there is no room.
MutantNoBackpressure ==
    /\ worker.pc = "receive"
    /\ \/ worker' = To("top") /\ UNCHANGED <<error, rx, taken>>
       \/ \E n \in 1..2 :
             /\ taken + n <= MaxUnits
             /\ taken' = taken + n
             /\ IF Len(rx) = Capacity THEN error' = "full" /\ UNCHANGED rx
                ELSE /\ rx' = Append(rx, [conn |-> worker.fd, first |-> taken + 1,
                                         last |-> taken + n])
                     /\ UNCHANGED error
             /\ UNCHANGED worker
    /\ UNCHANGED <<endpoint, status, tx, conns, ghosts>>

\* receive_packets, one packet of the batch: nothing to read ends the batch;
\* a full queue leaves TCP data with the kernel and drops a datagram; a
\* datagram that is too long is dropped.
ReceivePacket ==
    /\ worker.pc = "receive"
    /\ \/ worker' = To("top") /\ UNCHANGED <<error, rx, taken>>
       \/ \E n \in 1..2 :
             /\ ~(Tcp /\ Len(rx) = Capacity) /\ taken + n <= MaxUnits
             /\ taken' = taken + n
             /\ IF Len(rx) = Capacity THEN error' = "full" /\ UNCHANGED rx
                ELSE \/ /\ rx' = Append(rx, [conn |-> worker.fd, first |-> taken + 1,
                                             last |-> taken + n])
                        /\ UNCHANGED error
                     \/ ~Tcp /\ error' = "truncated" /\ UNCHANGED rx
             /\ UNCHANGED worker
       \/ Lost /\ ~(Tcp /\ Len(rx) = Capacity) /\ UNCHANGED <<error, rx, taken>>
    /\ UNCHANGED <<endpoint, status, tx, conns, ghosts>>

\* Mutant: what was queued for the lost connection waits for the next.
MutantKeepQueue ==
    /\ worker.pc = "reset"
    /\ status' = "pending" /\ error' = "io"
    /\ worker' = To("retry")
    /\ UNCHANGED <<endpoint, tx, rx, conns, taken, ghosts>>

\* reset_connection under queue_lock: received data stays.
Reset ==
    /\ worker.pc = "reset"
    /\ tx' = <<>> /\ status' = "pending" /\ error' = "io"
    /\ worker' = To("retry")
    /\ UNCHANGED <<endpoint, rx, conns, taken, ghosts>>

WorkerStep ==
    \/ WorkerTop \/ OpenServer \/ OpenUdp \/ OpenClient \/ Transmit
    \/ ReceivePacket \/ Reset

Next ==
    \/ Configure \/ Release \/ Join \/ Send \/ (\E n \in 1..2 : Receive(n))
    \/ WorkerStep

Spec == Init /\ [][Next]_vars

-----------------------------------------------------------------------------
(* Properties.                                                             *)

\* What is sent on a connection was queued while it was up, and every message
\* from its start: the rest of one that was cut off by a loss is never sent
\* on the next connection.
MessagesWhole ==
    /\ worker.out # NoPacket =>
        /\ worker.out.conn = worker.fd
        /\ worker.offset = IF line.conn = worker.fd THEN line.units ELSE 0
    /\ worker.fd # 0 /\ ~worker.connecting =>
        \A i \in 1..Len(tx) : tx[i].conn = worker.fd

\* The units of a TCP connection reach the application in order and without
\* a gap: each chunk of the queue follows the one before it, the first what
\* was read last, and the last is the last unit received.
StreamIntact ==
    Tcp =>
        /\ \A i \in 1..Len(rx) :
            LET before == IF i = 1 THEN got ELSE [conn |-> rx[i-1].conn, unit |-> rx[i-1].last]
            IN IF rx[i].conn = before.conn THEN rx[i].first = before.unit + 1
                                           ELSE rx[i].first = 1 /\ rx[i].conn > before.conn
        /\ rx # <<>> /\ rx[Len(rx)].conn = conns => rx[Len(rx)].last = taken

\* A release returns: the worker sees stop wherever it is.
ReleaseReturns == caller = "join" ~> caller = "rest"

=============================================================================
