------------------------ MODULE HostControllerProofs ------------------------
(***************************************************************************)
(* Safety of the host controller for every number of jobs and answers that *)
(* are pending at once.                                                    *)
(*                                                                         *)
(* Most steps do the same to the queues: a handler takes the first answer  *)
(* or none, and submits at most a stop and one more job (Grown, Taken).    *)
(* What they preserve is proved once for all of them.                      *)
(***************************************************************************)
EXTENDS HostController, SequenceTheorems, TLAPS

\* Jobs whose answer tells the controller whether there is a connection.
Resolvers == {"load", "connect"} \cup Disconnects
Answers == [job: Jobs, ok: BOOLEAN]

\* One of these jobs is submitted or answered and not yet handled.
Awaited(S) ==
    \/ \E i \in 1..Len(jobs) : jobs[i] \in S
    \/ \E k \in 1..Len(answers) : answers[k].job \in S

\* The types of the queues, and what TypeOK says of the stream.
HostTyped ==
    /\ jobs \in Seq(Jobs) /\ answers \in Seq(Answers)
    /\ running \in {"no", "begun", "down"} /\ (running # "no" => jobs # <<>>)
    /\ streaming => connected

\* Only a job that ends the connection first stops the stream.
StreamPoint == running = "down" => ~streaming /\ jobs[1] \in Resolvers

\* The cleanup is the last job there is, and its answer the last answer.
CloseInv ==
    /\ \A i \in 1..Len(jobs) : jobs[i] = "cleanup" => i = Len(jobs) /\ closing /\ ~closed
    /\ \A k \in 1..Len(answers) :
           answers[k].job = "cleanup" =>
               /\ k = Len(answers) /\ jobs = <<>> /\ closing /\ ~closed
               /\ answers[k].ok => ~connected
    /\ closed => closing /\ ~connected /\ jobs = <<>> /\ answers = <<>>

\* A stop of a model is in one place: a job, an answer, a dialog or the wait
\* for the target workspace; no connect follows its job.
GuardInv ==
    /\ \A i \in 1..Len(jobs) :
           jobs[i] = "guard" =>
               /\ remoteStop /\ ~waitStop /\ modal # "guard"
               /\ \A k \in 1..Len(answers) : answers[k].job # "guard"
               /\ \A j \in 1..Len(jobs) : jobs[j] = "guard" => j = i
               /\ \A j \in 1..Len(jobs) : j > i => jobs[j] # "connect"
    /\ \A k \in 1..Len(answers) :
           answers[k].job = "guard" =>
               /\ remoteStop /\ ~waitStop /\ modal # "guard"
               /\ \A j \in 1..Len(answers) : answers[j].job = "guard" => j = k
               /\ answers[k].ok => ~connected /\ \A i \in 1..Len(jobs) : jobs[i] # "connect"
    /\ modal = "guard" => remoteStop /\ ~waitStop
    /\ waitStop => remoteStop /\ ~connected /\ \A i \in 1..Len(jobs) : jobs[i] # "connect"

\* The last answer about the connection tells the truth about it.
WordInv ==
    \A k \in 1..Len(answers) :
        answers[k].ok /\ (\A j \in 1..Len(answers) : j > k => answers[j].job \notin Resolvers) =>
            /\ answers[k].job \in {"connect", "start"} => connected
            /\ answers[k].job \in {"load"} \cup Disconnects => ~connected

\* With no such answer to come the state agrees with the session, unless a
\* start or a stop of the stream has still to be answered.
Agrees == state \in {"CONNECTED", "ACQUIRING"} <=> connected
ShownInv ==
    ~closing /\ ~remoteStop /\ ~Awaited(Resolvers) =>
        \/ Agrees
        \/ state = "CONNECTING" /\ (Awaited({"stopSettle"}) \/ (current /\ Awaited({"start"})))

HostInv == HostTyped /\ StreamPoint /\ CloseInv /\ GuardInv /\ WordInv /\ ShownInv

-----------------------------------------------------------------------------
(* What happens to the queues.                                             *)

\* At most some stops and x, which is last unless it is a stop, are submitted,
\* and nothing once the window is closing.
Grown(x) ==
    /\ jobs' \in Seq(Jobs) /\ Len(jobs) <= Len(jobs')
    /\ \A i \in 1..Len(jobs) : jobs'[i] = jobs[i]
    /\ \A i \in 1..Len(jobs') :
           i > Len(jobs) => /\ jobs'[i] \in {"stop", x}
                            /\ jobs'[i] = x /\ x \notin Stops => i = Len(jobs')
    /\ closing \/ closed => jobs' = jobs

\* The first d answers are taken.
Taken(d) ==
    /\ answers' \in Seq(Answers) /\ Len(answers') = Len(answers) - d
    /\ \A k \in 1..Len(answers') : answers'[k] = answers[k + d]

LEMMA QueueFacts ==
    ASSUME HostTyped
    PROVE  /\ Len(jobs) \in Nat /\ \A i \in 1..Len(jobs) : jobs[i] \in Jobs
           /\ Len(answers) \in Nat /\ \A k \in 1..Len(answers) : answers[k] \in Answers
           /\ jobs # <<>> => Len(jobs) > 0 /\ Head(jobs) = jobs[1]
           /\ answers # <<>> => Len(answers) > 0 /\ Head(answers) = answers[1]
           /\ \A x : x \in Range(jobs) <=> \E i \in 1..Len(jobs) : jobs[i] = x
  <1>1. jobs \in Seq(Jobs) /\ answers \in Seq(Answers)
    BY DEF HostTyped
  <1>2. \A x : x \in Range(jobs) <=> \E i \in 1..Len(jobs) : jobs[i] = x
    <2>1. DOMAIN jobs = 1..Len(jobs)
      BY <1>1, LenProperties
    <2>2. QED  BY <2>1 DEF Range
  <1>3. /\ Len(jobs) \in Nat /\ \A i \in 1..Len(jobs) : jobs[i] \in Jobs
        /\ Len(answers) \in Nat /\ \A k \in 1..Len(answers) : answers[k] \in Answers
    BY <1>1, LenProperties, ElementOfSeq
  <1>4. /\ jobs # <<>> => Len(jobs) > 0 /\ Head(jobs) = jobs[1]
        /\ answers # <<>> => Len(answers) > 0 /\ Head(answers) = answers[1]
    BY <1>1, <1>3, EmptySeq
  <1>5. QED  BY <1>2, <1>3, <1>4

\* Nothing is submitted, something may be, or x is after the stop of a stream.
LEMMA NothingGrown ==
    ASSUME HostTyped, UNCHANGED jobs, NEW x
    PROVE  Grown(x)
  BY QueueFacts DEF HostTyped, Grown

LEMMA Appended ==
    ASSUME NEW queue \in Seq(Jobs), NEW x \in Jobs, NEW longer, longer = Append(queue, x)
    PROVE  /\ longer \in Seq(Jobs) /\ Len(longer) = Len(queue) + 1 /\ Len(queue) \in Nat
           /\ \A i \in 1..Len(queue) : longer[i] = queue[i]
           /\ longer[Len(queue) + 1] = x
  BY AppendProperties, LenProperties

LEMMA AppendedTwice ==
    ASSUME NEW queue \in Seq(Jobs), NEW x \in Jobs, NEW y \in Jobs, NEW longer,
           \E s : s = Append(queue, y) /\ longer = Append(s, x)
    PROVE  /\ Len(queue) \in Nat /\ Len(longer) = Len(queue) + 2 /\ longer \in Seq(Jobs)
           /\ \A i \in 1..Len(queue) : longer[i] = queue[i]
           /\ longer[Len(queue) + 1] = y /\ longer[Len(queue) + 2] = x
  <1>1. PICK s : s = Append(queue, y) /\ longer = Append(s, x)
    OBVIOUS
  <1>2. /\ s \in Seq(Jobs) /\ Len(s) = Len(queue) + 1 /\ Len(queue) \in Nat
        /\ \A i \in 1..Len(queue) : s[i] = queue[i]
        /\ s[Len(queue) + 1] = y
    BY <1>1, Appended
  <1>3. /\ longer \in Seq(Jobs) /\ Len(longer) = Len(s) + 1
        /\ \A i \in 1..Len(s) : longer[i] = s[i]
        /\ longer[Len(s) + 1] = x
    <2>1. s \in Seq(Jobs) /\ longer = Append(s, x)
      BY <1>1, <1>2
    <2>2. QED  BY <2>1, Appended
  <1>4. QED  BY <1>2, <1>3

LEMMA SubmittedGrown ==
    ASSUME HostTyped, NEW x \in Jobs, jobs' = Submitted(jobs, x)
    PROVE  /\ Grown(x)
           /\ ~closing /\ ~closed => Len(jobs') = Len(jobs) + 1 /\ jobs'[Len(jobs')] = x
  <1>1. CASE closing \/ closed
    BY <1>1, NothingGrown DEF Submitted
  <1>2. CASE ~(closing \/ closed)
    <2>1. jobs' = Append(jobs, x)
      BY <1>2 DEF Submitted
    <2>2. /\ jobs' \in Seq(Jobs) /\ Len(jobs') = Len(jobs) + 1 /\ Len(jobs) \in Nat
          /\ \A i \in 1..Len(jobs) : jobs'[i] = jobs[i]
          /\ jobs'[Len(jobs) + 1] = x
      BY <2>1, Appended DEF HostTyped
    <2>3. QED  BY <1>2, <2>2 DEF Grown
  <1>3. QED  BY <1>1, <1>2

LEMMA AppendGrown ==
    ASSUME HostTyped, NEW x \in Jobs, jobs' = Append(jobs, x), ~closing, ~closed
    PROVE  Grown(x) /\ Len(jobs') = Len(jobs) + 1 /\ jobs'[Len(jobs')] = x
  BY SubmittedGrown DEF Submitted

LEMMA StopGrown ==
    ASSUME HostTyped, NEW x \in Stops, jobs' = StopSubmitted(x)
    PROVE  Grown(x) /\ (WasDaq /\ ~closing /\ ~closed =>
                            Len(jobs') = Len(jobs) + 1 /\ jobs'[Len(jobs')] = x)
  <1>1. x \in Jobs
    BY DEF Jobs
  <1>2. QED  BY <1>1, SubmittedGrown, NothingGrown DEF StopSubmitted

LEMMA TwiceGrown ==
    ASSUME HostTyped, NEW x \in Jobs, ~closing, ~closed,
           \E s : s = Append(jobs, "stop") /\ jobs' = Append(s, x)
    PROVE  Grown(x) /\ Len(jobs') > Len(jobs) /\ jobs'[Len(jobs')] = x
  <1>1. /\ Len(jobs) \in Nat /\ Len(jobs') = Len(jobs) + 2 /\ jobs' \in Seq(Jobs)
        /\ \A i \in 1..Len(jobs) : jobs'[i] = jobs[i]
        /\ jobs'[Len(jobs) + 1] = "stop" /\ jobs'[Len(jobs) + 2] = x
    <2>1. "stop" \in Jobs /\ jobs \in Seq(Jobs)
      BY DEF Jobs, Stops, HostTyped
    <2>2. QED  BY <2>1, AppendedTwice
  <1>2. \A i \in 1..Len(jobs') :
            i > Len(jobs) => /\ jobs'[i] \in {"stop", x}
                             /\ jobs'[i] = x /\ x \notin Stops => i = Len(jobs')
    <2>1. TAKE i \in 1..Len(jobs')
    <2>2. CASE i = Len(jobs) + 1
      BY <2>2, <1>1 DEF Stops
    <2>3. CASE i = Len(jobs) + 2
      BY <2>3, <1>1
    <2>4. QED  BY <1>1, <2>2, <2>3
  <1>3. QED  BY <1>1, <1>2 DEF Grown

LEMMA StopThenGrown ==
    ASSUME HostTyped, NEW x \in Jobs, jobs' = Append(StopSubmitted("stop"), x), ~closing, ~closed
    PROVE  Grown(x) /\ Len(jobs') > Len(jobs) /\ jobs'[Len(jobs')] = x
  <1>1. CASE ~WasDaq
    BY <1>1, AppendGrown, QueueFacts DEF StopSubmitted
  <1>2. CASE WasDaq
    <2>1. \E s : s = Append(jobs, "stop") /\ jobs' = Append(s, x)
      BY <1>2 DEF StopSubmitted, Submitted
    <2>2. QED  BY <2>1, TwiceGrown
  <1>3. QED  BY <1>1, <1>2

\* An answer is handled, or none is.
LEMMA AnswerTaken ==
    ASSUME HostTyped, answers # <<>>, answers' = Tail(answers)
    PROVE  Taken(1)
  BY HeadTailProperties, QueueFacts DEF HostTyped, Taken

LEMMA NothingTaken ==
    ASSUME HostTyped, UNCHANGED answers
    PROVE  Taken(0)
  BY QueueFacts DEF HostTyped, Taken
-----------------------------------------------------------------------------
(* What most handlers preserve.                                            *)

LEMMA HandlerTyped ==
    ASSUME HostTyped, StreamPoint, NEW x, Grown(x), NEW d \in 0..1, Taken(d),
           UNCHANGED <<running, connected, streaming>>
    PROVE  HostTyped' /\ StreamPoint'
  <1>1. running # "no" => jobs' # <<>> /\ jobs'[1] = jobs[1]
    <2>1. SUFFICES ASSUME running # "no"
                   PROVE  jobs' # <<>> /\ jobs'[1] = jobs[1]
      OBVIOUS
    <2>2. Len(jobs) > 0 /\ Len(jobs) \in Nat
      BY <2>1, QueueFacts DEF HostTyped
    <2>3. Len(jobs') > 0 /\ jobs'[1] = jobs[1] /\ jobs' \in Seq(Jobs)
      BY <2>2, LenProperties DEF Grown
    <2>4. QED  BY <2>3, EmptySeq
  <1>2. HostTyped'
    BY <1>1 DEF HostTyped, Grown, Taken, Answers, Jobs
  <1>3. StreamPoint'
    <2>1. SUFFICES ASSUME running' = "down"
                   PROVE  ~streaming' /\ jobs'[1] \in Resolvers
      BY DEF StreamPoint, Resolvers
    <2>2. running = "down"
      BY <2>1
    <2>3. QED  BY <2>2, <1>1 DEF StreamPoint
  <1>4. QED  BY <1>2, <1>3

LEMMA HandlerClose ==
    ASSUME HostTyped, CloseInv, NEW x, x # "cleanup", Grown(x), NEW d \in 0..1, Taken(d),
           UNCHANGED <<closing, closed, connected>>
    PROVE  CloseInv'
  <1>1. /\ Len(jobs) \in Nat /\ Len(answers) \in Nat
        /\ Len(jobs') \in Nat /\ Len(answers') \in Nat
    BY QueueFacts, LenProperties DEF Grown, Taken
  <1>2. ASSUME NEW i \in 1..Len(jobs'), jobs'[i] = "cleanup"
        PROVE  i = Len(jobs') /\ closing /\ ~closed
    <2>1. i \in 1..Len(jobs) /\ jobs[i] = "cleanup"
      BY <1>1, <1>2 DEF Grown
    <2>2. QED  BY <2>1 DEF CloseInv, Grown
  <1>3. ASSUME NEW k \in 1..Len(answers'), answers'[k].job = "cleanup"
        PROVE  /\ k = Len(answers') /\ jobs' = <<>> /\ closing /\ ~closed
               /\ answers'[k].ok => ~connected
    <2>1. k + d \in 1..Len(answers) /\ answers'[k] = answers[k + d] /\ Len(answers') = Len(answers) - d
      BY <1>1 DEF Taken
    <2>2. QED  BY <2>1, <1>1, <1>3 DEF CloseInv, Grown
  <1>4. ASSUME closed
        PROVE  closing /\ ~connected /\ jobs' = <<>> /\ answers' = <<>>
    <2>1. closing /\ ~connected /\ jobs = <<>> /\ answers = <<>>
      BY <1>4 DEF CloseInv
    <2>2. Len(answers') = 0
      BY <2>1, <1>1 DEF Taken
    <2>3. QED  BY <2>1, <2>2, <1>4, EmptySeq DEF Grown, Taken
  <1>5. QED  BY <1>2, <1>3, <1>4 DEF CloseInv

LEMMA HandlerWord ==
    ASSUME HostTyped, WordInv, NEW d \in 0..1, Taken(d), UNCHANGED connected
    PROVE  WordInv'
  <1>1. Len(answers) \in Nat /\ Len(answers') \in Nat /\ Len(answers') = Len(answers) - d
    BY QueueFacts, LenProperties DEF Taken
  <1>2. SUFFICES ASSUME NEW k \in 1..Len(answers'), answers'[k].ok,
                        \A j \in 1..Len(answers') : j > k => answers'[j].job \notin Resolvers
                 PROVE  /\ answers'[k].job \in {"connect", "start"} => connected'
                        /\ answers'[k].job \in {"load"} \cup Disconnects => ~connected'
    BY DEF WordInv, Resolvers, Disconnects
  <1>3. k + d \in 1..Len(answers) /\ answers'[k] = answers[k + d]
    BY <1>1 DEF Taken
  <1>4. ASSUME NEW j \in 1..Len(answers), j > k + d
        PROVE  answers[j].job \notin Resolvers
    <2>1. j - d \in 1..Len(answers') /\ j - d > k /\ (j - d) + d = j
      BY <1>1, <1>4
    <2>2. answers'[j - d] = answers[j]
      BY <2>1 DEF Taken
    <2>3. QED  BY <2>1, <2>2, <1>2
  <1>5. QED  BY <1>2, <1>3, <1>4 DEF WordInv

LEMMA HandlerGuard ==
    ASSUME HostTyped, GuardInv, NEW x, x # "guard", x = "connect" => ~remoteStop,
           Grown(x), NEW d \in 0..1, Taken(d),
           UNCHANGED <<remoteStop, waitStop, connected>>, modal' = modal \/ modal' # "guard"
    PROVE  GuardInv'
  <1>1. /\ Len(jobs) \in Nat /\ Len(answers) \in Nat
        /\ Len(jobs') \in Nat /\ Len(answers') \in Nat
        /\ Len(answers') = Len(answers) - d
    BY QueueFacts, LenProperties DEF Grown, Taken
  <1>2. ASSUME NEW k \in 1..Len(answers')
        PROVE  k + d \in 1..Len(answers) /\ answers'[k] = answers[k + d]
    BY <1>1 DEF Taken
  <1>3. ASSUME NEW i \in 1..Len(jobs'), jobs'[i] = "guard"
        PROVE  i \in 1..Len(jobs) /\ jobs[i] = "guard"
    BY <1>1, <1>3 DEF Grown
  <1>4. ASSUME remoteStop, NEW i \in 1..Len(jobs'), jobs'[i] = "connect"
        PROVE  i \in 1..Len(jobs) /\ jobs[i] = "connect"
    BY <1>1, <1>4 DEF Grown
  <1>5. ASSUME NEW i \in 1..Len(jobs'), jobs'[i] = "guard"
        PROVE  /\ remoteStop /\ ~waitStop /\ modal' # "guard"
               /\ \A k \in 1..Len(answers') : answers'[k].job # "guard"
               /\ \A j \in 1..Len(jobs') : jobs'[j] = "guard" => j = i
               /\ \A j \in 1..Len(jobs') : j > i => jobs'[j] # "connect"
    BY <1>2, <1>3, <1>4, <1>5 DEF GuardInv
  <1>6. ASSUME NEW k \in 1..Len(answers'), answers'[k].job = "guard"
        PROVE  /\ remoteStop /\ ~waitStop /\ modal' # "guard"
               /\ \A j \in 1..Len(answers') : answers'[j].job = "guard" => j = k
               /\ answers'[k].ok => ~connected /\ \A i \in 1..Len(jobs') : jobs'[i] # "connect"
    <2>1. k + d \in 1..Len(answers) /\ answers[k + d].job = "guard" /\ answers'[k] = answers[k + d]
      BY <1>2, <1>6
    <2>2. /\ remoteStop /\ ~waitStop /\ modal # "guard"
          /\ \A j \in 1..Len(answers) : answers[j].job = "guard" => j = k + d
          /\ answers'[k].ok => ~connected /\ \A i \in 1..Len(jobs) : jobs[i] # "connect"
      BY <2>1 DEF GuardInv
    <2>3. ASSUME NEW j \in 1..Len(answers'), answers'[j].job = "guard"
          PROVE  j = k
      BY <2>2, <2>3, <1>2
    <2>4. QED  BY <2>2, <2>3, <1>4
  <1>7. modal' = "guard" => remoteStop /\ ~waitStop
    BY DEF GuardInv
  <1>8. waitStop => remoteStop /\ ~connected /\ \A i \in 1..Len(jobs') : jobs'[i] # "connect"
    BY <1>4 DEF GuardInv
  <1>9. QED  BY <1>5, <1>6, <1>7, <1>8 DEF GuardInv

\* What is awaited is awaited still, unless its answer was taken.
LEMMA StillAwaited ==
    ASSUME HostTyped, NEW x, Grown(x), NEW d \in 0..1, Taken(d), NEW S,
           d = 1 => answers[1].job \notin S, Awaited(S)
    PROVE  Awaited(S)'
  <1>1. /\ Len(jobs) \in Nat /\ Len(answers) \in Nat
        /\ Len(jobs') \in Nat /\ Len(answers') \in Nat
        /\ Len(answers') = Len(answers) - d
    BY QueueFacts, LenProperties DEF Grown, Taken
  <1>2. CASE \E i \in 1..Len(jobs) : jobs[i] \in S
    BY <1>1, <1>2 DEF Grown, Awaited
  <1>3. CASE \E k \in 1..Len(answers) : answers[k].job \in S
    <2>1. PICK k \in 1..Len(answers) : answers[k].job \in S
      BY <1>3
    <2>2. k - d \in 1..Len(answers') /\ (k - d) + d = k
      BY <2>1, <1>1
    <2>3. answers'[k - d] = answers[k]
      BY <2>2 DEF Taken
    <2>4. QED  BY <2>1, <2>2, <2>3 DEF Awaited
  <1>4. QED  BY <1>2, <1>3 DEF Awaited

\* What was submitted is awaited.
LEMMA LastAwaited ==
    ASSUME jobs' \in Seq(Jobs), Len(jobs') > 0, NEW S, jobs'[Len(jobs')] \in S
    PROVE  Awaited(S)'
  <1>1. Len(jobs') \in Nat /\ Len(jobs') \in 1..Len(jobs')
    BY LenProperties
  <1>2. QED  BY <1>1 DEF Awaited

LEMMA HandlerShown ==
    ASSUME HostTyped, ShownInv, NEW x, Grown(x), NEW d \in 0..1, Taken(d),
           UNCHANGED <<state, connected, closing, remoteStop, current>>,
           d = 1 => answers[1].job \notin Resolvers \cup {"stopSettle", "start"}
    PROVE  ShownInv'
  <1>1. \A S \in {Resolvers, {"stopSettle"}, {"start"}} : Awaited(S) => Awaited(S)'
    BY StillAwaited
  <1>2. QED  BY <1>1 DEF ShownInv, Agrees

LEMMA HandlerKeeps ==
    ASSUME HostInv, NEW x, x \notin {"cleanup", "guard"}, x = "connect" => ~remoteStop,
           Grown(x), NEW d \in 0..1, Taken(d),
           UNCHANGED <<running, connected, streaming, closing, closed, remoteStop, waitStop>>,
           modal' = modal \/ modal' # "guard", ShownInv'
    PROVE  HostInv'
  <1>1. HostTyped' /\ StreamPoint'
    BY HandlerTyped DEF HostInv
  <1>2. CloseInv'
    BY HandlerClose DEF HostInv
  <1>3. GuardInv'
    BY HandlerGuard DEF HostInv
  <1>4. WordInv'
    BY HandlerWord DEF HostInv
  <1>5. QED  BY <1>1, <1>2, <1>3, <1>4 DEF HostInv

-----------------------------------------------------------------------------
(* The user.                                                               *)

\* A job whose answer tells of the connection is submitted, after a stop of the stream.
LEMMA ResolverSubmitted ==
    ASSUME HostInv, NEW x \in Resolvers, x \notin {"cleanup", "guard"},
           x = "connect" => ~remoteStop, ~closing, ~closed,
           jobs' = Append(StopSubmitted("stop"), x), NEW d \in 0..1, Taken(d),
           UNCHANGED <<running, connected, streaming, closing, closed, remoteStop, waitStop, modal>>
    PROVE  HostInv'
  <1>1. x \in Jobs /\ HostTyped
    BY DEF HostInv, Resolvers, Jobs
  <1>2. Grown(x) /\ Len(jobs') > Len(jobs) /\ jobs'[Len(jobs')] = x
    BY <1>1, StopThenGrown
  <1>3. jobs' \in Seq(Jobs) /\ Len(jobs') > 0
    BY <1>1, <1>2, QueueFacts, LenProperties DEF Grown
  <1>4. ShownInv'
    BY <1>2, <1>3, LastAwaited DEF ShownInv
  <1>5. QED  BY <1>2, <1>4, HandlerKeeps

LEMMA LoadKeeps ==
    ASSUME HostInv, Load  PROVE HostInv'
  <1>1. ~closing /\ ~closed /\ jobs' = Append(StopSubmitted("stop"), "load") /\ UNCHANGED answers
    BY DEF Load, UserMay
  <1>2. UNCHANGED <<running, connected, streaming, closing, closed, remoteStop, waitStop, modal>>
    BY DEF Load, stopVars, closeVars, sessionVars
  <1>3. Taken(0)
    BY <1>1, NothingTaken DEF HostInv
  <1>4. QED  BY <1>1, <1>2, <1>3, ResolverSubmitted DEF Resolvers

LEMMA ConnectKeeps ==
    ASSUME HostInv, Connect  PROVE HostInv'
  <1>1. ~closing /\ ~closed /\ jobs' = Append(StopSubmitted("stop"), "connect") /\ UNCHANGED answers
    BY DEF Connect, UserMay
  <1>2. UNCHANGED <<running, connected, streaming, closing, closed, remoteStop, waitStop, modal>>
    BY DEF Connect, stopVars, closeVars, sessionVars
  <1>3. ~remoteStop
    BY DEF Connect, Idle, Shown
  <1>4. Taken(0)
    BY <1>1, NothingTaken DEF HostInv
  <1>5. QED  BY <1>1, <1>2, <1>3, <1>4, ResolverSubmitted DEF Resolvers

LEMMA DisconnectKeeps ==
    ASSUME HostInv, Disconnect  PROVE HostInv'
  <1>1. ~closing /\ ~closed /\ jobs' = Append(StopSubmitted("stop"), "offline") /\ UNCHANGED answers
    BY DEF Disconnect, UserMay
  <1>2. UNCHANGED <<running, connected, streaming, closing, closed, remoteStop, waitStop, modal>>
    BY DEF Disconnect, stopVars, closeVars, sessionVars
  <1>3. Taken(0)
    BY <1>1, NothingTaken DEF HostInv
  <1>4. QED  BY <1>1, <1>2, <1>3, ResolverSubmitted DEF Resolvers, Disconnects

LEMMA CommitTargetHostKeeps ==
    ASSUME HostInv, CommitTargetHost  PROVE HostInv'
  <1>1. PICK x \in {"switch", "switchResume"} : jobs' = Append(StopSubmitted("stop"), x)
    BY DEF CommitTargetHost
  <1>2. ~closing /\ ~closed /\ UNCHANGED answers
    BY DEF CommitTargetHost, UserMay
  <1>3. UNCHANGED <<running, connected, streaming, closing, closed, remoteStop, waitStop, modal>>
    BY DEF CommitTargetHost, stopVars, closeVars, sessionVars
  <1>4. Taken(0)
    BY <1>2, NothingTaken DEF HostInv
  <1>5. x \in Resolvers /\ x \notin {"cleanup", "guard", "connect"}
    BY DEF Resolvers, Disconnects
  <1>6. QED  BY <1>1, <1>2, <1>3, <1>4, <1>5, ResolverSubmitted

\* An observation starts in the state CONNECTED, with the answers as they are.
LEMMA StartedShown ==
    ASSUME HostTyped, ~closed, Started, UNCHANGED <<connected, closing, remoteStop>>,
           ~closing /\ ~remoteStop /\ ~Awaited(Resolvers)' => connected
    PROVE  Grown("start") /\ ShownInv'
  <1>1. CASE state' = "ACQUIRING" /\ UNCHANGED jobs
    BY <1>1, NothingGrown DEF ShownInv, Agrees
  <1>2. CASE /\ state' = "CONNECTING" /\ jobs' = Submitted(jobs, "start") /\ current' = ~closing
    <2>1. "start" \in Jobs
      BY DEF Jobs
    <2>2. Grown("start") /\ (~closing => Len(jobs') = Len(jobs) + 1 /\ jobs'[Len(jobs')] = "start")
      BY <1>2, <2>1, SubmittedGrown
    <2>3. ~closing => Awaited({"start"})'
      BY <2>2, LastAwaited, QueueFacts DEF Grown
    <2>4. ~closing => current'
      BY <1>2
    <2>5. QED  BY <1>2, <2>2, <2>3, <2>4 DEF ShownInv
  <1>3. QED  BY <1>1, <1>2 DEF Started

LEMMA StartObservationKeeps ==
    ASSUME HostInv, StartObservation  PROVE HostInv'
  <1>1. ~closed /\ ~remoteStop /\ state = "CONNECTED" /\ Started /\ UNCHANGED answers
    BY DEF StartObservation, UserMay
  <1>2. UNCHANGED <<running, connected, streaming, closing, closed, remoteStop, waitStop, modal>>
    BY DEF StartObservation, stopVars, closeVars, sessionVars
  <1>3. ~closing /\ ~Awaited(Resolvers) => connected
    BY <1>1 DEF HostInv, ShownInv, Agrees
  <1>4. Taken(0)
    BY <1>1, NothingTaken DEF HostInv
  <1>5. Grown("start")
    <2>1. "start" \in Jobs /\ HostTyped
      BY DEF Jobs, HostInv
    <2>2. QED  BY <1>1, <2>1, NothingGrown, SubmittedGrown DEF Started
  <1>6. Awaited(Resolvers) => Awaited(Resolvers)'
    BY <1>4, <1>5, StillAwaited DEF HostInv
  <1>7. ShownInv'
    BY <1>1, <1>2, <1>3, <1>6, StartedShown DEF HostInv
  <1>8. QED  BY <1>2, <1>4, <1>5, <1>7, HandlerKeeps

\* The stop of a stream that should settle the state.
LEMMA SettlingStop ==
    ASSUME HostInv, jobs' = StopSubmitted("stopSettle"), UNCHANGED answers
    PROVE  /\ Grown("stopSettle") /\ Taken(0)
           /\ WasDaq /\ ~closing /\ ~closed => Awaited({"stopSettle"})'
           /\ Awaited(Resolvers) => Awaited(Resolvers)'
  <1>1. "stopSettle" \in Stops /\ HostTyped
    BY DEF Stops, HostInv
  <1>2. Grown("stopSettle") /\ (WasDaq /\ ~closing /\ ~closed =>
                            Len(jobs') = Len(jobs) + 1 /\ jobs'[Len(jobs')] = "stopSettle")
    BY <1>1, StopGrown
  <1>3. Taken(0)
    BY <1>1, NothingTaken
  <1>4. WasDaq /\ ~closing /\ ~closed => Awaited({"stopSettle"})'
    BY <1>1, <1>2, LastAwaited, QueueFacts DEF Grown
  <1>5. Awaited(Resolvers) => Awaited(Resolvers)'
    BY <1>1, <1>2, <1>3, StillAwaited
  <1>6. QED  BY <1>2, <1>3, <1>4, <1>5

LEMMA StopObservationKeeps ==
    ASSUME HostInv, StopObservation  PROVE HostInv'
  <1>1. /\ ~closed /\ ~remoteStop /\ state = "ACQUIRING" /\ UNCHANGED answers
        /\ jobs' = StopSubmitted("stopSettle") /\ state' = StoppedState
    BY DEF StopObservation, UserMay, Shown
  <1>2. UNCHANGED <<running, connected, streaming, closing, closed, remoteStop, waitStop, modal>>
    BY DEF StopObservation, stopVars, closeVars, sessionVars
  <1>3. ~closing /\ ~Awaited(Resolvers) => connected
    BY <1>1 DEF HostInv, ShownInv, Agrees
  <1>4. ShownInv'
    <2>1. CASE WasDaq /\ ~closing
      <3>1. state' = "CONNECTING"
        BY <1>1, <2>1 DEF StoppedState
      <3>2. QED  BY <1>1, <2>1, <3>1, SettlingStop DEF ShownInv
    <2>2. CASE ~WasDaq
      <3>1. state' = "CONNECTED"
        BY <1>1, <2>2 DEF StoppedState
      <3>2. QED  BY <1>1, <1>2, <1>3, <3>1, SettlingStop DEF ShownInv, Agrees
    <2>3. CASE closing
      BY <1>2, <2>3 DEF ShownInv
    <2>4. QED  BY <2>1, <2>2, <2>3
  <1>5. QED  BY <1>1, <1>2, <1>4, SettlingStop, HandlerKeeps

LEMMA CalibrateKeeps ==
    ASSUME HostInv, Calibrate  PROVE HostInv'
  <1>1. ~closed /\ ~closing /\ UNCHANGED answers /\ jobs' = Append(jobs, "calibrate")
    BY DEF Calibrate, UserMay
  <1>2. UNCHANGED <<running, connected, streaming, closing, closed, remoteStop, waitStop, modal, state, current>>
    BY DEF Calibrate, stopVars, closeVars, sessionVars, observationVars
  <1>3. Grown("calibrate") /\ Taken(0)
    <2>1. "calibrate" \in Jobs
      BY DEF Jobs
    <2>2. QED  BY <1>1, <2>1, AppendGrown, NothingTaken DEF HostInv
  <1>4. ShownInv'
    BY <1>2, <1>3, HandlerShown DEF HostInv
  <1>5. QED  BY <1>2, <1>3, <1>4, HandlerKeeps

LEMMA StopModelKeeps ==
    ASSUME HostInv, StopModel  PROVE HostInv'
  <1>1. /\ ~closing /\ ~closed /\ ~remoteStop /\ modal = "none" /\ remoteStop'
        /\ jobs' = Append(StopSubmitted("stop"), "guard") /\ UNCHANGED answers
    BY DEF StopModel, UserMay
  <1>2. UNCHANGED <<running, connected, streaming, closing, closed, waitStop, modal>>
    BY DEF StopModel, stopVars, closeVars, sessionVars
  <1>3. Grown("guard") /\ Len(jobs') > Len(jobs) /\ jobs'[Len(jobs')] = "guard" /\ Taken(0)
    <2>1. "guard" \in Jobs
      BY DEF Jobs, Disconnects
    <2>2. QED  BY <1>1, <2>1, StopThenGrown, NothingTaken DEF HostInv
  <1>4. HostTyped' /\ StreamPoint' /\ CloseInv' /\ WordInv'
    BY <1>2, <1>3, HandlerTyped, HandlerClose, HandlerWord DEF HostInv
  <1>5. GuardInv'
    <2>1. /\ \A i \in 1..Len(jobs) : jobs[i] # "guard"
          /\ \A k \in 1..Len(answers) : answers[k].job # "guard"
          /\ ~waitStop
      BY <1>1 DEF HostInv, GuardInv
    <2>2. Len(jobs) \in Nat /\ Len(jobs') \in Nat
      BY <1>3, QueueFacts, LenProperties DEF HostInv, Grown
    <2>3. \A i \in 1..Len(jobs') : jobs'[i] = "guard" <=> i = Len(jobs')
      <3>1. TAKE i \in 1..Len(jobs')
      <3>2. i <= Len(jobs) => jobs'[i] # "guard"
        BY <1>3, <2>1, <2>2 DEF Grown
      <3>3. i > Len(jobs) /\ jobs'[i] = "guard" => i = Len(jobs')
        BY <1>3 DEF Grown, Stops
      <3>4. QED  BY <1>3, <2>2, <3>2, <3>3
    <2>4. QED  BY <1>1, <1>2, <2>1, <2>2, <2>3 DEF GuardInv
  <1>6. ShownInv'
    BY <1>1 DEF ShownInv
  <1>7. QED  BY <1>4, <1>5, <1>6 DEF HostInv

-----------------------------------------------------------------------------
(* The window is closed, and the jobs that wait are cancelled.             *)

LEMMA CutQueue ==
    ASSUME NEW queue \in Seq(Jobs), NEW kept \in 0..Len(queue), NEW longer,
           longer = Append(SubSeq(queue, 1, kept), "cleanup")
    PROVE  /\ longer \in Seq(Jobs) /\ Len(longer) = kept + 1
           /\ \A i \in 1..kept : longer[i] = queue[i]
           /\ longer[kept + 1] = "cleanup"
  <1>1. Len(queue) \in Nat /\ \A i \in 1..Len(queue) : queue[i] \in Jobs
    BY LenProperties, ElementOfSeq
  <1>2. PICK s : s = SubSeq(queue, 1, kept)
    OBVIOUS
  <1>3. s \in Seq(Jobs) /\ Len(s) = kept /\ \A i \in 1..kept : s[i] = queue[i]
    <2>1. \A i \in 1..kept : queue[i] \in Jobs
      BY <1>1
    <2>2. kept \in Int /\ 1 \in Int /\ kept >= 0
      BY <1>1
    <2>3. /\ SubSeq(queue, 1, kept) \in Seq(Jobs)
          /\ Len(SubSeq(queue, 1, kept)) = IF 1 <= kept THEN kept - 1 + 1 ELSE 0
          /\ \A i \in 1..(kept - 1 + 1) : SubSeq(queue, 1, kept)[i] = queue[1 + i - 1]
      BY <2>1, <2>2, SubSeqProperties
    <2>4. QED  BY <1>2, <2>2, <2>3
  <1>4. /\ longer \in Seq(Jobs) /\ Len(longer) = Len(s) + 1
        /\ \A i \in 1..Len(s) : longer[i] = s[i]
        /\ longer[Len(s) + 1] = "cleanup"
    <2>1. "cleanup" \in Jobs
      BY DEF Jobs, Disconnects
    <2>2. longer = Append(s, "cleanup")
      BY <1>2
    <2>3. QED  BY <1>3, <2>1, <2>2, Appended
  <1>5. QED  BY <1>3, <1>4

LEMMA FailedFacts ==
    ASSUME NEW js \in Seq(Jobs)
    PROVE  /\ Failed(js) \in Seq(Answers) /\ Len(Failed(js)) = Len(js)
           /\ \A i \in 1..Len(js) : Failed(js)[i] = [job |-> js[i], ok |-> FALSE]
  <1>1. Len(js) \in Nat /\ \A i \in 1..Len(js) : js[i] \in Jobs
    BY LenProperties, ElementOfSeq
  <1>2. \A i \in 1..Len(js) : [job |-> js[i], ok |-> FALSE] \in Answers
    BY <1>1 DEF Answers
  <1>3. QED  BY <1>1, <1>2 DEF Failed

LEMMA AnswersCancelled ==
    ASSUME jobs \in Seq(Jobs), answers \in Seq(Answers), NEW kept \in 0..Len(jobs),
           answers' = answers \o Failed(SubSeq(jobs, kept + 1, Len(jobs)))
    PROVE  /\ answers' \in Seq(Answers) /\ Len(answers') = Len(answers) + (Len(jobs) - kept)
           /\ \A k \in 1..Len(answers) : answers'[k] = answers[k]
           /\ \A k \in 1..Len(answers') : k > Len(answers) =>
                  /\ kept + (k - Len(answers)) \in 1..Len(jobs)
                  /\ answers'[k].job = jobs[kept + (k - Len(answers))] /\ ~answers'[k].ok
  <1>1. /\ Len(jobs) \in Nat /\ \A i \in 1..Len(jobs) : jobs[i] \in Jobs
        /\ Len(answers) \in Nat /\ kept \in Nat /\ kept <= Len(jobs)
    BY LenProperties, ElementOfSeq
  <1>2. PICK s : s = SubSeq(jobs, kept + 1, Len(jobs))
    OBVIOUS
  <1>3. /\ s \in Seq(Jobs) /\ Len(s) = Len(jobs) - kept
        /\ \A i \in 1..(Len(jobs) - kept) : s[i] = jobs[kept + i]
    <2>1. \A i \in (kept + 1)..Len(jobs) : jobs[i] \in Jobs
      BY <1>1
    <2>2. kept + 1 \in Int /\ Len(jobs) \in Int
      BY <1>1
    <2>3. /\ SubSeq(jobs, kept + 1, Len(jobs)) \in Seq(Jobs)
          /\ Len(SubSeq(jobs, kept + 1, Len(jobs))) =
                 IF kept + 1 <= Len(jobs) THEN Len(jobs) - (kept + 1) + 1 ELSE 0
          /\ \A i \in 1..(Len(jobs) - (kept + 1) + 1) :
                 SubSeq(jobs, kept + 1, Len(jobs))[i] = jobs[kept + 1 + i - 1]
      BY <2>1, <2>2, SubSeqProperties
    <2>4. s \in Seq(Jobs) /\ Len(s) = Len(jobs) - kept
      BY <1>1, <1>2, <2>3
    <2>5. ASSUME NEW i \in 1..(Len(jobs) - kept)
          PROVE  s[i] = jobs[kept + i]
      <3>1. i \in 1..(Len(jobs) - (kept + 1) + 1) /\ kept + 1 + i - 1 = kept + i
        BY <1>1
      <3>2. QED  BY <1>2, <2>3, <3>1
    <2>6. QED  BY <2>4, <2>5
  <1>4. PICK t : t = Failed(s)
    OBVIOUS
  <1>5. /\ t \in Seq(Answers) /\ Len(t) = Len(s)
        /\ \A i \in 1..Len(s) : t[i] = [job |-> s[i], ok |-> FALSE]
    BY <1>3, <1>4, FailedFacts
  <1>6. /\ answers' \in Seq(Answers) /\ Len(answers') = Len(answers) + Len(t)
        /\ \A k \in 1..(Len(answers) + Len(t)) :
               answers'[k] = IF k <= Len(answers) THEN answers[k] ELSE t[k - Len(answers)]
    <2>1. answers' = answers \o t /\ t \in Seq(Answers)
      BY <1>2, <1>4, <1>5
    <2>2. QED  BY <2>1, ConcatProperties
  <1>7. ASSUME NEW k \in 1..Len(answers'), k > Len(answers)
        PROVE  /\ kept + (k - Len(answers)) \in 1..Len(jobs)
               /\ answers'[k].job = jobs[kept + (k - Len(answers))] /\ ~answers'[k].ok
    <2>1. k - Len(answers) \in 1..(Len(jobs) - kept) /\ Len(answers') = Len(answers) + (Len(jobs) - kept)
      BY <1>1, <1>3, <1>5, <1>6, <1>7
    <2>2. answers'[k] = t[k - Len(answers)] /\ t[k - Len(answers)] = [job |-> s[k - Len(answers)], ok |-> FALSE]
      BY <1>1, <1>3, <1>5, <1>6, <1>7, <2>1
    <2>3. s[k - Len(answers)] = jobs[kept + (k - Len(answers))]
      BY <1>3, <2>1
    <2>4. kept + (k - Len(answers)) \in 1..Len(jobs)
      BY <1>1, <2>1
    <2>5. answers'[k].job = s[k - Len(answers)] /\ ~answers'[k].ok
      BY <2>2
    <2>6. QED  BY <2>3, <2>4, <2>5
  <1>8. QED  BY <1>1, <1>3, <1>5, <1>6, <1>7

LEMMA RequestCloseKeeps ==
    ASSUME HostInv, RequestClose  PROVE HostInv'
  <1> DEFINE n == Len(jobs)  a == Len(answers)
  <1>1. /\ ~closing /\ ~closed /\ modal = "none" /\ closing'
        /\ UNCHANGED <<running, connected, streaming, closed, remoteStop, waitStop, modal>>
    BY DEF RequestClose, UserMay, stopVars, sessionVars
  <1>2. /\ jobs \in Seq(Jobs) /\ answers \in Seq(Answers) /\ n \in Nat /\ a \in Nat
        /\ \A i \in 1..n : jobs[i] # "cleanup"
        /\ \A k \in 1..a : answers[k].job # "cleanup"
    BY <1>1, QueueFacts DEF HostInv, HostTyped, CloseInv
  <1>3. PICK kept : /\ kept = IF running = "no" THEN 0 ELSE 1
                    /\ jobs' = Append(SubSeq(jobs, 1, kept), "cleanup")
                    /\ answers' = answers \o Failed(SubSeq(jobs, kept + 1, Len(jobs)))
    BY DEF RequestClose
  <1>4. kept \in 0..n
    BY <1>2, <1>3, QueueFacts DEF HostInv, HostTyped
  <1>5. /\ jobs' \in Seq(Jobs) /\ Len(jobs') = kept + 1
        /\ \A i \in 1..kept : jobs'[i] = jobs[i]
        /\ jobs'[kept + 1] = "cleanup"
    <2>1. jobs \in Seq(Jobs) /\ kept \in 0..Len(jobs) /\ jobs' = Append(SubSeq(jobs, 1, kept), "cleanup")
      BY <1>2, <1>3, <1>4
    <2>2. QED  BY <2>1, CutQueue
  <1>6. /\ answers' \in Seq(Answers) /\ Len(answers') = a + (n - kept)
        /\ \A k \in 1..a : answers'[k] = answers[k]
        /\ \A k \in 1..Len(answers') : k > a =>
               /\ kept + (k - a) \in 1..n
               /\ answers'[k].job = jobs[kept + (k - a)] /\ ~answers'[k].ok
    <2>1. /\ jobs \in Seq(Jobs) /\ answers \in Seq(Answers) /\ kept \in 0..Len(jobs)
          /\ answers' = answers \o Failed(SubSeq(jobs, kept + 1, Len(jobs)))
      BY <1>2, <1>3, <1>4
    <2>2. QED  BY <2>1, AnswersCancelled
  <1>7. Len(jobs') > 0 /\ jobs' # <<>>
    BY <1>4, <1>5, EmptySeq
  <1>8. HostTyped'
    BY <1>1, <1>5, <1>6, <1>7 DEF HostInv, HostTyped, Jobs, Answers
  <1>9. StreamPoint'
    <2>1. running = "down" => kept = 1
      BY <1>3
    <2>2. QED  BY <1>1, <1>5, <2>1 DEF HostInv, StreamPoint, Resolvers
  <1>10. CloseInv'
    <2>1. \A i \in 1..Len(jobs') : jobs'[i] = "cleanup" => i = Len(jobs')
      BY <1>2, <1>4, <1>5
    <2>2. \A k \in 1..Len(answers') : answers'[k].job # "cleanup"
      <3>1. TAKE k \in 1..Len(answers')
      <3>2. CASE k <= a
        BY <3>2, <1>2, <1>6
      <3>3. CASE k > a
        BY <3>3, <1>2, <1>6
      <3>4. QED  BY <1>2, <3>2, <3>3
    <2>3. QED  BY <1>1, <2>1, <2>2 DEF CloseInv
  <1>11. GuardInv'
    <2>1. ASSUME NEW i \in 1..Len(jobs'), jobs'[i] \in {"guard", "connect"}
          PROVE  i \in 1..kept /\ i \in 1..n /\ jobs'[i] = jobs[i]
      BY <1>2, <1>4, <1>5, <2>1
    <2>2. ASSUME NEW i \in 1..Len(jobs'), jobs'[i] = "guard"
          PROVE  /\ remoteStop /\ ~waitStop /\ modal # "guard"
                 /\ \A k \in 1..Len(answers') : answers'[k].job # "guard"
                 /\ \A j \in 1..Len(jobs') : jobs'[j] = "guard" => j = i
                 /\ \A j \in 1..Len(jobs') : j > i => jobs'[j] # "connect"
      <3>1. i \in 1..kept /\ i \in 1..n /\ jobs[i] = "guard"
        BY <2>1, <2>2
      <3>2. /\ remoteStop /\ ~waitStop /\ modal # "guard"
            /\ \A k \in 1..a : answers[k].job # "guard"
            /\ \A j \in 1..n : jobs[j] = "guard" => j = i
            /\ \A j \in 1..n : j > i => jobs[j] # "connect"
        BY <3>1 DEF HostInv, GuardInv
      <3>3. ASSUME NEW k \in 1..Len(answers'), answers'[k].job = "guard"
            PROVE  FALSE
        <4>1. CASE k <= a
          BY <4>1, <3>2, <3>3, <1>2, <1>6
        <4>2. CASE k > a
          <5>1. kept + (k - a) \in 1..n /\ jobs[kept + (k - a)] = "guard"
            BY <4>2, <3>3, <1>6
          <5>2. kept + (k - a) = i
            BY <5>1, <3>2
          <5>3. QED  BY <5>2, <4>2, <3>1, <1>2, <1>4
        <4>3. QED  BY <4>1, <4>2, <1>2
      <3>4. QED  BY <3>2, <3>3, <2>1
    <2>3. ASSUME NEW k \in 1..Len(answers'), answers'[k].job = "guard"
          PROVE  /\ remoteStop /\ ~waitStop /\ modal # "guard"
                 /\ \A j \in 1..Len(answers') : answers'[j].job = "guard" => j = k
                 /\ answers'[k].ok =>
                        ~connected /\ \A i \in 1..Len(jobs') : jobs'[i] # "connect"
      <3>1. CASE k <= a
        <4>1. k \in 1..a /\ answers[k].job = "guard" /\ answers'[k] = answers[k]
          BY <3>1, <2>3, <1>2, <1>6
        <4>2. /\ remoteStop /\ ~waitStop /\ modal # "guard"
              /\ \A j \in 1..a : answers[j].job = "guard" => j = k
              /\ answers'[k].ok => ~connected /\ \A i \in 1..n : jobs[i] # "connect"
              /\ \A i \in 1..n : jobs[i] # "guard"
          BY <4>1 DEF HostInv, GuardInv
        <4>3. ASSUME NEW j \in 1..Len(answers'), answers'[j].job = "guard"
              PROVE  j = k
          <5>1. ~(j > a)
            BY <4>2, <4>3, <1>6
          <5>2. QED  BY <5>1, <4>2, <4>3, <1>2, <1>6
        <4>4. QED  BY <4>2, <4>3, <2>1
      <3>2. CASE k > a
        <4>1. kept + (k - a) \in 1..n /\ jobs[kept + (k - a)] = "guard" /\ ~answers'[k].ok
          BY <3>2, <2>3, <1>6
        <4>2. /\ remoteStop /\ ~waitStop /\ modal # "guard"
              /\ \A j \in 1..a : answers[j].job # "guard"
              /\ \A i \in 1..n : jobs[i] = "guard" => i = kept + (k - a)
          BY <4>1 DEF HostInv, GuardInv
        <4>3. ASSUME NEW j \in 1..Len(answers'), answers'[j].job = "guard"
              PROVE  j = k
          <5>1. j > a
            BY <4>2, <4>3, <1>2, <1>6
          <5>2. kept + (j - a) \in 1..n /\ jobs[kept + (j - a)] = "guard"
            BY <5>1, <4>3, <1>6
          <5>3. kept + (j - a) = kept + (k - a)
            BY <5>2, <4>2
          <5>4. QED  BY <5>3, <1>2, <1>4
        <4>4. QED  BY <4>1, <4>2, <4>3
      <3>3. QED  BY <3>1, <3>2, <1>2
    <2>4. waitStop => remoteStop /\ ~connected /\ \A i \in 1..Len(jobs') : jobs'[i] # "connect"
      BY <2>1 DEF HostInv, GuardInv
    <2>5. QED  BY <1>1, <2>2, <2>3, <2>4 DEF GuardInv
  <1>12. WordInv'
    <2>1. SUFFICES ASSUME NEW k \in 1..Len(answers'), answers'[k].ok,
                          \A j \in 1..Len(answers') : j > k => answers'[j].job \notin Resolvers
                   PROVE  /\ answers'[k].job \in {"connect", "start"} => connected'
                          /\ answers'[k].job \in {"load"} \cup Disconnects => ~connected'
      BY DEF WordInv, Resolvers, Disconnects
    <2>2. k \in 1..a /\ answers'[k] = answers[k]
      BY <2>1, <1>2, <1>6
    <2>3. \A j \in 1..a : j > k => answers[j].job \notin Resolvers
      BY <2>1, <1>2, <1>4, <1>6
    <2>4. QED  BY <2>1, <2>2, <2>3, <1>1 DEF HostInv, WordInv
  <1>13. ShownInv'
    BY <1>1 DEF ShownInv
  <1>14. QED  BY <1>8, <1>9, <1>10, <1>11, <1>12, <1>13 DEF HostInv

-----------------------------------------------------------------------------
(* The worker.                                                             *)

\* A step that leaves alone all that the invariant reads but running and streaming.
LEMMA BeginKeeps ==
    ASSUME HostInv, Begin  PROVE HostInv'
  <1>1. jobs # <<>> /\ running' = "begun"
    BY DEF Begin
  <1>2. UNCHANGED <<jobs, answers, connected, streaming, closing, closed, remoteStop, waitStop,
                    modal, state, current>>
    BY DEF Begin, stopVars, closeVars, sessionVars, observationVars
  <1>3. HostTyped' /\ StreamPoint'
    BY <1>1, <1>2 DEF HostInv, HostTyped, StreamPoint, Resolvers, Jobs, Answers
  <1>4. CloseInv' /\ GuardInv' /\ WordInv' /\ ShownInv'
    BY <1>2 DEF HostInv, CloseInv, GuardInv, WordInv, ShownInv, Awaited, Agrees
  <1>5. QED  BY <1>3, <1>4 DEF HostInv

LEMMA StreamStoppedKeeps ==
    ASSUME HostInv, StreamStopped  PROVE HostInv'
  <1>1. running = "begun" /\ running' = "down" /\ streaming' = FALSE /\ Head(jobs) \in Resolvers
    BY DEF StreamStopped, Resolvers
  <1>2. UNCHANGED <<jobs, answers, connected, closing, closed, remoteStop, waitStop,
                    modal, state, current>>
    BY DEF StreamStopped, stopVars, closeVars, observationVars
  <1>3. jobs # <<>> /\ Head(jobs) = jobs[1]
    BY <1>1, QueueFacts DEF HostInv, HostTyped
  <1>4. HostTyped' /\ StreamPoint'
    BY <1>1, <1>2, <1>3 DEF HostInv, HostTyped, StreamPoint, Resolvers, Jobs, Answers
  <1>5. CloseInv' /\ GuardInv' /\ WordInv' /\ ShownInv'
    BY <1>2 DEF HostInv, CloseInv, GuardInv, WordInv, ShownInv, Awaited, Agrees
  <1>6. QED  BY <1>4, <1>5 DEF HostInv

\* What the end of a job does to the session.
LEMMA EffectFacts ==
    ASSUME HostInv, running # "no", NEW job \in Jobs, job = jobs[1], NEW ok \in BOOLEAN, Effect(job, ok)
    PROVE  /\ streaming' => connected'
           /\ job \notin Resolvers => UNCHANGED connected
           /\ ok /\ job \in {"connect", "start"} => connected'
           /\ ok /\ job \in {"load"} \cup Disconnects => ~connected'
           /\ ~connected /\ ~(ok /\ job = "connect") => ~connected'
  <1>1. /\ streaming => connected
        /\ running = "down" => ~streaming
    BY DEF HostInv, HostTyped, StreamPoint
  <1>2. CASE job \in Resolvers
    <2>1. job \in Disconnects \cup {"load", "connect"}
      BY <1>2 DEF Resolvers
    <2>5. job # "start" /\ job \notin Stops /\ job \notin {"poll", "calibrate"}
      BY <2>1 DEF Disconnects, Stops
    <2>2. CASE ok
      <3>1. /\ running = "down" \/ ~connected
            /\ connected' = (job = "connect") /\ UNCHANGED streaming
        BY <2>1, <2>2, <2>5 DEF Effect
      <3>2. connected' <=> job = "connect"
        BY <3>1
      <3>3. "connect" \notin {"load"} \cup Disconnects
        BY DEF Disconnects
      <3>4. ~streaming'
        BY <1>1, <3>1
      <3>5. job # "start"
        BY <1>2 DEF Resolvers, Disconnects
      <3>6. QED  BY <1>2, <2>2, <3>2, <3>3, <3>4, <3>5
    <2>3. CASE ~ok
      <3>1. connected' = ~(running = "down" \/ ~connected) /\ UNCHANGED streaming
        BY <2>1, <2>3, <2>5 DEF Effect
      <3>2. connected' <=> ~(running = "down" \/ ~connected)
        BY <3>1
      <3>3. QED  BY <1>1, <1>2, <2>3, <3>1, <3>2
    <2>4. QED  BY <2>2, <2>3
  <1>3. CASE job \notin Resolvers
    <2>1. job \notin Disconnects \cup {"load", "connect"}
      BY <1>3 DEF Resolvers
    <2>2. CASE job = "start"
      <3>1. "start" \notin {"load"} \cup Disconnects
        BY DEF Disconnects
      <3>2. UNCHANGED connected /\ (ok => connected)
        BY <2>1, <2>2 DEF Effect, Stops
      <3>3. streaming' \in {streaming} \cup {connected} \/ connected
        BY <2>1, <2>2 DEF Effect, Stops
      <3>4. streaming' => connected'
        BY <1>1, <3>2, <3>3
      <3>5. QED  BY <1>3, <2>2, <3>1, <3>2, <3>4
    <2>3. CASE job \in Stops
      <3>1. job # "start" /\ job # "connect" /\ job \notin {"load"} \cup Disconnects
        BY <2>3 DEF Stops, Disconnects
      <3>2. UNCHANGED connected /\ (streaming' => streaming)
        <4>1. job \notin {"poll", "calibrate"}
          BY <2>3 DEF Stops
        <4>2. QED  BY <2>1, <2>3, <3>1, <4>1 DEF Effect, sessionVars
      <3>3. QED  BY <1>1, <3>1, <3>2
    <2>4. CASE job \notin {"start"} \cup Stops
      <3>1. UNCHANGED <<connected, streaming>>
        BY <2>1, <2>4 DEF Effect, sessionVars
      <3>2. QED  BY <1>1, <2>1, <2>4, <3>1
    <2>5. QED  BY <2>2, <2>3, <2>4
  <1>4. QED  BY <1>2, <1>3

\* The first job becomes the last answer.
LEMMA FinishQueues ==
    ASSUME HostTyped, running # "no", NEW ok \in BOOLEAN, jobs' = Tail(jobs),
           answers' = Append(answers, [job |-> Head(jobs), ok |-> ok])
    PROVE  /\ Len(jobs) \in Nat /\ Len(jobs) > 0 /\ jobs[1] \in Jobs /\ Head(jobs) = jobs[1]
           /\ jobs' \in Seq(Jobs) /\ Len(jobs') = Len(jobs) - 1
           /\ \A i \in 1..Len(jobs') : i + 1 \in 1..Len(jobs) /\ jobs'[i] = jobs[i + 1]
           /\ answers' \in Seq(Answers) /\ Len(answers) \in Nat /\ Len(answers') = Len(answers) + 1
           /\ \A k \in 1..Len(answers) : answers'[k] = answers[k]
           /\ answers'[Len(answers) + 1].job = jobs[1]
           /\ answers'[Len(answers) + 1].ok <=> ok
  <1>1. /\ Len(jobs) \in Nat /\ Len(jobs) > 0 /\ jobs[1] \in Jobs /\ Head(jobs) = jobs[1] /\ jobs # <<>>
        /\ Len(answers) \in Nat /\ jobs \in Seq(Jobs) /\ answers \in Seq(Answers)
    BY QueueFacts DEF HostTyped
  <1>2. /\ Tail(jobs) \in Seq(Jobs) /\ Len(Tail(jobs)) = Len(jobs) - 1
        /\ \A i \in 1..Len(Tail(jobs)) : Tail(jobs)[i] = jobs[i + 1]
    BY <1>1, HeadTailProperties
  <1>3. \A i \in 1..Len(jobs') : i + 1 \in 1..Len(jobs) /\ jobs'[i] = jobs[i + 1]
    BY <1>1, <1>2
  <1>4. PICK answer : answer = [job |-> jobs[1], ok |-> ok] /\ answers' = Append(answers, answer)
    BY <1>1
  <1>5. answer \in Answers /\ answer.job = jobs[1] /\ (answer.ok <=> ok)
    BY <1>1, <1>4 DEF Answers
  <1>6. /\ answers' \in Seq(Answers) /\ Len(answers') = Len(answers) + 1
        /\ \A k \in 1..Len(answers) : answers'[k] = answers[k]
        /\ answers'[Len(answers) + 1] = answer
    BY <1>1, <1>4, <1>5, AppendProperties
  <1>7. QED  BY <1>1, <1>2, <1>3, <1>5, <1>6

LEMMA FinishKeeps ==
    ASSUME HostInv, NEW ok \in BOOLEAN, Finish(ok)  PROVE HostInv'
  <1> DEFINE a == Len(answers)
  <1>1. /\ running # "no" /\ running' = "no" /\ Effect(Head(jobs), ok)
        /\ jobs' = Tail(jobs) /\ answers' = Append(answers, [job |-> Head(jobs), ok |-> ok])
    BY DEF Finish
  <1>2. UNCHANGED <<closing, closed, remoteStop, waitStop, modal, state, current>>
    BY DEF Finish, stopVars, closeVars, observationVars
  <1>3. /\ Len(jobs) \in Nat /\ Len(jobs) > 0 /\ jobs[1] \in Jobs /\ Head(jobs) = jobs[1]
        /\ jobs' \in Seq(Jobs) /\ Len(jobs') = Len(jobs) - 1
        /\ \A i \in 1..Len(jobs') : i + 1 \in 1..Len(jobs) /\ jobs'[i] = jobs[i + 1]
        /\ answers' \in Seq(Answers) /\ a \in Nat /\ Len(answers') = a + 1
        /\ \A k \in 1..a : answers'[k] = answers[k]
        /\ answers'[a + 1].job = jobs[1]
        /\ answers'[a + 1].ok <=> ok
    BY <1>1, FinishQueues DEF HostInv
  <1>4. PICK job \in Jobs : job = jobs[1]
    BY <1>3
  <1>5. /\ streaming' => connected'
        /\ job \notin Resolvers => UNCHANGED connected
        /\ ok /\ job \in {"connect", "start"} => connected'
        /\ ok /\ job \in {"load"} \cup Disconnects => ~connected'
        /\ ~connected /\ ~(ok /\ job = "connect") => ~connected'
    BY <1>1, <1>3, <1>4, EffectFacts
  <1>6. \A k \in 1..Len(answers') : k \in 1..a \/ k = a + 1
    BY <1>3
  <1>7. HostTyped' /\ StreamPoint'
    BY <1>1, <1>3, <1>5 DEF HostTyped, StreamPoint, Resolvers, Jobs, Answers
  <1>8. CloseInv'
    <2>1. ~closed /\ \A k \in 1..a : answers[k].job # "cleanup"
      BY <1>3, EmptySeq DEF HostInv, CloseInv, HostTyped
    <2>2. \A i \in 1..Len(jobs') : jobs'[i] = "cleanup" => i = Len(jobs') /\ closing /\ ~closed
      BY <1>3 DEF HostInv, CloseInv
    <2>3. ASSUME NEW k \in 1..Len(answers'), answers'[k].job = "cleanup"
          PROVE  /\ k = Len(answers') /\ jobs' = <<>> /\ closing /\ ~closed
                 /\ answers'[k].ok => ~connected'
      <3>1. k = a + 1
        BY <2>1, <2>3, <1>3, <1>6
      <3>2. job = "cleanup" /\ 1 \in 1..Len(jobs)
        BY <3>1, <2>3, <1>3, <1>4
      <3>3. Len(jobs) = 1 /\ closing
        BY <3>2, <1>4 DEF HostInv, CloseInv
      <3>4. jobs' = <<>>
        BY <3>3, <1>3, EmptySeq
      <3>5. ok => ~connected'
        BY <3>2, <1>5 DEF Disconnects
      <3>6. QED  BY <3>1, <3>3, <3>4, <3>5, <2>1, <1>3
    <2>4. QED  BY <2>1, <2>2, <2>3, <1>2 DEF CloseInv
  <1>9. GuardInv'
    <2>1. ASSUME NEW i \in 1..Len(jobs'), jobs'[i] = "guard"
          PROVE  /\ remoteStop /\ ~waitStop /\ modal # "guard"
                 /\ \A k \in 1..Len(answers') : answers'[k].job # "guard"
                 /\ \A j \in 1..Len(jobs') : jobs'[j] = "guard" => j = i
                 /\ \A j \in 1..Len(jobs') : j > i => jobs'[j] # "connect"
      <3>1. i + 1 \in 1..Len(jobs) /\ jobs[i + 1] = "guard"
        BY <1>3, <2>1
      <3>2. /\ remoteStop /\ ~waitStop /\ modal # "guard"
            /\ \A k \in 1..a : answers[k].job # "guard"
            /\ \A j \in 1..Len(jobs) : jobs[j] = "guard" => j = i + 1
            /\ \A j \in 1..Len(jobs) : j > i + 1 => jobs[j] # "connect"
        BY <3>1 DEF HostInv, GuardInv
      <3>3. job # "guard"
        BY <3>2, <1>3, <1>4
      <3>4. \A k \in 1..Len(answers') : answers'[k].job # "guard"
        BY <3>2, <3>3, <1>3, <1>4, <1>6
      <3>5. ASSUME NEW j \in 1..Len(jobs'), jobs'[j] = "guard"
            PROVE  j = i
        <4>1. j + 1 \in 1..Len(jobs) /\ jobs[j + 1] = "guard"
          BY <3>5, <1>3
        <4>2. j + 1 = i + 1
          BY <3>2, <4>1
        <4>3. QED  BY <4>2, <1>3
      <3>6. ASSUME NEW j \in 1..Len(jobs'), j > i
            PROVE  jobs'[j] # "connect"
        <4>1. j + 1 \in 1..Len(jobs) /\ jobs'[j] = jobs[j + 1] /\ j + 1 > i + 1
          BY <3>6, <1>3
        <4>2. QED  BY <3>2, <4>1
      <3>7. QED  BY <3>2, <3>4, <3>5, <3>6
    <2>2. ASSUME NEW k \in 1..Len(answers'), answers'[k].job = "guard"
          PROVE  /\ remoteStop /\ ~waitStop /\ modal # "guard"
                 /\ \A j \in 1..Len(answers') : answers'[j].job = "guard" => j = k
                 /\ answers'[k].ok =>
                        ~connected' /\ \A i \in 1..Len(jobs') : jobs'[i] # "connect"
      <3>1. CASE k \in 1..a
        <4>1. answers[k].job = "guard" /\ answers'[k] = answers[k]
          BY <3>1, <2>2, <1>3
        <4>2. /\ remoteStop /\ ~waitStop /\ modal # "guard"
              /\ \A j \in 1..a : answers[j].job = "guard" => j = k
              /\ answers[k].ok => ~connected /\ \A i \in 1..Len(jobs) : jobs[i] # "connect"
              /\ \A i \in 1..Len(jobs) : jobs[i] # "guard"
          BY <3>1, <4>1 DEF HostInv, GuardInv
        <4>3. job # "guard" /\ (answers[k].ok => job # "connect")
          BY <4>2, <1>3, <1>4
        <4>4. \A j \in 1..Len(answers') : answers'[j].job = "guard" => j = k
          BY <4>2, <4>3, <1>3, <1>4, <1>6
        <4>5. answers'[k].ok => ~connected'
          BY <4>1, <4>2, <4>3, <1>5
        <4>6. QED  BY <4>1, <4>2, <4>4, <4>5, <1>3
      <3>2. CASE k = a + 1
        <4>1. job = "guard" /\ 1 \in 1..Len(jobs)
          BY <3>2, <2>2, <1>3, <1>4
        <4>2. /\ remoteStop /\ ~waitStop /\ modal # "guard"
              /\ \A j \in 1..a : answers[j].job # "guard"
              /\ \A j \in 1..Len(jobs) : j > 1 => jobs[j] # "connect"
          BY <4>1, <1>4 DEF HostInv, GuardInv
        <4>3. \A j \in 1..Len(answers') : answers'[j].job = "guard" => j = k
          BY <4>2, <3>2, <1>3, <1>6
        <4>4. \A i \in 1..Len(jobs') : jobs'[i] # "connect"
          BY <4>2, <1>3
        <4>5. answers'[k].ok => ~connected'
          BY <4>1, <3>2, <1>3, <1>5 DEF Disconnects
        <4>6. QED  BY <4>2, <4>3, <4>4, <4>5
      <3>3. QED  BY <3>1, <3>2, <1>6
    <2>3. waitStop => remoteStop /\ ~connected' /\ \A i \in 1..Len(jobs') : jobs'[i] # "connect"
      <3>1. SUFFICES ASSUME waitStop
                     PROVE  remoteStop /\ ~connected' /\ \A i \in 1..Len(jobs') : jobs'[i] # "connect"
        OBVIOUS
      <3>2. remoteStop /\ ~connected /\ \A i \in 1..Len(jobs) : jobs[i] # "connect"
        BY <3>1 DEF HostInv, GuardInv
      <3>3. job # "connect"
        BY <3>2, <1>3, <1>4
      <3>4. QED  BY <3>2, <3>3, <1>3, <1>5
    <2>4. modal = "guard" => remoteStop /\ ~waitStop
      BY DEF HostInv, GuardInv
    <2>5. QED  BY <2>1, <2>2, <2>3, <2>4, <1>2 DEF GuardInv
  <1>10. WordInv'
    <2>1. SUFFICES ASSUME NEW k \in 1..Len(answers'), answers'[k].ok,
                          \A j \in 1..Len(answers') : j > k => answers'[j].job \notin Resolvers
                   PROVE  /\ answers'[k].job \in {"connect", "start"} => connected'
                          /\ answers'[k].job \in {"load"} \cup Disconnects => ~connected'
      BY DEF WordInv, Resolvers, Disconnects
    <2>2. CASE k = a + 1
      BY <2>1, <2>2, <1>3, <1>4, <1>5
    <2>3. CASE k \in 1..a
      <3>1. job \notin Resolvers
        BY <2>1, <2>3, <1>3, <1>4
      <3>2. \A j \in 1..a : j > k => answers[j].job \notin Resolvers
        BY <2>1, <1>3
      <3>3. answers'[k] = answers[k]
        BY <2>3, <1>3
      <3>4. QED  BY <2>1, <2>3, <3>1, <3>2, <3>3, <1>5 DEF HostInv, WordInv
    <2>4. QED  BY <2>2, <2>3, <1>6
  <1>11. ShownInv'
    <2>1. ASSUME NEW S, Awaited(S)  PROVE Awaited(S)'
      <3>1. CASE \E i \in 1..Len(jobs) : jobs[i] \in S
        <4>1. PICK i \in 1..Len(jobs) : jobs[i] \in S
          BY <3>1
        <4>2. CASE i = 1
          <5>1. a + 1 \in 1..Len(answers') /\ answers'[a + 1].job \in S
            BY <4>1, <4>2, <1>3
          <5>2. QED  BY <5>1 DEF Awaited
        <4>3. CASE i # 1
          <5>1. i - 1 \in 1..Len(jobs') /\ (i - 1) + 1 = i
            BY <4>3, <1>3
          <5>2. jobs'[i - 1] = jobs[i]
            BY <5>1, <1>3
          <5>3. QED  BY <4>1, <5>1, <5>2 DEF Awaited
        <4>4. QED  BY <4>2, <4>3
      <3>2. CASE \E k \in 1..a : answers[k].job \in S
        BY <3>2, <1>3 DEF Awaited
      <3>3. QED  BY <2>1, <3>1, <3>2 DEF Awaited
    <2>2. CASE job \in Resolvers
      <3>1. a + 1 \in 1..Len(answers') /\ answers'[a + 1].job \in Resolvers
        BY <2>2, <1>3, <1>4
      <3>2. Awaited(Resolvers)'
        BY <3>1 DEF Awaited
      <3>3. QED  BY <3>2 DEF ShownInv
    <2>3. CASE job \notin Resolvers
      <3>1. UNCHANGED connected
        BY <2>3, <1>5
      <3>2. /\ Awaited(Resolvers) => Awaited(Resolvers)'
            /\ Awaited({"stopSettle"}) => Awaited({"stopSettle"})'
            /\ Awaited({"start"}) => Awaited({"start"})'
        BY <2>1
      <3>3. QED  BY <3>1, <3>2, <1>2 DEF HostInv, ShownInv, Agrees
    <2>4. QED  BY <2>2, <2>3
  <1>12. QED  BY <1>7, <1>8, <1>9, <1>10, <1>11 DEF HostInv

-----------------------------------------------------------------------------
(* The answers.                                                            *)

LEMMA AnswerFacts ==
    ASSUME HostInv, NEW job, NEW ok, Answer(job, ok)
    PROVE  /\ Taken(1) /\ Len(answers) \in Nat /\ 1 \in 1..Len(answers)
           /\ answers[1] = [job |-> job, ok |-> ok] /\ ~closed /\ modal = "none"
           /\ UNCHANGED <<running, connected, streaming>>
  <1>1. /\ answers # <<>> /\ Head(answers) = [job |-> job, ok |-> ok] /\ answers' = Tail(answers)
        /\ ~closed /\ modal = "none" /\ UNCHANGED <<running, connected, streaming>>
    BY DEF Answer, sessionVars
  <1>2. Taken(1)
    BY <1>1, AnswerTaken DEF HostInv
  <1>3. QED  BY <1>1, <1>2, QueueFacts DEF HostInv

LEMMA AnsweredWell ==
    ASSUME HostInv, NEW job, Answer(job, TRUE)
    PROVE  /\ Taken(1) /\ Len(answers) \in Nat /\ 1 \in 1..Len(answers)
           /\ answers[1].job = job /\ answers[1].ok /\ ~closed /\ modal = "none"
           /\ UNCHANGED <<running, connected, streaming>>
  <1>1. PICK ok : ok = TRUE
    OBVIOUS
  <1>2. /\ Taken(1) /\ Len(answers) \in Nat /\ 1 \in 1..Len(answers)
        /\ answers[1] = [job |-> job, ok |-> ok] /\ ~closed /\ modal = "none"
        /\ UNCHANGED <<running, connected, streaming>>
    BY <1>1, AnswerFacts
  <1>3. answers[1].job = job /\ answers[1].ok = ok
    BY <1>2
  <1>4. QED  BY <1>1, <1>2, <1>3

LEMMA AnsweredBadly ==
    ASSUME HostInv, NEW job, Answer(job, FALSE)
    PROVE  /\ Taken(1) /\ Len(answers) \in Nat /\ 1 \in 1..Len(answers)
           /\ answers[1].job = job /\ ~closed /\ modal = "none"
           /\ UNCHANGED <<running, connected, streaming>>
  <1>1. PICK ok : ok = FALSE
    OBVIOUS
  <1>2. /\ Taken(1) /\ Len(answers) \in Nat /\ 1 \in 1..Len(answers)
        /\ answers[1] = [job |-> job, ok |-> ok] /\ ~closed /\ modal = "none"
        /\ UNCHANGED <<running, connected, streaming>>
    BY <1>1, AnswerFacts
  <1>3. answers[1].job = job
    BY <1>2
  <1>4. QED  BY <1>2, <1>3

\* An answer about the connection is the truth, if no other follows.
LEMMA LastWord ==
    ASSUME HostInv, Taken(1), 1 \in 1..Len(answers), answers[1].ok, UNCHANGED connected,
           ~Awaited(Resolvers)'
    PROVE  /\ answers[1].job \in {"connect", "start"} => connected'
           /\ answers[1].job \in {"load"} \cup Disconnects => ~connected'
  <1>1. Len(answers) \in Nat /\ Len(answers') = Len(answers) - 1
    BY QueueFacts DEF HostInv, Taken
  <1>2. ASSUME NEW j \in 1..Len(answers), j > 1
        PROVE  answers[j].job \notin Resolvers
    <2>1. j - 1 \in 1..Len(answers') /\ (j - 1) + 1 = j
      BY <1>1, <1>2
    <2>2. answers'[j - 1] = answers[j]
      BY <2>1 DEF Taken
    <2>3. QED  BY <2>1, <2>2 DEF Awaited
  <1>3. QED  BY <1>2 DEF HostInv, WordInv

\* An answer that submits nothing and leaves the stop of a model alone.
LEMMA AnsweredKeeps ==
    ASSUME HostInv, Taken(1), UNCHANGED <<jobs, running, connected, streaming, closing, closed,
                                          remoteStop, waitStop>>,
           modal' = modal \/ modal' # "guard", ShownInv'
    PROVE  HostInv'
  <1>1. Grown("poll")
    BY NothingGrown DEF HostInv
  <1>2. QED  BY <1>1, HandlerKeeps

LEMMA LoadedKeeps ==
    ASSUME HostInv, Loaded  PROVE HostInv'
  <1>1. Answer("load", TRUE) /\ state' \in {"LOADED", "EMPTY"}
    BY DEF Loaded
  <1>2. UNCHANGED <<jobs, closing, closed, remoteStop, waitStop, modal>>
    BY DEF Loaded, stopVars, closeVars
  <1>3. ~Awaited(Resolvers)' => ~connected'
    BY <1>1, AnsweredWell, LastWord
  <1>4. ShownInv'
    BY <1>1, <1>3 DEF ShownInv, Agrees
  <1>5. QED  BY <1>1, <1>2, <1>4, AnsweredWell, AnsweredKeeps

LEMMA ConnectedKeeps ==
    ASSUME HostInv, Connected  PROVE HostInv'
  <1>1. Answer("connect", TRUE)
    BY DEF Connected
  <1>2. UNCHANGED <<closing, closed, remoteStop, waitStop, modal>>
    BY DEF Connected, stopVars, closeVars
  <1>3. /\ Taken(1) /\ ~closed /\ UNCHANGED <<running, connected, streaming>>
        /\ ~Awaited(Resolvers)' => connected'
    BY <1>1, AnsweredWell, LastWord
  <1>4. CASE Started
    <2>1. Grown("start") /\ ShownInv'
      BY <1>2, <1>3, <1>4, StartedShown DEF HostInv
    <2>2. QED  BY <1>2, <1>3, <2>1, HandlerKeeps
  <1>5. CASE state' = "CONNECTED" /\ UNCHANGED jobs
    <2>1. ShownInv'
      BY <1>3, <1>5 DEF ShownInv, Agrees
    <2>2. QED  BY <1>2, <1>3, <1>5, <2>1, AnsweredKeeps
  <1>6. QED  BY <1>4, <1>5 DEF Connected

LEMMA DisconnectedKeeps ==
    ASSUME HostInv, Disconnected  PROVE HostInv'
  <1>1. Answer("offline", TRUE) /\ state' \in {"LOADED", "EMPTY"}
    BY DEF Disconnected, DisconnectedState
  <1>2. UNCHANGED <<jobs, closing, closed, remoteStop, waitStop, modal>>
    BY DEF Disconnected, stopVars, closeVars
  <1>3. ~Awaited(Resolvers)' => ~connected'
    BY <1>1, AnsweredWell, LastWord DEF Disconnects
  <1>4. ShownInv'
    BY <1>1, <1>3 DEF ShownInv, Agrees
  <1>5. QED  BY <1>1, <1>2, <1>4, AnsweredWell, AnsweredKeeps

LEMMA SwitchedKeeps ==
    ASSUME HostInv, NEW job \in {"switch", "switchResume"}, Switched(job)  PROVE HostInv'
  <1>1. Answer(job, TRUE) /\ job \in Disconnects
    BY DEF Switched, Disconnects
  <1>2. UNCHANGED <<closing, closed, remoteStop, waitStop>>
    BY DEF Switched, stopVars, closeVars
  <1>3. /\ Taken(1) /\ ~closed /\ UNCHANGED <<running, connected, streaming>>
        /\ ~Awaited(Resolvers)' => ~connected'
    BY <1>1, AnsweredWell, LastWord
  <1>4. CASE /\ ~remoteStop /\ ~closing
             /\ jobs' = Append(StopSubmitted("stop"), "connect") /\ UNCHANGED modal
    BY <1>2, <1>3, <1>4, ResolverSubmitted DEF Resolvers
  <1>5. CASE state' = "LOADED" /\ modal' \in {"none", "note"} /\ UNCHANGED jobs
    <2>1. ShownInv'
      BY <1>3, <1>5 DEF ShownInv, Agrees
    <2>2. modal' # "guard"
      BY <1>5
    <2>3. QED  BY <1>2, <1>3, <1>5, <2>1, <2>2, AnsweredKeeps
  <1>6. QED  BY <1>4, <1>5 DEF Switched

\* Of a stop of a model there is only the answer: what is left when it is taken.
LEMMA OnlyGuard ==
    ASSUME HostInv, Taken(1), 1 \in 1..Len(answers), answers[1].job = "guard", UNCHANGED jobs
    PROVE  /\ remoteStop /\ ~waitStop
           /\ \A i \in 1..Len(jobs') : jobs'[i] # "guard"
           /\ \A k \in 1..Len(answers') : answers'[k].job # "guard"
           /\ answers[1].ok => ~connected /\ \A i \in 1..Len(jobs') : jobs'[i] # "connect"
  <1>1. Len(answers) \in Nat /\ Len(answers') = Len(answers) - 1
    BY QueueFacts DEF HostInv, Taken
  <1>2. /\ remoteStop /\ ~waitStop
        /\ \A j \in 1..Len(answers) : answers[j].job = "guard" => j = 1
        /\ answers[1].ok => ~connected /\ \A i \in 1..Len(jobs) : jobs[i] # "connect"
    BY DEF HostInv, GuardInv
  <1>3. \A i \in 1..Len(jobs) : jobs[i] # "guard"
    BY DEF HostInv, GuardInv
  <1>4. ASSUME NEW k \in 1..Len(answers')
        PROVE  answers'[k].job # "guard"
    <2>1. k + 1 \in 1..Len(answers) /\ k + 1 # 1 /\ answers'[k] = answers[k + 1]
      BY <1>1 DEF Taken
    <2>2. QED  BY <1>2, <2>1
  <1>5. QED  BY <1>2, <1>3, <1>4

\* The state is told from the session, or the window is closing.
LEMMA UnguardedShown ==
    ASSUME Unguarded, UNCHANGED <<closing, connected>>
    PROVE  ShownInv' /\ ~remoteStop'
  <1>1. ~remoteStop'
    BY DEF Unguarded
  <1>2. CASE closing
    <2>1. closing'
      BY <1>2
    <2>2. QED  BY <1>1, <2>1 DEF ShownInv
  <1>3. CASE ~closing
    <2>1. state' = IF connected THEN "CONNECTED" ELSE DisconnectedState
      BY <1>3 DEF Unguarded
    <2>2. state' \in {"CONNECTED", "ACQUIRING"} <=> connected
      BY <2>1 DEF DisconnectedState
    <2>3. Agrees'
      BY <2>2 DEF Agrees
    <2>4. QED  BY <1>1, <2>3 DEF ShownInv
  <1>4. QED  BY <1>1, <1>2, <1>3

LEMMA GuardedKeeps ==
    ASSUME HostInv, Guarded  PROVE HostInv'
  <1>1. Answer("guard", TRUE)
    BY DEF Guarded
  <1>2. UNCHANGED <<jobs, closing, closed, modal>>
    BY DEF Guarded, closeVars
  <1>3. /\ Taken(1) /\ 1 \in 1..Len(answers) /\ answers[1].job = "guard" /\ answers[1].ok
        /\ modal = "none" /\ UNCHANGED <<running, connected, streaming>>
    BY <1>1, AnsweredWell
  <1>4. Grown("poll")
    BY <1>2, NothingGrown DEF HostInv
  <1>5. HostTyped' /\ StreamPoint' /\ CloseInv' /\ WordInv'
    BY <1>2, <1>3, <1>4, HandlerTyped, HandlerClose, HandlerWord DEF HostInv
  <1>6. /\ remoteStop /\ ~waitStop
        /\ \A i \in 1..Len(jobs') : jobs'[i] # "guard"
        /\ \A k \in 1..Len(answers') : answers'[k].job # "guard"
        /\ ~connected /\ \A i \in 1..Len(jobs') : jobs'[i] # "connect"
    BY <1>2, <1>3, OnlyGuard
  <1>7. GuardInv'
    <2>1. modal' # "guard" /\ ~connected'
      BY <1>2, <1>3, <1>6
    <2>2. waitStop' => remoteStop'
      BY <1>6 DEF Guarded
    <2>3. QED  BY <1>6, <2>1, <2>2 DEF GuardInv
  <1>8. ShownInv'
    <2>1. CASE UNCHANGED remoteStop
      BY <2>1, <1>6 DEF ShownInv
    <2>2. CASE Unguarded
      BY <2>2, <1>2, <1>3, UnguardedShown
    <2>3. QED  BY <2>1, <2>2 DEF Guarded
  <1>9. QED  BY <1>5, <1>7, <1>8 DEF HostInv

LEMMA DaqStartedKeeps ==
    ASSUME HostInv, DaqStarted  PROVE HostInv'
  <1>1. Answer("start", TRUE)
    BY DEF DaqStarted
  <1>2. UNCHANGED <<jobs, closing, closed, remoteStop, waitStop, modal, current>>
    BY DEF DaqStarted, stopVars, closeVars
  <1>3. /\ Taken(1) /\ Len(answers) \in Nat /\ 1 \in 1..Len(answers) /\ answers[1].job = "start"
        /\ UNCHANGED <<running, connected, streaming>>
        /\ ~Awaited(Resolvers)' => connected'
    BY <1>1, AnsweredWell, LastWord
  <1>4. Grown("poll")
    BY <1>2, NothingGrown DEF HostInv
  <1>5. ShownInv'
    <2>1. CASE closing
      BY <2>1, <1>2 DEF ShownInv
    <2>2. CASE current /\ LastStart /\ ~closing
      <3>1. state' = "ACQUIRING"
        BY <2>2 DEF DaqStarted
      <3>2. QED  BY <3>1, <1>3 DEF ShownInv, Agrees
    <2>3. CASE ~(current /\ LastStart) /\ ~closing
      <3>1. UNCHANGED state
        BY <2>3 DEF DaqStarted
      <3>2. "start" \notin Resolvers
        BY DEF Resolvers, Disconnects
      <3>3. /\ Awaited(Resolvers) => Awaited(Resolvers)'
            /\ Awaited({"stopSettle"}) => Awaited({"stopSettle"})'
        BY <1>3, <1>4, <3>2, StillAwaited DEF HostInv
      <3>4. current => Awaited({"start"})'
        <4>1. SUFFICES ASSUME current  PROVE Awaited({"start"})'
          OBVIOUS
        <4>2. CASE "start" \in Range(jobs)
          BY <4>2, <1>2, QueueFacts DEF HostInv, Awaited
        <4>3. CASE \E i \in 2..Len(answers) : answers[i].job = "start"
          <5>1. PICK i \in 2..Len(answers) : answers[i].job = "start"
            BY <4>3
          <5>2. i - 1 \in 1..Len(answers') /\ answers'[i - 1] = answers[i]
            <6>1. Len(answers') = Len(answers) - 1
              BY <1>3 DEF Taken
            <6>2. i - 1 \in 1..Len(answers') /\ (i - 1) + 1 = i
              BY <6>1, <1>3
            <6>3. QED  BY <6>2, <1>3 DEF Taken
          <5>3. QED  BY <5>1, <5>2 DEF Awaited
        <4>4. QED  BY <4>1, <4>2, <4>3, <2>3 DEF LastStart
      <3>5. QED  BY <1>2, <1>3, <3>1, <3>3, <3>4 DEF HostInv, ShownInv, Agrees
    <2>4. QED  BY <2>1, <2>2, <2>3
  <1>6. QED  BY <1>2, <1>3, <1>5, AnsweredKeeps

LEMMA DaqStoppedKeeps ==
    ASSUME HostInv, NEW job \in Stops, DaqStopped(job)  PROVE HostInv'
  <1>1. Answer(job, TRUE)
    BY DEF DaqStopped
  <1>2. UNCHANGED <<jobs, closing, closed, remoteStop, waitStop, modal, current>>
    BY DEF DaqStopped, stopVars, closeVars, observationVars
  <1>3. Taken(1) /\ answers[1].job = job /\ UNCHANGED <<running, connected, streaming>>
    BY <1>1, AnsweredWell
  <1>4. Grown("poll")
    BY <1>2, NothingGrown DEF HostInv
  <1>5. job \notin Resolvers /\ job # "start"
    BY DEF Stops, Resolvers, Disconnects
  <1>6. ShownInv'
    <2>1. CASE closing \/ remoteStop
      BY <2>1, <1>2 DEF ShownInv
    <2>2. CASE job = "stopSettle" /\ ~remoteStop /\ ~closing /\ state = "CONNECTING"
      <3>1. state' = IF connected THEN "CONNECTED" ELSE "LOADED"
        BY <2>2 DEF DaqStopped
      <3>2. QED  BY <3>1, <1>3 DEF ShownInv, Agrees
    <2>3. CASE ~(job = "stopSettle" /\ state = "CONNECTING") /\ ~remoteStop /\ ~closing
      <3>1. UNCHANGED state
        BY <2>3 DEF DaqStopped
      <3>2. /\ Awaited(Resolvers) => Awaited(Resolvers)'
            /\ Awaited({"start"}) => Awaited({"start"})'
            /\ job # "stopSettle" /\ Awaited({"stopSettle"}) => Awaited({"stopSettle"})'
        BY <1>3, <1>4, <1>5, StillAwaited DEF HostInv
      <3>3. QED  BY <1>2, <1>3, <2>3, <3>1, <3>2 DEF HostInv, ShownInv, Agrees
    <2>4. QED  BY <2>1, <2>2, <2>3
  <1>7. QED  BY <1>2, <1>3, <1>6, AnsweredKeeps

\* A poll, or a calibration, has ended well.
LEMMA OtherAnswered ==
    ASSUME HostInv, NEW job \in {"poll", "calibrate"}, Answer(job, TRUE),
           UNCHANGED <<jobs, closing, closed, remoteStop, waitStop, modal, state, current>>
    PROVE  HostInv'
  <1>1. Taken(1) /\ answers[1].job = job /\ UNCHANGED <<running, connected, streaming>>
    BY AnsweredWell
  <1>2. Grown("poll")
    BY NothingGrown DEF HostInv
  <1>3. job \notin Resolvers \cup {"stopSettle", "start"}
    BY DEF Resolvers, Disconnects
  <1>4. ShownInv'
    BY <1>1, <1>2, <1>3, HandlerShown DEF HostInv
  <1>5. QED  BY <1>1, <1>4, AnsweredKeeps

LEMMA PollSucceededKeeps ==
    ASSUME HostInv, PollSucceeded  PROVE HostInv'
  <1>1. /\ Answer("poll", TRUE)
        /\ UNCHANGED <<jobs, closing, closed, remoteStop, waitStop, modal, state, current>>
    BY DEF PollSucceeded, stopVars, closeVars
  <1>2. QED  BY <1>1, OtherAnswered

LEMMA CalibratedKeeps ==
    ASSUME HostInv, Calibrated  PROVE HostInv'
  <1>1. /\ Answer("calibrate", TRUE)
        /\ UNCHANGED <<jobs, closing, closed, remoteStop, waitStop, modal, state, current>>
    BY DEF Calibrated, stopVars, closeVars, observationVars
  <1>2. QED  BY <1>1, OtherAnswered

LEMMA PollFailedKeeps ==
    ASSUME HostInv, PollFailed  PROVE HostInv'
  <1>1. Answer("poll", FALSE) /\ jobs' = StopSubmitted("stopSettle") /\ modal' = "note"
    BY DEF PollFailed
  <1>2. UNCHANGED <<closing, closed, remoteStop, waitStop>>
    BY DEF PollFailed, stopVars, closeVars
  <1>3. Taken(1) /\ UNCHANGED <<running, connected, streaming>>
    BY <1>1, AnsweredBadly
  <1>4. Grown("stopSettle")
    BY <1>1, StopGrown DEF HostInv, Stops
  <1>5. ShownInv'
    <2>1. state' = IF connected THEN "CONNECTED" ELSE "ERROR"
      BY DEF PollFailed
    <2>2. QED  BY <2>1, <1>3 DEF ShownInv, Agrees
  <1>6. QED  BY <1>1, <1>2, <1>3, <1>4, <1>5, HandlerKeeps

LEMMA OperationFailedKeeps ==
    ASSUME HostInv, NEW job \in Jobs \ {"poll", "cleanup"}, OperationFailed(job)
    PROVE  HostInv'
  <1>1. Answer(job, FALSE) /\ modal' = job
    BY DEF OperationFailed
  <1>2. UNCHANGED <<jobs, closing, closed, remoteStop, waitStop>>
    BY DEF OperationFailed, stopVars, closeVars
  <1>3. /\ Taken(1) /\ 1 \in 1..Len(answers) /\ answers[1].job = job
        /\ UNCHANGED <<running, connected, streaming>>
    BY <1>1, AnsweredBadly
  <1>4. ShownInv'
    <2>1. CASE connected
      <3>1. state' \in {"CONNECTED", "ACQUIRING"}
        BY <2>1 DEF OperationFailed
      <3>2. QED  BY <2>1, <3>1, <1>3 DEF ShownInv, Agrees
    <2>2. CASE ~connected
      <3>1. state' \in {"LOADED", "EMPTY", "ERROR"}
        BY <2>2 DEF OperationFailed, DisconnectedState
      <3>2. QED  BY <2>2, <3>1, <1>3 DEF ShownInv, Agrees
    <2>3. QED  BY <2>1, <2>2
  <1>5. CASE job # "guard"
    BY <1>1, <1>2, <1>3, <1>4, <1>5, AnsweredKeeps
  <1>6. CASE job = "guard"
    <2>1. Grown("poll")
      BY <1>2, NothingGrown DEF HostInv
    <2>2. HostTyped' /\ StreamPoint' /\ CloseInv' /\ WordInv'
      BY <1>2, <1>3, <2>1, HandlerTyped, HandlerClose, HandlerWord DEF HostInv
    <2>3. /\ remoteStop /\ ~waitStop
          /\ \A i \in 1..Len(jobs') : jobs'[i] # "guard"
          /\ \A k \in 1..Len(answers') : answers'[k].job # "guard"
      BY <1>2, <1>3, <1>6, OnlyGuard
    <2>4. GuardInv'
      BY <2>3, <1>2 DEF GuardInv
    <2>5. QED  BY <2>2, <2>4, <1>4 DEF HostInv
  <1>7. QED  BY <1>5, <1>6

\* The answer of the cleanup is the last thing there is.
LEMMA OnlyCleanup ==
    ASSUME HostInv, Taken(1), 1 \in 1..Len(answers), answers[1].job = "cleanup", UNCHANGED jobs
    PROVE  /\ closing /\ ~closed /\ jobs' = <<>> /\ Len(jobs') = 0
           /\ answers' = <<>> /\ Len(answers') = 0
           /\ answers[1].ok => ~connected
  <1>1. closing /\ ~closed /\ jobs = <<>> /\ Len(answers) = 1 /\ (answers[1].ok => ~connected)
    BY DEF HostInv, CloseInv
  <1>2. Len(answers') = 0
    BY <1>1 DEF Taken
  <1>3. QED  BY <1>1, <1>2, EmptySeq DEF Taken

LEMMA FinishCloseKeeps ==
    ASSUME HostInv, FinishClose  PROVE HostInv'
  <1>1. Answer("cleanup", TRUE) /\ closed'
    BY DEF FinishClose
  <1>2. UNCHANGED <<jobs, closing, remoteStop, waitStop, modal>>
    BY DEF FinishClose, stopVars
  <1>3. /\ Taken(1) /\ 1 \in 1..Len(answers) /\ answers[1].job = "cleanup" /\ answers[1].ok
        /\ UNCHANGED <<running, connected, streaming>>
    BY <1>1, AnsweredWell
  <1>4. Grown("poll")
    BY <1>2, NothingGrown DEF HostInv
  <1>5. closing /\ jobs' = <<>> /\ Len(jobs') = 0 /\ answers' = <<>> /\ Len(answers') = 0 /\ ~connected
    BY <1>2, <1>3, OnlyCleanup
  <1>6. HostTyped' /\ StreamPoint' /\ GuardInv' /\ WordInv'
    BY <1>2, <1>3, <1>4, HandlerTyped, HandlerGuard, HandlerWord DEF HostInv
  <1>7. CloseInv'
    <2>1. closing' /\ ~connected'
      BY <1>2, <1>3, <1>5
    <2>2. QED  BY <2>1, <1>5 DEF CloseInv
  <1>8. ShownInv'
    <2>1. closing'
      BY <1>2, <1>5
    <2>2. QED  BY <2>1 DEF ShownInv
  <1>9. QED  BY <1>6, <1>7, <1>8 DEF HostInv

LEMMA CloseFailedKeeps ==
    ASSUME HostInv, CloseFailed  PROVE HostInv'
  <1>1. /\ Answer("cleanup", FALSE) /\ modal' = "note"
        /\ state' = IF connected THEN "CONNECTED" ELSE "ERROR"
    BY DEF CloseFailed
  <1>2. UNCHANGED <<jobs, closed, remoteStop, waitStop>>
    BY DEF CloseFailed, stopVars
  <1>3. /\ Taken(1) /\ 1 \in 1..Len(answers) /\ answers[1].job = "cleanup"
        /\ UNCHANGED <<running, connected, streaming>>
    BY <1>1, AnsweredBadly
  <1>4. Grown("poll")
    BY <1>2, NothingGrown DEF HostInv
  <1>5. ~closed /\ jobs' = <<>> /\ Len(jobs') = 0 /\ answers' = <<>> /\ Len(answers') = 0
    BY <1>2, <1>3, OnlyCleanup
  <1>6. HostTyped' /\ StreamPoint' /\ GuardInv' /\ WordInv'
    <2>1. modal' # "guard"
      BY <1>1
    <2>2. QED  BY <2>1, <1>2, <1>3, <1>4, HandlerTyped, HandlerGuard, HandlerWord DEF HostInv
  <1>7. CloseInv'
    BY <1>2, <1>5 DEF CloseInv
  <1>8. ShownInv'
    BY <1>1, <1>3 DEF ShownInv, Agrees
  <1>9. QED  BY <1>6, <1>7, <1>8 DEF HostInv

LEMMA DrainEndsKeeps ==
    ASSUME HostInv, DrainEnds  PROVE HostInv'
  <1>1. UNCHANGED <<jobs, answers, running, connected, streaming, closing, closed, remoteStop,
                    waitStop, modal, state, current>>
    BY DEF DrainEnds, workerVars, sessionVars, stopVars, closeVars, observationVars
  <1>2. QED  BY <1>1 DEF HostInv, HostTyped, StreamPoint, CloseInv, GuardInv, WordInv, ShownInv,
                         Awaited, Agrees, Resolvers, Answers, Jobs

-----------------------------------------------------------------------------
(* The dialogs and the timers.                                             *)

\* The queues and the session are left alone.
LEMMA StillKeeps ==
    ASSUME HostInv, UNCHANGED <<jobs, answers, running, connected, streaming, closing, closed,
                                remoteStop, waitStop>>,
           modal' = modal \/ modal' # "guard", ShownInv'
    PROVE  HostInv'
  <1>1. Grown("poll") /\ Taken(0)
    BY NothingGrown, NothingTaken DEF HostInv
  <1>2. QED  BY <1>1, HandlerKeeps

LEMMA StillShown ==
    ASSUME HostInv, UNCHANGED <<jobs, answers, connected, closing, remoteStop, state, current>>
    PROVE  ShownInv'
  <1>1. Grown("poll") /\ Taken(0)
    BY NothingGrown, NothingTaken DEF HostInv
  <1>2. QED  BY <1>1, HandlerShown DEF HostInv

LEMMA DismissOtherKeeps ==
    ASSUME HostInv, NEW job, DismissOther(job)  PROVE HostInv'
  <1>1. /\ modal' = "none"
        /\ UNCHANGED <<jobs, answers, running, connected, streaming, closing, closed, remoteStop,
                       waitStop, state, current>>
    BY DEF DismissOther, Dismiss, workerVars, sessionVars, stopVars, closeVars, observationVars
  <1>2. QED  BY <1>1, StillShown, StillKeeps

LEMMA DismissStartKeeps ==
    ASSUME HostInv, DismissStart  PROVE HostInv'
  <1>1. /\ modal' = "none"
        /\ UNCHANGED <<jobs, answers, running, connected, streaming, closing, closed, remoteStop,
                       waitStop, current>>
    BY DEF DismissStart, Dismiss, workerVars, sessionVars, stopVars, closeVars
  <1>2. ShownInv'
    <2>1. CASE UNCHANGED state
      BY <1>1, <2>1, StillShown
    <2>2. CASE streaming /\ state' = "ACQUIRING"
      <3>1. connected'
        BY <2>2, <1>1 DEF HostInv, HostTyped
      <3>2. QED  BY <2>2, <3>1 DEF ShownInv, Agrees
    <2>3. QED  BY <2>1, <2>2 DEF DismissStart
  <1>3. QED  BY <1>1, <1>2, StillKeeps

LEMMA DismissStopKeeps ==
    ASSUME HostInv, NEW job \in Stops, DismissStop(job)  PROVE HostInv'
  <1>1. /\ modal' = "none"
        /\ UNCHANGED <<jobs, answers, running, connected, streaming, closing, closed, remoteStop,
                       waitStop, current>>
    BY DEF DismissStop, Dismiss, workerVars, sessionVars, stopVars, closeVars
  <1>2. ShownInv'
    <2>1. CASE UNCHANGED state
      BY <1>1, <2>1, StillShown
    <2>2. CASE streaming /\ state' = "ACQUIRING"
      <3>1. connected'
        BY <2>2, <1>1 DEF HostInv, HostTyped
      <3>2. QED  BY <2>2, <3>1 DEF ShownInv, Agrees
    <2>3. QED  BY <2>1, <2>2 DEF DismissStop
  <1>3. QED  BY <1>1, <1>2, StillKeeps

\* A stop of a model has ended, and nothing of it is left.
LEMMA GuardEnds ==
    ASSUME HostInv, UNCHANGED <<jobs, answers, running, connected, streaming, closing, closed>>,
           modal = "guard" \/ waitStop, modal' # "guard", ~waitStop', ShownInv'
    PROVE  HostInv'
  <1>1. Grown("poll") /\ Taken(0)
    BY NothingGrown, NothingTaken DEF HostInv
  <1>2. HostTyped' /\ StreamPoint' /\ CloseInv' /\ WordInv'
    BY <1>1, HandlerTyped, HandlerClose, HandlerWord DEF HostInv
  <1>3. /\ \A i \in 1..Len(jobs) : jobs[i] # "guard"
        /\ \A k \in 1..Len(answers) : answers[k].job # "guard"
    BY DEF HostInv, GuardInv
  <1>4. GuardInv'
    BY <1>3 DEF GuardInv
  <1>5. QED  BY <1>2, <1>4 DEF HostInv

LEMMA DismissGuardKeeps ==
    ASSUME HostInv, DismissGuard  PROVE HostInv'
  <1>1. modal = "guard" /\ modal' # "guard" /\ Unguarded
    BY DEF DismissGuard, Dismiss
  <1>2. UNCHANGED <<jobs, answers, running, connected, streaming, closing, closed, waitStop>>
    BY DEF DismissGuard, workerVars, sessionVars, closeVars
  <1>3. ~waitStop'
    BY <1>1, <1>2 DEF HostInv, GuardInv
  <1>4. QED  BY <1>1, <1>2, <1>3, UnguardedShown, GuardEnds

LEMMA WaitForStopKeeps ==
    ASSUME HostInv, WaitForStop  PROVE HostInv'
  <1>1. waitStop /\ ~waitStop'
    BY DEF WaitForStop
  <1>2. UNCHANGED <<jobs, answers, running, connected, streaming, closing, closed, modal>>
    BY DEF WaitForStop, workerVars, sessionVars, closeVars
  <1>3. modal' # "guard"
    BY <1>1, <1>2 DEF HostInv, GuardInv
  <1>4. ShownInv'
    <2>1. CASE closing
      <3>1. closing'
        BY <2>1, <1>2
      <3>2. QED  BY <3>1 DEF ShownInv
    <2>2. CASE ~closing
      BY <2>2, <1>2, UnguardedShown DEF WaitForStop
    <2>3. QED  BY <2>1, <2>2
  <1>5. QED  BY <1>1, <1>2, <1>3, <1>4, GuardEnds

LEMMA PollOnceKeeps ==
    ASSUME HostInv, PollOnce  PROVE HostInv'
  <1>1. UNCHANGED <<answers, running, connected, streaming, closing, closed, remoteStop, waitStop,
                    modal, state, current>>
    BY DEF PollOnce, sessionVars, stopVars, closeVars
  <1>2. Grown("poll")
    <2>1. CASE UNCHANGED jobs
      BY <2>1, NothingGrown DEF HostInv
    <2>2. CASE ~closing /\ ~closed /\ jobs' = Append(jobs, "poll")
      <3>1. "poll" \in Jobs
        BY DEF Jobs
      <3>2. QED  BY <2>2, <3>1, AppendGrown DEF HostInv
    <2>3. QED  BY <2>1, <2>2 DEF PollOnce, TimersRun
  <1>3. Taken(0)
    BY <1>1, NothingTaken DEF HostInv
  <1>4. ShownInv'
    BY <1>1, <1>2, <1>3, HandlerShown DEF HostInv
  <1>5. QED  BY <1>1, <1>2, <1>3, <1>4, HandlerKeeps

-----------------------------------------------------------------------------
(* The invariant, and what follows from it.                                *)

LEMMA InitHost ==
    ASSUME Init  PROVE HostInv
  <1>1. /\ jobs = <<>> /\ answers = <<>> /\ running = "no" /\ ~streaming /\ ~connected
        /\ modal = "none" /\ ~remoteStop /\ ~waitStop /\ ~closing /\ ~closed /\ state = "EMPTY"
    BY DEF Init
  <1>2. Len(jobs) = 0 /\ Len(answers) = 0 /\ jobs \in Seq(Jobs) /\ answers \in Seq(Answers)
    BY <1>1, EmptySeq
  <1>3. HostTyped /\ StreamPoint
    BY <1>1, <1>2 DEF HostTyped, StreamPoint
  <1>4. CloseInv /\ GuardInv /\ WordInv
    BY <1>1, <1>2 DEF CloseInv, GuardInv, WordInv
  <1>5. ShownInv
    BY <1>1 DEF ShownInv, Agrees
  <1>6. QED  BY <1>3, <1>4, <1>5 DEF HostInv

LEMMA HostStep ==
    ASSUME HostInv, [Next]_vars  PROVE HostInv'
  <1>1. CASE User
    BY <1>1, LoadKeeps, ConnectKeeps, DisconnectKeeps, CommitTargetHostKeeps, StartObservationKeeps,
       StopObservationKeeps, CalibrateKeeps, StopModelKeeps, RequestCloseKeeps DEF User
  <1>2. CASE Worker
    BY <1>2, BeginKeeps, StreamStoppedKeeps, FinishKeeps DEF Worker
  <1>3. CASE Drain
    BY <1>3, DrainEndsKeeps, LoadedKeeps, ConnectedKeeps, DisconnectedKeeps, GuardedKeeps,
       DaqStartedKeeps, SwitchedKeeps, DaqStoppedKeeps, PollSucceededKeeps, PollFailedKeeps,
       CalibratedKeeps, OperationFailedKeeps, FinishCloseKeeps, CloseFailedKeeps DEF Drain
  <1>4. CASE Dismissal
    BY <1>4, DismissGuardKeeps, DismissStartKeeps, DismissStopKeeps, DismissOtherKeeps DEF Dismissal
  <1>5. CASE PollOnce \/ WaitForStop
    BY <1>5, PollOnceKeeps, WaitForStopKeeps
  <1>6. CASE UNCHANGED vars
    <2>1. UNCHANGED <<jobs, answers, running, connected, streaming, closing, closed, remoteStop,
                      waitStop, modal, state, current>>
      BY <1>6 DEF vars, workerVars, sessionVars, stopVars, closeVars, observationVars
    <2>2. QED  BY <2>1, StillShown, StillKeeps
  <1>7. QED  BY <1>1, <1>2, <1>3, <1>4, <1>5, <1>6 DEF Next

\* The invariant holds in every run, for every bound on what is pending and whether
\* or not the restore of the calibrations may fail (_submit, _drain_ui_queue,
\* _operation_failed, _with_xcp_disconnected, request_close).
THEOREM HostInvariant == Spec => []HostInv
  <1>1. HostInv /\ [Next]_vars => HostInv'
    BY HostStep
  <1>2. Init => HostInv
    BY InitHost
  <1>3. QED  BY <1>1, <1>2, PTL DEF Spec

\* When nothing is under way the state shown agrees with the session: the last
\* answer about the connection tells the truth, and every failure is shown as the
\* session is when it is handled (_operation_failed, _close_failed, finish).
THEOREM ShownAlwaysTrue == Spec => []ShownIsTrue
  <1>1. HostInv => ShownIsTrue
    <2>1. SUFFICES ASSUME HostInv, Quiet
                   PROVE  state \in {"CONNECTED", "ACQUIRING"} <=> connected
      BY DEF ShownIsTrue
    <2>2. Len(jobs) = 0 /\ Len(answers) = 0 /\ ~remoteStop /\ ~closing
      BY <2>1, EmptySeq DEF Quiet
    <2>3. \A S : ~Awaited(S)
      BY <2>2 DEF Awaited
    <2>4. QED  BY <2>1, <2>2, <2>3 DEF HostInv, ShownInv, Agrees
  <1>2. QED  BY <1>1, HostInvariant, PTL

\* While a model is being stopped XCP is disconnected, and nothing submitted will
\* connect it again: the stop is in one place at a time, and a connect is refused as
\* long as it lasts (_with_xcp_disconnected, _connect).
THEOREM ModelsStopOffline == Spec => []ModelStopsOffline
  <1>1. HostInv => ModelStopsOffline
    <2>1. SUFFICES ASSUME HostInv, waitStop
                   PROVE  ~connected /\ "connect" \notin Range(jobs)
      BY DEF ModelStopsOffline
    <2>2. ~connected /\ \A i \in 1..Len(jobs) : jobs[i] # "connect"
      BY <2>1 DEF HostInv, GuardInv
    <2>3. QED  BY <2>1, <2>2, QueueFacts DEF HostInv
  <1>2. QED  BY <1>1, HostInvariant, PTL

\* A window that is closed has disconnected, with its stream stopped, and no job is
\* left that could connect again: the cleanup is the last job there is and the window
\* closes on its success only (request_close, _submit).
THEOREM WindowsCloseClean == Spec => []ClosedIsClean
  <1>1. HostInv => ClosedIsClean
    BY DEF HostInv, HostTyped, CloseInv, ClosedIsClean
  <1>2. QED  BY <1>1, HostInvariant, PTL
=============================================================================
