-------------------------- MODULE KeyExecutorProofs --------------------------
(***************************************************************************)
(* Theorems about KeyExecutor: its types, that it implements KeyStream, and *)
(* what it leaves behind when it has nothing to do.                         *)
(***************************************************************************)
EXTENDS KeyExecutor, SequenceTheorems, TLAPS

-----------------------------------------------------------------------------
(* Types *)

\* A request has one of three types, and only a release names no key.
LEMMA RequestFacts ==
  ASSUME NEW r \in Request
  PROVE  /\ r.type \in {"press", "tap", "release"}
         /\ r.key \in Key \cup {NoKey}
         /\ r.type # "release" => r.key \in Key
         /\ r.type = "release" => r.key = NoKey
         /\ r # NoJob
  BY JobAssumption, KeyAssumption DEF Request, Press, Tap, Release

LEMMA CallTyped ==
  ASSUME TypeOK, NEW c \in Caller, NEW r \in Request, Call(c, r)
  PROVE  TypeOK'
  <1>1. calls' \in Nat
    BY DEF TypeOK, Call
  <1>2. posting' \in [Caller -> Request \cup {NoJob}]
    BY DEF TypeOK, Call
  <1>3. currentlyPressedKeys' \subseteq Key
    BY RequestFacts DEF TypeOK, Call
  <1>4. UNCHANGED <<queue, job, step, down, last, faults>>
    BY DEF Call
  <1>5. QED
    BY <1>1, <1>2, <1>3, <1>4 DEF TypeOK

LEMMA ExecuteTyped ==
  ASSUME TypeOK, NEW c \in Caller, Execute(c)
  PROVE  TypeOK'
  <1>1. posting[c] \in Request
    BY DEF TypeOK, Execute
  <1>2. queue' \in Seq(Request)
    BY <1>1 DEF TypeOK, Execute, PostLast
  <1>3. QED
    BY <1>1, <1>2 DEF TypeOK, Execute

LEMMA TakeTyped ==
  ASSUME TypeOK, Take
  PROVE  TypeOK'
  <1>1. job' \in Request /\ queue' \in Seq(Request)
    BY HeadTailProperties DEF TypeOK, Take
  <1>2. step' = "write" /\ job' # NoJob
    BY <1>1, RequestFacts DEF Take
  <1>3. UNCHANGED <<posting, currentlyPressedKeys, down, last, calls, faults>>
    BY DEF Take
  <1>4. QED
    BY <1>1, <1>2, <1>3 DEF TypeOK, Step

LEMMA WriteTyped ==
  ASSUME TypeOK, Write
  PROVE  TypeOK'
  <1>1. step = "write" /\ job \in Request
    BY DEF TypeOK, Write, At
  <1>2. job.type \in {"press", "tap", "release"} /\ job.key \in Key \cup {NoKey} /\ job # NoJob
    BY <1>1, RequestFacts
  <1>3. faults' \in Nat /\ down' \in Key \cup {NoKey}
    BY <1>2 DEF TypeOK, Write
  <1>4. /\ job' \in Request \cup {NoJob}
        /\ step' \in Step
        /\ (step' = "idle") = (job' = NoJob)
        /\ step' = "sleep" => job'.type = "tap"
        /\ step' = "unmark" => job'.type # "press"
    BY <1>1, <1>2 DEF Write, Step
  <1>5. UNCHANGED <<posting, queue, currentlyPressedKeys, last, calls>>
    BY DEF Write
  <1>6. QED
    BY <1>3, <1>4, <1>5 DEF TypeOK

LEMMA WriteReleaseTyped ==
  ASSUME TypeOK, WriteRelease
  PROVE  TypeOK'
  <1>1. step = "sleep" /\ job.type = "tap" /\ job # NoJob
    BY DEF TypeOK, WriteRelease, At
  <1>2. faults' \in Nat /\ down' \in Key \cup {NoKey} /\ step' = "unmark"
    BY DEF TypeOK, WriteRelease, TapRelease
  <1>3. UNCHANGED <<posting, queue, job, currentlyPressedKeys, last, calls>>
    BY DEF WriteRelease
  <1>4. QED
    BY <1>1, <1>2, <1>3 DEF TypeOK, Step

LEMMA UnmarkTyped ==
  ASSUME TypeOK, Unmark
  PROVE  TypeOK'
  <1>1. currentlyPressedKeys' \subseteq Key
    BY DEF TypeOK, Unmark, MarksLeft
  <1>2. job' = NoJob /\ step' = "idle"
    BY DEF Unmark, Done
  <1>3. UNCHANGED <<posting, queue, down, last, calls, faults>>
    BY DEF Unmark
  <1>4. QED
    BY <1>1, <1>2, <1>3 DEF TypeOK, Step

LEMMA InitTyped == Init => TypeOK
  <1> SUFFICES ASSUME Init PROVE TypeOK
    OBVIOUS
  <1>1. posting \in [Caller -> Request \cup {NoJob}] /\ queue \in Seq(Request)
    BY DEF Init
  <1>2. /\ job \in Request \cup {NoJob}
        /\ step \in Step
        /\ (step = "idle") = (job = NoJob)
        /\ step = "sleep" => job.type = "tap"
        /\ step = "unmark" => job.type # "press"
    BY DEF Init, Step
  <1>3. /\ currentlyPressedKeys \subseteq Key
        /\ down \in Key \cup {NoKey}
        /\ last \in Request \cup {NoJob}
    BY DEF Init
  <1>4. calls \in Nat /\ faults \in Nat
    BY DEF Init
  <1>5. QED
    BY <1>1, <1>2, <1>3, <1>4 DEF TypeOK

LEMMA NextTyped == TypeOK /\ [Next]_vars => TypeOK'
  <1> SUFFICES ASSUME TypeOK, [Next]_vars PROVE TypeOK'
    OBVIOUS
  <1>1. CASE \E c \in Caller : (\E r \in Request : Call(c, r)) \/ Execute(c)
    BY <1>1, CallTyped, ExecuteTyped
  <1>2. CASE Worker
    BY <1>2, TakeTyped, WriteTyped, WriteReleaseTyped, UnmarkTyped DEF Worker
  <1>3. CASE UNCHANGED vars
    BY <1>3 DEF vars, TypeOK
  <1>4. QED
    BY <1>1, <1>2, <1>3 DEF Next

\* Every variable keeps its type, and the step of the thread of the executor
\* fits the job it runs.
THEOREM ExecutorTyped == Spec => []TypeOK
  BY InitTyped, NextTyped, PTL DEF Spec

-----------------------------------------------------------------------------
(* The executor implements KeyStream *)

\* What a request in front of a queue is to Head and Tail.
LEMMA InFront ==
  ASSUME NEW S, NEW x \in S, NEW s \in Seq(S)
  PROVE  /\ <<x>> \o s # <<>>
         /\ Head(<<x>> \o s) = x
         /\ Tail(<<x>> \o s) = s
  <1>1. <<x>> \o s \in Seq(S) /\ Len(<<x>> \o s) = 1 + Len(s) /\ (<<x>> \o s)[1] = x
    OBVIOUS
  <1>2. Tail(<<x>> \o s) \in Seq(S) /\ Len(Tail(<<x>> \o s)) = Len(s)
    BY <1>1
  <1>3. \A i \in 1 .. Len(s) : Tail(<<x>> \o s)[i] = s[i]
    BY <1>1
  <1>4. QED
    BY <1>1, <1>2, <1>3

LEMMA ReleaseIsRequest == Release \in Request /\ Release.type = "release" /\ Release.key = NoKey
  BY DEF Release, Request

LEMMA SameRequests ==
  /\ KeyStream!Request = Request
  /\ KeyStream!Release = Release
  BY DEF KeyStream!Request, KeyStream!Release, KeyStream!Press, KeyStream!Tap,
         Request, Release, Press, Tap

\* What remains to be sent in each step of the thread.
LEMMA RemainingByStep ==
  ASSUME TypeOK
  PROVE  /\ step \in {"idle", "unmark"} => Remaining = queue
         /\ step = "write" => Remaining = <<job>> \o queue
         /\ step = "sleep" => Remaining = <<Release>> \o queue
  <1>1. <<>> \o queue = queue
    BY DEF TypeOK
  <1>2. QED
    BY <1>1 DEF Remaining

LEMMA ExecuteIsPost ==
  ASSUME TypeOK, NEW c \in Caller, Execute(c)
  PROVE  KeyStream!Post(posting[c]) /\ posting[c] \in KeyStream!Request
  <1>1. posting[c] \in Request /\ queue' = Append(queue, posting[c])
    BY DEF TypeOK, Execute, PostLast
  <1>2. UNCHANGED <<job, step, down, faults>>
    BY DEF Execute
  <1>3. queue \in Seq(Request) /\ (step = "write" => job \in Request)
    BY DEF TypeOK
  <1>4. Remaining' = Append(Remaining, posting[c])
    <2>1. TypeOK'
      BY ExecuteTyped
    <2>2. CASE step \in {"idle", "unmark"}
      BY <2>2, <1>1, <1>2, <1>3 DEF Remaining
    <2>3. CASE step = "write"
      <3>1. Remaining = <<job>> \o queue /\ Remaining' = <<job>> \o queue'
        BY <2>3, <1>2 DEF Remaining
      <3>2. job \in Request
        BY <1>3, <2>3
      <3>3. <<job>> \o Append(queue, posting[c]) = Append(<<job>> \o queue, posting[c])
        BY <3>2, <1>1, <1>3
      <3>4. QED
        BY <3>1, <3>3, <1>1
    <2>4. CASE step = "sleep"
      <3>1. Remaining = <<Release>> \o queue /\ Remaining' = <<Release>> \o queue'
        BY <2>4, <1>2 DEF Remaining
      <3>2. <<Release>> \o Append(queue, posting[c]) = Append(<<Release>> \o queue, posting[c])
        BY ReleaseIsRequest, <1>1, <1>3
      <3>3. QED
        BY <3>1, <3>2, <1>1
    <2>5. QED
      BY <2>2, <2>3, <2>4 DEF TypeOK, Step
  <1>5. QED
    BY <1>1, <1>2, <1>4, SameRequests DEF KeyStream!Post

LEMMA TakeIsStutter ==
  ASSUME TypeOK, Take
  PROVE  UNCHANGED KeyStream!vars
  <1>1. queue = <<Head(queue)>> \o Tail(queue)
    BY DEF TypeOK, Take
  <1>2. Remaining = queue
    BY RemainingByStep DEF Take, At
  <1>3. Remaining' = <<job'>> \o queue'
    BY DEF Take, Remaining
  <1>4. QED
    BY <1>1, <1>2, <1>3 DEF Take, KeyStream!vars

LEMMA WriteIsSend ==
  ASSUME TypeOK, Write
  PROVE  KeyStream!Next
  <1>1. step = "write" /\ job \in Request /\ queue \in Seq(Request)
    BY DEF TypeOK, Write, At
  <1>2. /\ Remaining # <<>>
        /\ Head(Remaining) = job
        /\ Tail(Remaining) = queue
    BY <1>1, RemainingByStep, InFront
  <1>3. queue' = queue /\ TypeOK'
    BY WriteTyped DEF Write
  <1>4. job.type \in {"press", "tap", "release"}
    BY <1>1, RequestFacts
  <1>5. CASE down' = job.key /\ faults' = faults /\ job.type = "tap" /\ step' = "sleep"
    <2>1. Remaining' = <<Release>> \o queue
      BY <1>3, <1>5 DEF Remaining
    <2>2. KeyStream!SendTap
      BY <2>1, <1>2, <1>5, SameRequests DEF KeyStream!SendTap
    <2>3. QED
      BY <2>2 DEF KeyStream!Next
  <1>6. CASE down' = job.key /\ faults' = faults /\ job.type # "tap" /\ step' \in {"idle", "unmark"}
    <2>1. Remaining' = <<>> \o queue
      BY <1>3, <1>6 DEF Remaining
    <2>2. KeyStream!Send
      BY <2>1, <1>1, <1>2, <1>6 DEF KeyStream!Send
    <2>3. QED
      BY <2>2 DEF KeyStream!Next
  <1>7. CASE down' = down /\ faults' = faults + 1 /\ step' \in {"idle", "unmark"}
    <2>1. Remaining' = <<>> \o queue
      BY <1>3, <1>7 DEF Remaining
    <2>2. KeyStream!Lose
      BY <2>1, <1>1, <1>2, <1>7 DEF KeyStream!Lose
    <2>3. QED
      BY <2>2 DEF KeyStream!Next
  <1>8. QED
    BY <1>4, <1>5, <1>6, <1>7 DEF Write

LEMMA WriteReleaseIsSend ==
  ASSUME TypeOK, WriteRelease
  PROVE  KeyStream!Next
  <1>1. step = "sleep" /\ queue \in Seq(Request)
    BY DEF TypeOK, WriteRelease, At
  <1>2. /\ Remaining # <<>>
        /\ Head(Remaining) = Release
        /\ Tail(Remaining) = queue
    BY <1>1, RemainingByStep, InFront, ReleaseIsRequest
  <1>3. Remaining' = <<>> \o queue
    BY DEF WriteRelease, Remaining
  <1>4. Remaining' = queue
    BY <1>1, <1>3
  <1>5. CASE TapRelease /\ UNCHANGED faults
    <2>1. KeyStream!Send
      BY <1>2, <1>4, <1>5, ReleaseIsRequest DEF KeyStream!Send, TapRelease
    <2>2. QED
      BY <2>1 DEF KeyStream!Next
  <1>6. CASE faults' = faults + 1 /\ UNCHANGED down
    <2>1. KeyStream!Lose
      BY <1>2, <1>4, <1>6 DEF KeyStream!Lose
    <2>2. QED
      BY <2>1 DEF KeyStream!Next
  <1>7. QED
    BY <1>5, <1>6 DEF WriteRelease

LEMMA UnmarkIsStutter ==
  ASSUME TypeOK, Unmark
  PROVE  UNCHANGED KeyStream!vars
  BY DEF Unmark, At, Done, Remaining, KeyStream!vars

LEMMA RemainingKept ==
  ASSUME UNCHANGED <<queue, job, step, down, faults>>
  PROVE  UNCHANGED KeyStream!vars
  BY DEF Remaining, KeyStream!vars

LEMMA NextRefines == TypeOK /\ [Next]_vars => [KeyStream!Next]_(KeyStream!vars)
  <1> SUFFICES ASSUME TypeOK, [Next]_vars PROVE [KeyStream!Next]_(KeyStream!vars)
    OBVIOUS
  <1>1. ASSUME NEW c \in Caller, NEW r \in Request, Call(c, r)
        PROVE  UNCHANGED KeyStream!vars
    BY <1>1, RemainingKept DEF Call
  <1>2. ASSUME NEW c \in Caller, Execute(c)
        PROVE  KeyStream!Next
    BY <1>2, ExecuteIsPost DEF KeyStream!Next
  <1>3. CASE UNCHANGED vars
    BY <1>3, RemainingKept DEF vars
  <1>4. CASE Worker
    BY <1>4, TakeIsStutter, WriteIsSend, WriteReleaseIsSend, UnmarkIsStutter DEF Worker
  <1>5. QED
    BY <1>1, <1>2, <1>3, <1>4 DEF Next

LEMMA InitRefines == Init => KeyStream!Init
  BY DEF Init, KeyStream!Init, Remaining

\* Whoever calls and whichever writes fail, the target sees the requests in the
\* order of their posts and no tap is split: each step of the executor is a step
\* of KeyStream or leaves it alone.
THEOREM ExecutorImplementsKeyStream == Spec => Ordered
  BY InitTyped, NextTyped, InitRefines, NextRefines, PTL DEF Spec, Ordered, KeyStream!Spec

-----------------------------------------------------------------------------
(* What the executor leaves behind *)

Final == queue[Len(queue)]

\* Where the last job posted is: last in the queue, at hand with an empty queue,
\* or done.
LastJob ==
  \/ queue # <<>> /\ Final = last
  \/ queue = <<>> /\ job = last /\ step # "idle"
  \/ queue = <<>> /\ step = "idle"

\* Once it has been sent, a release or a tap leaves no key down.
SentUp ==
  (queue = <<>> /\ step \in {"idle", "unmark"} /\ last # NoJob
     /\ last.type # "press" /\ faults = 0) => down = NoKey

\* Once a release is done, what it cleared stays clear until the next call.
DoneUnmarked ==
  (Quiet /\ last # NoJob /\ last.type = "release") => currentlyPressedKeys = {}

LeavesInv == TypeOK /\ LastJob /\ SentUp /\ DoneUnmarked

LEMMA CallLeaves ==
  ASSUME LeavesInv, NEW c \in Caller, NEW r \in Request, Call(c, r)
  PROVE  LastJob' /\ SentUp' /\ DoneUnmarked'
  <1>1. UNCHANGED <<queue, job, step, down, last, faults>>
    BY DEF Call
  <1>2. LastJob' /\ SentUp'
    BY <1>1 DEF LeavesInv, LastJob, SentUp, Final
  <1>3. DoneUnmarked'
    <2>1. CASE UNCHANGED <<posting, currentlyPressedKeys>>
      BY <2>1, <1>1 DEF LeavesInv, DoneUnmarked, Quiet
    <2>2. CASE posting' = [posting EXCEPT ![c] = r]
      <3>1. posting'[c] # NoJob
        BY <2>2, RequestFacts DEF LeavesInv, TypeOK
      <3>2. QED
        BY <3>1 DEF DoneUnmarked, Quiet
    <2>3. QED
      BY <2>1, <2>2 DEF Call
  <1>4. QED
    BY <1>2, <1>3

LEMMA ExecuteLeaves ==
  ASSUME LeavesInv, NEW c \in Caller, Execute(c)
  PROVE  LastJob' /\ SentUp' /\ DoneUnmarked'
  <1>1. posting[c] \in Request /\ queue \in Seq(Request)
    BY DEF LeavesInv, TypeOK, Execute
  <1>2. queue' = Append(queue, posting[c]) /\ last' = posting[c]
    BY DEF Execute, PostLast
  <1>3. queue' # <<>> /\ Final' = last'
    BY <1>1, <1>2 DEF Final
  <1>4. QED
    BY <1>3 DEF LastJob, SentUp, DoneUnmarked, Quiet

\* Taking the first request keeps the last one last, unless it was the first.
LEMMA LastOfTail ==
  ASSUME NEW S, NEW s \in Seq(S), s # <<>>
  PROVE  \/ Tail(s) = <<>> /\ Head(s) = s[Len(s)]
         \/ Tail(s) # <<>> /\ Tail(s)[Len(Tail(s))] = s[Len(s)]
  <1>1. /\ Tail(s) \in Seq(S)
        /\ Len(Tail(s)) = Len(s) - 1
        /\ \A i \in 1 .. Len(Tail(s)) : Tail(s)[i] = s[i + 1]
    BY HeadTailProperties
  <1>2. Len(s) \in Nat \ {0}
    BY EmptySeq
  <1>3. CASE Tail(s) = <<>>
    <2>1. Len(Tail(s)) = 0
      BY <1>3, EmptySeq
    <2>2. Len(s) = 1
      BY <2>1, <1>1, <1>2
    <2>3. QED
      BY <2>2, <1>3
  <1>4. CASE Tail(s) # <<>>
    <2>1. Len(Tail(s)) \in Nat \ {0}
      BY <1>1, <1>4, EmptySeq
    <2>2. Tail(s)[Len(Tail(s))] = s[Len(Tail(s)) + 1]
      BY <2>1, <1>1
    <2>3. Len(Tail(s)) + 1 = Len(s)
      BY <1>1, <1>2
    <2>4. QED
      BY <2>2, <2>3, <1>4
  <1>5. QED
    BY <1>3, <1>4

LEMMA TakeLeaves ==
  ASSUME LeavesInv, Take
  PROVE  LastJob' /\ SentUp' /\ DoneUnmarked'
  <1>1. /\ queue \in Seq(Request) /\ queue # <<>> /\ step = "idle"
        /\ job' = Head(queue) /\ queue' = Tail(queue) /\ step' = "write" /\ last' = last
    BY DEF LeavesInv, TypeOK, Take, At
  <1>2. Final = last
    BY <1>1 DEF LeavesInv, LastJob
  <1>3. job' # NoJob
    BY <1>1, HeadTailProperties, RequestFacts
  <1>4. LastJob'
    BY <1>1, <1>2, LastOfTail DEF LastJob, Final
  <1>5. QED
    BY <1>1, <1>3, <1>4 DEF SentUp, DoneUnmarked, Quiet

LEMMA WriteLeaves ==
  ASSUME LeavesInv, Write
  PROVE  LastJob' /\ SentUp' /\ DoneUnmarked'
  <1>1. /\ step = "write" /\ job \in Request /\ queue' = queue /\ last' = last
        /\ faults \in Nat
    BY DEF LeavesInv, TypeOK, Write, At
  <1>2. /\ job.type \in {"press", "tap", "release"}
        /\ job.type = "release" => job.key = NoKey
        /\ job # NoJob
    BY <1>1, RequestFacts
  <1>3. (queue # <<>> /\ Final = last) \/ (queue = <<>> /\ job = last)
    BY <1>1 DEF LeavesInv, LastJob
  <1>4. Final' = Final
    BY <1>1 DEF Final
  <1>5. /\ job.type # "press" => job' = job /\ step' \in {"sleep", "unmark"}
        /\ job.type = "press" => step' = "idle"
        /\ faults' = faults => down' = job.key /\ (job.type = "tap" => step' = "sleep")
        /\ faults' = faults \/ faults' = faults + 1
    BY <1>1, <1>2 DEF Write
  <1>6. LastJob'
    BY <1>1, <1>2, <1>3, <1>4, <1>5 DEF LastJob
  <1>7. SentUp'
    BY <1>1, <1>2, <1>3, <1>5 DEF SentUp
  <1>8. DoneUnmarked'
    <2>1. CASE job.type = "press"
      BY <2>1, <1>1, <1>3 DEF DoneUnmarked, Quiet
    <2>2. CASE job.type # "press"
      BY <2>2, <1>2, <1>5 DEF DoneUnmarked, Quiet
    <2>3. QED
      BY <2>1, <2>2
  <1>9. QED
    BY <1>6, <1>7, <1>8

LEMMA WriteReleaseLeaves ==
  ASSUME LeavesInv, WriteRelease
  PROVE  LastJob' /\ SentUp' /\ DoneUnmarked'
  <1>1. /\ step = "sleep" /\ step' = "unmark" /\ job # NoJob
        /\ UNCHANGED <<queue, job, last>>
        /\ faults \in Nat
        /\ down' = NoKey \/ faults' = faults + 1
    BY DEF LeavesInv, TypeOK, WriteRelease, TapRelease, At
  <1>2. LastJob'
    BY <1>1 DEF LeavesInv, LastJob, Final
  <1>3. SentUp' /\ DoneUnmarked'
    BY <1>1 DEF SentUp, DoneUnmarked, Quiet
  <1>4. QED
    BY <1>2, <1>3

LEMMA UnmarkLeaves ==
  ASSUME LeavesInv, Unmark
  PROVE  LastJob' /\ SentUp' /\ DoneUnmarked'
  <1>1. /\ step = "unmark" /\ step' = "idle" /\ job' = NoJob
        /\ UNCHANGED <<queue, last, down, faults>>
    BY DEF Unmark, At, Done
  <1>2. LastJob'
    BY <1>1 DEF LeavesInv, LastJob, Final
  <1>3. SentUp'
    BY <1>1 DEF LeavesInv, SentUp
  <1>4. DoneUnmarked'
    <2>1. SUFFICES ASSUME Quiet', last.type = "release"
                   PROVE  currentlyPressedKeys' = {}
      BY <1>1 DEF DoneUnmarked
    <2>2. queue = <<>> /\ job = last
      BY <2>1, <1>1 DEF LeavesInv, LastJob, Quiet
    <2>3. QED
      BY <2>1, <2>2 DEF Unmark, MarksLeft
  <1>5. QED
    BY <1>2, <1>3, <1>4

LEMMA InitLeaves == Init => LeavesInv
  BY InitTyped DEF Init, LeavesInv, LastJob, SentUp, DoneUnmarked

LEMMA NextLeaves == LeavesInv /\ [Next]_vars => LeavesInv'
  <1> SUFFICES ASSUME LeavesInv, [Next]_vars PROVE LeavesInv'
    OBVIOUS
  <1>1. TypeOK'
    BY NextTyped DEF LeavesInv
  <1>2. CASE \E c \in Caller : (\E r \in Request : Call(c, r)) \/ Execute(c)
    BY <1>1, <1>2, CallLeaves, ExecuteLeaves DEF LeavesInv
  <1>3. CASE Worker
    BY <1>1, <1>3, TakeLeaves, WriteLeaves, WriteReleaseLeaves, UnmarkLeaves
       DEF LeavesInv, Worker
  <1>4. CASE UNCHANGED vars
    BY <1>1, <1>4 DEF vars, LeavesInv, LastJob, SentUp, DoneUnmarked, Final, Quiet
  <1>5. QED
    BY <1>2, <1>3, <1>4 DEF Next

\* When everything posted has been written without a fault and the last job was
\* a release or a tap, no key is down on the target, whatever the callers and
\* the keys.
THEOREM QuietMeansUp == Spec => []UpWhenReleased
  <1>1. LeavesInv => UpWhenReleased
    BY DEF LeavesInv, TypeOK, SentUp, UpWhenReleased, Quiet
  <1>2. QED
    BY <1>1, InitLeaves, NextLeaves, PTL DEF Spec

\* When everything posted is done and the last job was a release, no key is left
\* marked, even if writes have failed.
THEOREM QuietMeansUnmarked == Spec => []UnmarkedWhenReleased
  <1>1. LeavesInv => UnmarkedWhenReleased
    BY DEF LeavesInv, DoneUnmarked, UnmarkedWhenReleased
  <1>2. QED
    BY <1>1, InitLeaves, NextLeaves, PTL DEF Spec
=============================================================================
