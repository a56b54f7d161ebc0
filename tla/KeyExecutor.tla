----------------------------- MODULE KeyExecutor -----------------------------
(***************************************************************************)
(* The ordered keyboard path of KeyBoardManager: sendKeyBoardPressQueued,   *)
(* sendKeyBoardReleaseQueued and sendKeyBoardPressAndRelease.               *)
(*                                                                         *)
(* A caller (the UI, or the events of a browser) marks the key in           *)
(* currentlyPressedKeys and then posts a job to keyboardExecutor, whose only *)
(* thread writes the reports and unmarks the keys in steps of their own.    *)
(* The callers of the app are all on the main looper; the methods are public *)
(* and use a concurrent set, so the model lets several threads call them.   *)
(***************************************************************************)
EXTENDS Naturals, Sequences

CONSTANTS
  Key,       \* the keys
  NoKey,     \* no key: the target sees none down
  Caller,    \* the threads that call
  NoJob,     \* no job at hand
  MaxCalls,  \* bound: calls made
  MaxFaults  \* bound: writes that fail

ASSUME KeyAssumption == NoKey \notin Key
ASSUME CallBounds == MaxCalls \in Nat /\ MaxFaults \in Nat

Press(k) == [type |-> "press", key |-> k]
Tap(k)   == [type |-> "tap", key |-> k]
Release  == [type |-> "release", key |-> NoKey]
Request  == {Press(k) : k \in Key} \cup {Tap(k) : k \in Key} \cup {Release}

ASSUME JobAssumption == NoJob \notin Request

VARIABLES
  posting,   \* the job each caller is about to post
  queue,     \* the jobs of keyboardExecutor
  job, step, \* the job its thread runs, and where it is in it
  currentlyPressedKeys,
  down,      \* the key the target sees
  last,      \* the last job posted
  calls, faults

vars == <<posting, queue, job, step, currentlyPressedKeys, down, last, calls, faults>>

Step == {"idle", "write", "sleep", "unmark"}

-----------------------------------------------------------------------------
(* The callers *)

\* A key that is marked already is a duplicate of the browser.
Duplicate(k) == k \in currentlyPressedKeys

\* sendKeyBoardPressQueued(k) or sendKeyBoardPressAndRelease(k), up to the post
Call(c, r) ==
  /\ posting[c] = NoJob
  /\ calls < MaxCalls
  /\ calls' = calls + 1
  /\ IF r.type # "release" /\ Duplicate(r.key)
     THEN UNCHANGED <<posting, currentlyPressedKeys>>
     ELSE /\ posting' = [posting EXCEPT ![c] = r]
          /\ currentlyPressedKeys' =
               IF r.type = "release" THEN currentlyPressedKeys
               ELSE currentlyPressedKeys \cup {r.key}
  /\ UNCHANGED <<queue, job, step, down, last, faults>>

\* Mutant: urgent jobs overtake.
PostFirst(c) == queue' = <<posting[c]>> \o queue
PostLast(c)  == queue' = Append(queue, posting[c])

\* keyboardExecutor.execute(..)
Execute(c) ==
  /\ posting[c] # NoJob
  /\ PostLast(c)
  /\ last' = posting[c]
  /\ posting' = [posting EXCEPT ![c] = NoJob]
  /\ UNCHANGED <<job, step, currentlyPressedKeys, down, calls,
                 faults>>

-----------------------------------------------------------------------------
(* The thread of the executor *)

At(s) == step = s

\* Mutant: the thread takes no next job.
Stuck == UNCHANGED job /\ step' = "idle"
Done  == job' = NoJob /\ step' = "idle"

Take ==
  /\ At("idle")
  /\ queue # <<>>
  /\ job' = Head(queue)
  /\ queue' = Tail(queue)
  /\ step' = "write"
  /\ UNCHANGED <<posting, currentlyPressedKeys, down, last,
                 calls, faults>>

\* The write of the first report: sendKeyBoardPressSync or
\* sendKeyBoardReleaseSync.  A failed press ends a tap without its release,
\* and leaves a queued press marked.
Write ==
  /\ At("write")
  /\ \/ /\ down' = job.key
        /\ step' = (CASE job.type = "tap" -> "sleep"
                      [] job.type = "release" -> "unmark"
                      [] job.type = "press" -> "idle")
        /\ job' = IF job.type = "press" THEN NoJob ELSE job
        /\ UNCHANGED faults
     \/ /\ faults < MaxFaults
        /\ faults' = faults + 1
        /\ step' = IF job.type = "press" THEN "idle" ELSE "unmark"
        /\ job' = IF job.type = "press" THEN NoJob ELSE job
        /\ UNCHANGED down
  /\ UNCHANGED <<posting, queue, currentlyPressedKeys, last, calls>>

\* Mutant: the tap ends after its press.
NoTapRelease == UNCHANGED down
TapRelease   == down' = NoKey

\* After 50 ms, the release of a tap.
WriteRelease ==
  /\ At("sleep")
  /\ \/ TapRelease /\ UNCHANGED faults
     \/ faults < MaxFaults /\ faults' = faults + 1 /\ UNCHANGED down
  /\ step' = "unmark"
  /\ UNCHANGED <<posting, queue, job, currentlyPressedKeys, last,
                 calls>>

\* Mutant: a release unmarks nothing.
MarksKept   == IF job.type = "tap" THEN currentlyPressedKeys \ {job.key}
               ELSE currentlyPressedKeys
MarksLeft   == IF job.type = "tap" THEN currentlyPressedKeys \ {job.key} ELSE {}

\* currentlyPressedKeys.remove(..) of a tap, or clear() of a release
Unmark ==
  /\ At("unmark")
  /\ currentlyPressedKeys' = MarksLeft
  /\ Done
  /\ UNCHANGED <<posting, queue, down, last, calls, faults>>

-----------------------------------------------------------------------------
Init ==
  /\ posting = [c \in Caller |-> NoJob]
  /\ queue = <<>>
  /\ job = NoJob
  /\ step = "idle"
  /\ currentlyPressedKeys = {}
  /\ down = NoKey
  /\ last = NoJob
  /\ calls = 0
  /\ faults = 0

Worker == Take \/ Write \/ WriteRelease \/ Unmark

Next ==
  \/ \E c \in Caller : (\E r \in Request : Call(c, r)) \/ Execute(c)
  \/ Worker

Spec == Init /\ [][Next]_vars

\* The thread of the executor runs, and a caller finishes its call.
FairSpec == Spec /\ WF_vars(Worker) /\ \A c \in Caller : WF_vars(Execute(c))

-----------------------------------------------------------------------------
(* Properties *)

\* Every variable stays in the set of its values, and the step of the thread
\* fits its job.
TypeOK ==
  /\ posting \in [Caller -> Request \cup {NoJob}]
  /\ queue \in Seq(Request)
  /\ job \in Request \cup {NoJob}
  /\ step \in Step
  /\ (step = "idle") = (job = NoJob)
  /\ step = "sleep" => job.type = "tap"
  /\ step = "unmark" => job.type # "press"
  /\ currentlyPressedKeys \subseteq Key
  /\ down \in Key \cup {NoKey}
  /\ last \in Request \cup {NoJob}
  /\ calls \in Nat /\ faults \in Nat

\* What is still to be sent: the rest of the job at hand, then the queue.
Remaining ==
  (CASE step = "write" -> <<job>>
     [] step = "sleep" -> <<Release>>
     [] OTHER          -> <<>>) \o queue

KeyStream == INSTANCE KeyStream WITH requests <- Remaining, lost <- faults

\* The executor sends what is posted in order, and nothing in the middle of a
\* tap: it implements KeyStream.
Ordered == KeyStream!Spec

Quiet == queue = <<>> /\ job = NoJob /\ \A c \in Caller : posting[c] = NoJob

\* With every call done and nothing left to send, no key is down on the target
\* when the last job posted was a release or a tap, whoever posted the jobs
\* before it.
UpWhenReleased ==
  (Quiet /\ faults = 0 /\ last # NoJob /\ last.type # "press") => down = NoKey

\* ... and after a release no mark is left behind that would swallow a press.
UnmarkedWhenReleased ==
  (Quiet /\ last # NoJob /\ last.type = "release") => currentlyPressedKeys = {}

\* A key that is down goes up once its release, or a tap, has been called.
KeyComesUp ==
  \A k \in Key :
    (down = k /\ \E i \in DOMAIN Remaining : Remaining[i].type # "press")
      ~> (down # k \/ faults > 0)
=============================================================================
