---------------------------- MODULE VideoCapture ----------------------------
(***************************************************************************)
(* VideoCapture.java: the recording of the camera into a file.             *)
(*                                                                         *)
(* startRecording, stopRecording and release run on the thread of          *)
(* CameraHelper (Cam).  videoEncode and audioEncode run on handler threads *)
(* (Vid, Aud), drain a MediaCodec each and share a MediaMuxer.  When a     *)
(* recording is over, mRecordingFuture sets the encoders up again on an    *)
(* executor (Exe).  The fields are shared; mMuxerLock covers the muxer and *)
(* the track indices only.                                                 *)
(***************************************************************************)
EXTENDS Naturals, Sequences

CONSTANTS
  MaxStarts,    \* bound: calls of startRecording
  MaxFailures,  \* bound: operations of the platform that fail
  Waits         \* do callers wait for onVideoSaved or onError before the next start?

ASSUME RecordBounds == MaxStarts \in Nat /\ MaxFailures \in Nat
ASSUME CallerAssumption == Waits \in BOOLEAN

Cam == "cam"
Vid == "video"
Aud == "audio"
Exe == "executor"
Stream == {Vid, Aud}
Thread == {Cam, Vid, Aud, Exe}

VARIABLES
  pc,        \* where each thread is
  posted,    \* the streams whose encoding is posted to their handler
  quit,      \* quitSafely was called for the audio handler
  tasks,     \* the futures the executor is still to run
  ran,       \* those that have run: FutureTask.run() works once
  mRecordingFuture,
  flags,
  track,     \* the streams whose track index is set
  mMuxer,    \* "null", "created", "started"
  encoder,   \* the state of each MediaCodec
  shown,     \* the streams that have announced their format
  eos,       \* the streams that were told to end
  recorder,  \* mAudioRecorder
  initFailed, \* the streams whose encoder could not be configured
  audioWanted, \* getAudioCaptureEnable() of the configuration
  freed,     \* releaseResources() has run
  errorOccurred, \* a local of videoEncode
  file,      \* history: what became of the recording the video thread is at
  early,     \* history: a recording was begun before the encoders were set up
  starts, failures

vars == <<pc, posted, quit, tasks, ran, mRecordingFuture, flags, track, mMuxer, encoder,
          shown, eos, recorder, initFailed, audioWanted, freed, errorOccurred, file, early,
          starts, failures>>

media == <<encoder, shown, eos, recorder, initFailed>>
work  == <<posted, quit, tasks, ran, mRecordingFuture>>
begun == <<starts, early>>
fixed == <<audioWanted, begun, errorOccurred>>

Step == [cam      |-> {"idle", "guards", "input", "encoders", "muxer", "signals", "post", "gone"},
         video    |-> {"idle", "check", "dequeue", "stop", "close", "end", "report", "dead"},
         audio    |-> {"idle", "test", "input", "output", "stop", "end", "dead"},
         executor |-> {"idle", "video", "audio", "finish"}]

Flag == {"mIsRecording", "mIsAudioEnabled", "mEndOfVideoStreamSignal",
         "mEndOfAudioStreamSignal", "mEndOfAudioVideoSignal", "mMuxerStarted",
         "mIsFirstVideoKeyFrameWrite", "mRecordingWaitRelease"}

File == [keyFrame : BOOLEAN, closed : BOOLEAN, stopped : BOOLEAN, disturbed : BOOLEAN,
         verdict : {"none", "saved", "failed", "removed"}]

NewFile == [keyFrame |-> FALSE, closed |-> FALSE, stopped |-> FALSE, disturbed |-> FALSE,
            verdict |-> "none"]

-----------------------------------------------------------------------------
Goto(t, l) == pc' = [pc EXCEPT ![t] = l]

\* flags' with some of them set and some cleared
Put(set, clear) ==
  flags' = [f \in Flag |-> IF f \in set THEN TRUE ELSE IF f \in clear THEN FALSE ELSE flags[f]]

On(f) == flags[f]

\* An operation of the platform fails, or does not.
Fail    == failures < MaxFailures /\ failures' = failures + 1
Succeed == UNCHANGED failures

\* An exception that nobody catches on a handler thread ends the process.
Crashed == pc[Vid] = "dead" \/ pc[Aud] = "dead"

\* mExecutor.execute(mRecordingFuture)
Execute(id) == tasks' = Append(tasks, id)

\* releaseAudioInputResource: the encoder and the recorder are null after it
ReleaseAudioInput ==
  /\ quit' = TRUE
  /\ encoder' = [encoder EXCEPT ![Aud] = "null"]
  /\ recorder' = "null"

\* releaseResources
ReleaseResources ==
  /\ quit' = TRUE
  /\ encoder' = [s \in Stream |-> "null"]
  /\ recorder' = "null"
  /\ freed' = TRUE

-----------------------------------------------------------------------------
(* The thread of CameraHelper *)

\* Nobody is at work on the last recording.
Settled ==
  /\ tasks = <<>> /\ posted = {}
  /\ \A t \in {Vid, Aud, Exe} : pc[t] = "idle"

\* startRecording clears the flag of a recording that may be under way ...
StartRecording ==
  /\ pc[Cam] = "idle"
  /\ starts < MaxStarts
  /\ Waits => pc[Vid] = "idle" /\ posted = {}
  /\ starts' = starts + 1
  /\ Put({}, {"mIsFirstVideoKeyFrameWrite"})
  /\ file' = [file EXCEPT !.disturbed = TRUE]
  /\ Goto(Cam, "guards")
  /\ UNCHANGED <<work, track, mMuxer, media, audioWanted, freed, errorOccurred, early,
                 failures>>

\* ... before its guards, which let it through or not.
PassGuards ==
  /\ pc[Cam] = "guards"
  /\ IF initFailed = {} /\ On("mEndOfAudioVideoSignal")
     THEN Goto(Cam, "input") /\ early' = (early \/ ~Settled)
     ELSE Goto(Cam, "idle") /\ UNCHANGED early
  /\ UNCHANGED <<work, flags, track, mMuxer, media, audioWanted, freed, errorOccurred, file,
                 starts, failures>>

\* The audio input starts, or is given up for this recording.
StartInput ==
  /\ pc[Cam] = "input"
  /\ mRecordingFuture' = starts
  /\ \/ /\ Succeed
        /\ recorder' = IF On("mIsAudioEnabled") /\ recorder = "ready" THEN "recording" ELSE recorder
        /\ UNCHANGED <<quit, encoder, flags>>
     \/ /\ Fail
        /\ On("mIsAudioEnabled") /\ recorder # "null"
        /\ Put({}, {"mIsAudioEnabled"})
        /\ ReleaseAudioInput
  /\ Goto(Cam, "encoders")
  /\ UNCHANGED <<posted, tasks, ran, track, mMuxer, shown, eos, initFailed, fixed, freed, file>>

\* A start that fails has the encoders set up again; a null audio encoder
\* throws past the handler, to CameraHelper.
StartEncoders ==
  /\ pc[Cam] = "encoders"
  /\ \E s \in {{}, {Vid}, Stream} :
       LET wanted == IF On("mIsAudioEnabled") THEN Stream ELSE {Vid}
           able   == {x \in Stream : encoder[x] = "configured"}
       IN /\ s \subseteq wanted \cap able
          /\ (Vid \notin able => s = {})
          /\ IF s = wanted \cap able \/ Vid \notin able THEN Succeed ELSE Fail
          /\ encoder' = [x \in Stream |-> IF x \in s THEN "executing" ELSE encoder[x]]
          /\ shown' = shown \ s
          /\ eos' = eos \ s
          /\ IF s = wanted
             THEN Goto(Cam, "muxer") /\ UNCHANGED tasks
             ELSE /\ Goto(Cam, "idle")
                  /\ IF Vid \in s /\ encoder[Aud] = "null"
                     THEN UNCHANGED tasks
                     ELSE Execute(mRecordingFuture)
  /\ UNCHANGED <<posted, quit, ran, mRecordingFuture, flags, track, mMuxer, recorder,
                 initFailed, fixed, freed, file>>

CreateMuxer ==
  /\ pc[Cam] = "muxer"
  /\ \/ /\ Succeed
        /\ mMuxer' = "created"
        /\ Goto(Cam, "signals")
        /\ UNCHANGED tasks
     \/ /\ Fail
        /\ Execute(mRecordingFuture)
        /\ Goto(Cam, "idle")
        /\ UNCHANGED mMuxer
  /\ UNCHANGED <<posted, quit, ran, mRecordingFuture, flags, track, media, fixed, freed, file>>

SetSignalsOfEndOnly ==
  /\ pc[Cam] = "signals"
  /\ Put({"mIsRecording"}, {"mEndOfAudioVideoSignal"})
  /\ file' = [file EXCEPT !.stopped = FALSE]
  /\ Goto(Cam, "post")
  /\ UNCHANGED <<work, track, mMuxer, media, fixed, freed, failures>>

SetSignals ==
  /\ pc[Cam] = "signals"
  /\ Put({"mIsRecording"}, {"mEndOfVideoStreamSignal", "mEndOfAudioStreamSignal",
                            "mEndOfAudioVideoSignal"})
  /\ file' = [file EXCEPT !.stopped = FALSE]
  /\ Goto(Cam, "post")
  /\ UNCHANGED <<work, track, mMuxer, media, fixed, freed, failures>>

\* The audio handler takes nothing any more once it has quit.
PostEncoding ==
  /\ pc[Cam] = "post"
  /\ posted' = posted \cup {Vid} \cup (IF On("mIsAudioEnabled") /\ ~quit THEN {Aud} ELSE {})
  /\ Goto(Cam, "idle")
  /\ UNCHANGED <<quit, tasks, ran, mRecordingFuture, flags, track, mMuxer, media, fixed,
                 freed, file, failures>>

EndSignalBoth ==
  IF On("mIsRecording") THEN {"mEndOfAudioStreamSignal", "mEndOfVideoStreamSignal"} ELSE {}
EndSignalOfAudio == IF On("mIsRecording") THEN {"mEndOfAudioStreamSignal"} ELSE {}

\* What stopRecording sets
EndSignal ==
  CASE ~On("mIsRecording")   -> {}
    [] On("mIsAudioEnabled") -> {"mEndOfAudioStreamSignal"}
    [] OTHER                 -> {"mEndOfVideoStreamSignal"}

StopRecording ==
  /\ pc[Cam] = "idle"
  /\ On("mIsRecording")
  /\ Put(EndSignal, {})
  /\ file' = [file EXCEPT !.stopped = TRUE]
  /\ UNCHANGED <<pc, work, track, mMuxer, media, fixed, freed, failures>>

\* release: CameraInternal forgets the object after it.
Release ==
  /\ pc[Cam] = "idle"
  /\ Goto(Cam, "gone")
  /\ file' = [file EXCEPT !.stopped = @ \/ On("mIsRecording")]
  /\ IF mRecordingFuture # 0
     THEN /\ Put(EndSignal \cup {"mRecordingWaitRelease"}, {})
          /\ UNCHANGED <<quit, encoder, recorder, freed>>
     ELSE /\ Put(EndSignal, {})
          /\ ReleaseResources
  /\ UNCHANGED <<posted, tasks, ran, mRecordingFuture, track, mMuxer, shown, eos, initFailed,
                 fixed, failures>>

-----------------------------------------------------------------------------
(* videoEncode *)

VideoTake ==
  /\ pc[Vid] = "idle"
  /\ Vid \in posted
  /\ posted' = posted \ {Vid}
  /\ errorOccurred' = FALSE
  /\ file' = [NewFile EXCEPT !.stopped = file.stopped]
  /\ Goto(Vid, "check")
  /\ UNCHANGED <<quit, tasks, ran, mRecordingFuture, flags, track, mMuxer, media, audioWanted,
                 freed, begun, failures>>

\* An IllegalStateException ends the loop.
VideoError == Goto(Vid, "stop") /\ errorOccurred' = TRUE

\* A null encoder is another exception, which nobody catches.
VideoBroken == IF encoder[Vid] = "null" THEN Goto(Vid, "dead") /\ UNCHANGED errorOccurred
                                        ELSE VideoError

VideoCheck ==
  /\ pc[Vid] = "check"
  /\ IF ~On("mEndOfVideoStreamSignal")
     THEN Goto(Vid, "dequeue") /\ UNCHANGED <<flags, eos, errorOccurred>>
     ELSE IF encoder[Vid] = "executing"
     THEN /\ Goto(Vid, "dequeue")
          /\ eos' = eos \cup {Vid}
          /\ Put({}, {"mEndOfVideoStreamSignal"})
          /\ UNCHANGED errorOccurred
     ELSE VideoBroken /\ UNCHANGED <<flags, eos>>
  /\ UNCHANGED <<work, track, mMuxer, encoder, shown, recorder, initFailed, audioWanted, freed,
                 file, begun, failures>>

\* Nothing comes before the time-out, or the encoder fails.
VideoNothing ==
  /\ pc[Vid] = "dequeue"
  /\ IF encoder[Vid] # "executing"
     THEN VideoBroken /\ Succeed
     ELSE \/ Goto(Vid, "check") /\ Succeed /\ UNCHANGED errorOccurred
          \/ VideoError /\ Fail
  /\ UNCHANGED <<work, flags, track, mMuxer, media, audioWanted, freed, file, begun>>

Ready(s) == encoder[s] = "executing"

\* The track of s is added, and the muxer started when all tracks are there.
AddTrack(s, all) ==
  /\ track' = track \cup {s}
  /\ IF all \subseteq track \cup {s}
     THEN mMuxer' = "started" /\ Put({"mMuxerStarted"}, {})
     ELSE UNCHANGED <<mMuxer, flags>>

\* The muxer of a video that is being encoded is not null (TypeOK); one that
\* was started takes no track.
VideoFormat ==
  /\ pc[Vid] = "dequeue" /\ Ready(Vid) /\ Vid \notin shown
  /\ shown' = shown \cup {Vid}
  /\ IF mMuxer = "created"
     THEN /\ AddTrack(Vid, IF On("mIsAudioEnabled") THEN Stream ELSE {Vid})
          /\ Goto(Vid, "check")
          /\ UNCHANGED errorOccurred
     ELSE VideoError /\ UNCHANGED <<track, mMuxer, flags>>
  /\ UNCHANGED <<work, encoder, eos, recorder, initFailed, audioWanted, freed, file, begun,
                 failures>>

KeyFrameUnnoticed(key) == {}

\* The flag that the file has a key frame
KeyFrameNoted(key) ==
  IF key /\ On("mMuxerStarted") THEN {"mIsFirstVideoKeyFrameWrite"} ELSE {}

\* writeVideoEncodedBuffer: a frame is dropped as long as the muxer waits.
VideoFrame ==
  /\ pc[Vid] = "dequeue" /\ Ready(Vid) /\ Vid \in shown
  /\ \E key \in BOOLEAN :
       /\ Put(KeyFrameNoted(key), {})
       /\ \/ /\ Succeed
             /\ Goto(Vid, "check")
             /\ file' = [file EXCEPT !.keyFrame = @ \/ (key /\ On("mMuxerStarted"))]
             /\ UNCHANGED errorOccurred
          \/ /\ On("mMuxerStarted") /\ Fail
             /\ VideoError
             /\ UNCHANGED file
  /\ UNCHANGED <<work, track, mMuxer, media, audioWanted, freed, begun>>

VideoEos ==
  /\ pc[Vid] = "dequeue" /\ Ready(Vid) /\ Vid \in eos
  /\ Goto(Vid, "stop")
  /\ UNCHANGED <<work, flags, track, mMuxer, media, fixed, freed, file, failures>>

VideoStop ==
  /\ pc[Vid] = "stop"
  /\ IF encoder[Vid] = "executing"
     THEN /\ Goto(Vid, "close")
          /\ \/ Succeed /\ UNCHANGED errorOccurred /\ encoder' = [encoder EXCEPT ![Vid] = "uninitialized"]
             \/ Fail /\ errorOccurred' = TRUE /\ UNCHANGED encoder
     ELSE /\ IF encoder[Vid] = "null" THEN Goto(Vid, "dead") ELSE Goto(Vid, "close")
          /\ errorOccurred' = TRUE
          /\ UNCHANGED encoder /\ Succeed
  /\ UNCHANGED <<work, flags, track, mMuxer, shown, eos, recorder, initFailed, audioWanted, freed,
                 file, begun>>

AlwaysPlayable == TRUE

\* A file without a key frame is removed.
Playable == On("mIsFirstVideoKeyFrameWrite")

\* A muxer that cannot be stopped, as one without a sample cannot, is not
\* released either, and its file is left as it is.
VideoClose ==
  /\ pc[Vid] = "close"
  /\ Goto(Vid, "end")
  /\ \/ /\ Succeed
        /\ mMuxer' = "null"
        /\ errorOccurred' = (errorOccurred \/ ~Playable)
        /\ file' = [file EXCEPT !.closed = On("mMuxerStarted"),
                                !.verdict = IF Playable THEN "none" ELSE "removed"]
     \/ /\ On("mMuxerStarted")
        /\ IF file.keyFrame THEN Fail ELSE Succeed
        /\ errorOccurred' = TRUE
        /\ UNCHANGED <<mMuxer, file>>
  /\ UNCHANGED <<work, flags, track, media, audioWanted, freed, begun>>

VideoEndStarted ==
  /\ pc[Vid] = "end"
  /\ Put({"mEndOfAudioVideoSignal"}, {"mIsFirstVideoKeyFrameWrite"})
  /\ Goto(Vid, "report")
  /\ UNCHANGED <<work, track, mMuxer, media, fixed, freed, file, failures>>

VideoEnd ==
  /\ pc[Vid] = "end"
  /\ Put({"mEndOfAudioVideoSignal"}, {"mMuxerStarted", "mIsFirstVideoKeyFrameWrite"})
  /\ Goto(Vid, "report")
  /\ UNCHANGED <<work, track, mMuxer, media, fixed, freed, file, failures>>

\* onVideoSaved, unless an error was reported; then the setup is posted.
VideoReport ==
  /\ pc[Vid] = "report"
  /\ file' = [file EXCEPT !.verdict = CASE ~errorOccurred -> "saved"
                                        [] @ = "none"     -> "failed"
                                        [] OTHER          -> @]
  /\ Execute(mRecordingFuture)
  /\ Goto(Vid, "idle")
  /\ UNCHANGED <<posted, quit, ran, mRecordingFuture, flags, track, mMuxer, media, fixed, freed,
                 failures>>

-----------------------------------------------------------------------------
(* audioEncode *)

AudioTake ==
  /\ pc[Aud] = "idle"
  /\ Aud \in posted
  /\ posted' = posted \ {Aud}
  /\ Goto(Aud, "test")
  /\ UNCHANGED <<quit, tasks, ran, mRecordingFuture, flags, track, mMuxer, media, fixed, freed,
                 file, failures>>

AudioTest ==
  /\ pc[Aud] = "test"
  /\ Goto(Aud, IF On("mIsRecording") THEN "input" ELSE "stop")
  /\ Put({}, IF On("mIsRecording") /\ On("mEndOfAudioStreamSignal")
             THEN {"mEndOfAudioStreamSignal", "mIsRecording"} ELSE {})
  /\ UNCHANGED <<work, track, mMuxer, media, fixed, freed, file, failures>>

\* What is read after the end was signalled ends the stream; it may be nothing.
AudioInput ==
  /\ pc[Aud] = "input"
  /\ IF encoder[Aud] = "null" \/ recorder = "null"
     THEN Goto(Aud, "test") /\ UNCHANGED eos
     ELSE /\ Goto(Aud, "output")
          /\ \/ UNCHANGED eos
             \/ Ready(Aud) /\ ~On("mIsRecording") /\ eos' = eos \cup {Aud}
  /\ UNCHANGED <<work, flags, track, mMuxer, encoder, shown, recorder, initFailed, fixed, freed,
                 file, failures>>

\* Nothing, or the last of some samples: a failing write is caught.  A
\* failing encoder is not.
AudioOutput ==
  /\ pc[Aud] = "output"
  /\ \/ Ready(Aud) /\ Goto(Aud, "test") /\ Succeed
     \/ Ready(Aud) /\ Aud \in eos /\ Goto(Aud, "stop") /\ Succeed
     \/ Ready(Aud) /\ Goto(Aud, "dead") /\ Fail
     \/ ~Ready(Aud) /\ Goto(Aud, "dead") /\ Succeed
  /\ UNCHANGED <<work, flags, track, mMuxer, media, fixed, freed, file>>

\* The muxer may be null or started if the video has ended before.
AudioFormat ==
  /\ pc[Aud] = "output" /\ Ready(Aud) /\ Aud \notin shown
  /\ shown' = shown \cup {Aud}
  /\ IF mMuxer = "created"
     THEN AddTrack(Aud, Stream) /\ Goto(Aud, "test")
     ELSE Goto(Aud, "dead") /\ UNCHANGED <<track, mMuxer, flags>>
  /\ UNCHANGED <<work, encoder, eos, recorder, initFailed, fixed, freed, file, failures>>

\* An audio encoder that cannot be stopped is reported and left.
AudioStop ==
  /\ pc[Aud] = "stop"
  /\ recorder' = IF recorder = "recording" THEN "ready" ELSE recorder
  /\ Goto(Aud, IF encoder[Aud] = "null" THEN "dead" ELSE "end")
  /\ \/ Succeed /\ encoder' = [encoder EXCEPT ![Aud] = IF Ready(Aud) THEN "uninitialized" ELSE @]
     \/ Ready(Aud) /\ Fail /\ UNCHANGED encoder
  /\ UNCHANGED <<work, flags, track, mMuxer, shown, eos, initFailed, fixed, freed, file>>

AudioEnd ==
  /\ pc[Aud] = "end"
  /\ Put({"mEndOfVideoStreamSignal"}, {})
  /\ Goto(Aud, "idle")
  /\ UNCHANGED <<work, track, mMuxer, media, fixed, freed, file, failures>>

-----------------------------------------------------------------------------
(* mRecordingFuture: an exception in it is swallowed and ends it. *)

ToReleaseUnlessRecording == On("mRecordingWaitRelease") /\ ~On("mIsRecording")

ToRelease == On("mRecordingWaitRelease")

RunFuture ==
  /\ pc[Exe] = "idle"
  /\ tasks # <<>>
  /\ tasks' = Tail(tasks)
  /\ ran' = ran \cup {Head(tasks)}
  /\ IF Head(tasks) \in ran
     THEN UNCHANGED <<pc, flags, quit, encoder, recorder, freed>>
     ELSE IF ToRelease
     THEN /\ Put({}, {"mRecordingWaitRelease", "mIsRecording"})
          /\ ReleaseResources
          /\ UNCHANGED pc
     ELSE Goto(Exe, "video") /\ UNCHANGED <<flags, quit, encoder, recorder, freed>>
  /\ UNCHANGED <<posted, mRecordingFuture, track, mMuxer, shown, eos, initFailed, fixed, file,
                 failures>>

\* setupEncoder: reset() and configure() of an encoder
Reset(s, state) ==
  /\ encoder[s] # "null"
  /\ encoder' = [encoder EXCEPT ![s] = state]
  /\ shown' = shown \ {s}
  /\ eos' = eos \ {s}

\* What fails to be configured is remembered; a null encoder is not.
SetupFails(s) ==
  /\ \/ Reset(s, "uninitialized") /\ Fail /\ initFailed' = initFailed \cup {s}
     \/ encoder[s] = "null" /\ Succeed /\ UNCHANGED <<encoder, shown, eos, initFailed>>
  /\ Goto(Exe, "idle")
  /\ UNCHANGED <<flags, recorder>>

SetupVideo ==
  /\ pc[Exe] = "video"
  /\ \/ /\ Reset(Vid, "configured") /\ Succeed
        /\ initFailed' = initFailed \ {Vid}
        /\ flags' = [flags EXCEPT !["mIsAudioEnabled"] = audioWanted]
        /\ Goto(Exe, IF audioWanted THEN "audio" ELSE "finish")
        /\ UNCHANGED recorder
     \/ SetupFails(Vid)
  /\ UNCHANGED <<work, track, mMuxer, fixed, freed, file>>

SetupAudio ==
  /\ pc[Exe] = "audio"
  /\ \/ /\ Reset(Aud, "configured")
        /\ \/ Succeed /\ recorder' = "ready" /\ UNCHANGED flags
           \/ Fail /\ recorder' = "null" /\ Put({}, {"mIsAudioEnabled"})
        /\ Goto(Exe, "finish")
        /\ UNCHANGED initFailed
     \/ SetupFails(Aud)
  /\ UNCHANGED <<work, track, mMuxer, fixed, freed, file>>

SetupFinish ==
  /\ pc[Exe] = "finish"
  /\ track' = {}
  /\ Put({}, {"mIsRecording"})
  /\ Goto(Exe, "idle")
  /\ UNCHANGED <<work, mMuxer, media, fixed, freed, file, failures>>

-----------------------------------------------------------------------------
\* The encoders have been set up once, with a microphone or without.
Init ==
  /\ audioWanted \in BOOLEAN
  /\ recorder \in IF audioWanted THEN {"ready", "null"} ELSE {"null"}
  /\ pc = [t \in Thread |-> "idle"]
  /\ posted = {} /\ quit = FALSE
  /\ tasks = <<>> /\ ran = {} /\ mRecordingFuture = 0
  /\ flags = [f \in Flag |->
       \/ f \in {"mEndOfVideoStreamSignal", "mEndOfAudioStreamSignal", "mEndOfAudioVideoSignal"}
       \/ f = "mIsAudioEnabled" /\ recorder = "ready"]
  /\ track = {} /\ mMuxer = "null"
  /\ encoder = [s \in Stream |-> IF s = Vid \/ audioWanted THEN "configured" ELSE "uninitialized"]
  /\ shown = {} /\ eos = {} /\ initFailed = {}
  /\ freed = FALSE
  /\ errorOccurred = FALSE
  /\ file = NewFile
  /\ early = FALSE
  /\ starts = 0 /\ failures = 0

Begin == PassGuards \/ StartInput \/ StartEncoders \/ CreateMuxer \/ SetSignals \/ PostEncoding

CamNext == StartRecording \/ Begin \/ StopRecording \/ Release

VidNext ==
  \/ VideoTake \/ VideoCheck \/ VideoNothing \/ VideoFormat \/ VideoFrame
  \/ VideoEos \/ VideoStop \/ VideoClose \/ VideoEnd \/ VideoReport

AudNext ==
  AudioTake \/ AudioTest \/ AudioInput \/ AudioOutput \/ AudioFormat \/ AudioStop \/ AudioEnd

ExeNext == RunFuture \/ SetupVideo \/ SetupAudio \/ SetupFinish

Next == ~Crashed /\ (CamNext \/ VidNext \/ AudNext \/ ExeNext)

Spec == Init /\ [][Next]_vars

\* Each thread runs, and an encoder that was told to end does end.
FairSpec ==
  /\ Spec
  /\ WF_vars(~Crashed /\ Begin)
  /\ WF_vars(~Crashed /\ VidNext)
  /\ WF_vars(~Crashed /\ AudNext)
  /\ WF_vars(~Crashed /\ ExeNext)
  /\ SF_vars(~Crashed /\ VideoEos)

-----------------------------------------------------------------------------
(* Properties *)

\* The video thread has not taken the muxer yet.
Encoding == {"check", "dequeue", "stop", "close"}

Places ==
  /\ pc \in [Thread -> UNION {Step[t] : t \in Thread}]
  /\ \A t \in Thread : pc[t] \in Step[t]

Fields ==
  /\ posted \subseteq Stream /\ quit \in BOOLEAN
  /\ tasks \in Seq(0..MaxStarts) /\ ran \subseteq 0..MaxStarts
  /\ mRecordingFuture \in 0..MaxStarts
  /\ track \subseteq Stream /\ mMuxer \in {"null", "created", "started"}
  /\ encoder \in [Stream -> {"uninitialized", "configured", "executing", "null"}]
  /\ shown \subseteq Stream /\ eos \subseteq Stream /\ initFailed \subseteq Stream
  /\ recorder \in {"null", "ready", "recording"}
  /\ audioWanted \in BOOLEAN /\ freed \in BOOLEAN /\ errorOccurred \in BOOLEAN
  /\ file \in File
  /\ early \in BOOLEAN
  /\ starts \in 0..MaxStarts /\ failures \in 0..MaxFailures

\* The fields, the encoders and the steps keep their types; mMuxerStarted
\* speaks of the muxer there is, and the video thread always finds one.
TypeOK ==
  /\ Places /\ flags \in [Flag -> BOOLEAN] /\ Fields
  /\ On("mMuxerStarted") => mMuxer = "started" \/ pc[Vid] = "end"
  /\ pc[Vid] \in Encoding => mMuxer # "null"

\* A video that is reported as saved has a key frame, and its muxer was
\* stopped, whatever failed before.
SavedIsPlayable ==
  file.verdict = "saved" => file.keyFrame /\ file.closed

\* A file that has a key frame is removed only if startRecording() was called
\* while it was recorded, whether that call was let through or not.
RemovedIsUnplayable ==
  file.verdict = "removed" => ~file.keyFrame \/ file.disturbed

\* Without an error, the video thread ends, and takes the muxer with it, only
\* when the audio thread is done.  It is otherwise after a recording that was
\* begun before the encoders were set up again.
MuxerOutlivesAudio ==
  pc[Vid] \in {"stop", "close"} /\ ~errorOccurred /\ ~early =>
    pc[Aud] = "idle" /\ Aud \notin posted

\* startRecording(): without an error, a recording "continues until
\* stopRecording() is called".  The code does not keep this for a recording
\* that is begun on onVideoSaved, as stopRecording() asks: the end of the setup
\* that follows the saving clears mIsRecording.
ContinuesUntilStopped ==
  pc[Vid] \in {"stop", "close"} /\ ~errorOccurred => file.stopped

\* A recording that is stopped is saved, removed or reported as failed.
StopGetsVerdict ==
  file.stopped ~> (file.verdict # "none" /\ Vid \notin posted) \/ Crashed

\* A release during a recording frees the encoders when it is over, with the
\* same exception: the future of the next one may have run already.
ReleaseFrees ==
  pc[Cam] = "gone" /\ ~On("mEndOfAudioVideoSignal") /\ ~early ~> freed \/ Crashed
=============================================================================
