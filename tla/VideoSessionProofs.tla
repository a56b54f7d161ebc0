-------------------------- MODULE VideoSessionProofs --------------------------
(***************************************************************************)
(* A theorem about how a recording of VideoCapture ends, for any number of  *)
(* recordings and failures: without an error, the video thread stops after *)
(* the audio thread.  It holds until a recording is begun before the       *)
(* encoders are set up again: the argument is that what each thread is at  *)
(* belongs to the recording there is.                                      *)
(***************************************************************************)
EXTENDS VideoCaptureProofs

-----------------------------------------------------------------------------
(* The inductive invariant *)

\* The encoding is being posted, is posted, or is running.
Recording == pc[Cam] = "post" \/ Vid \in posted \/ pc[Vid] \in Encoding

\* A recording has been begun, and its video thread has not reported yet.
Session == Beginning \/ Vid \in posted \/ pc[Vid] \notin {"idle", "dead"}

AudioAtWork == Aud \in posted \/ pc[Aud] # "idle"

\* The end is signalled, or under way.
Ending ==
  \/ On("mEndOfVideoStreamSignal") \/ On("mEndOfAudioStreamSignal") \/ ~On("mIsRecording")
  \/ Vid \in eos \/ pc[Aud] \in {"stop", "end"} \/ (Aud \in eos /\ AudioAtWork)

\* The setup of the encoders is over when a recording begins, and the next
\* one is posted at its end.
SetupOver == Session => pc[Exe] = "idle" /\ tasks = <<>>

\* A recording begins when both handler threads are done with the last one.
StartsAlone ==
  /\ Beginning => ~AudioAtWork /\ posted = {} /\ pc[Vid] = "idle"
  /\ Vid \in posted => pc[Vid] = "idle"

\* Encoders that were started have not been told to end, and no signal is left
\* from the last recording.
SignalsReset ==
  /\ pc[Cam] \in {"muxer", "signals", "post"} =>
       Vid \notin eos /\ (On("mIsAudioEnabled") => Aud \notin eos)
  /\ pc[Cam] = "post" => ~Ending

\* The video is told to end only if the audio has ended, or there is none.
AudioFirst ==
  /\ Recording /\ ~On("mIsAudioEnabled") => ~AudioAtWork
  /\ Recording /\ (On("mEndOfVideoStreamSignal") \/ Vid \in eos) => ~AudioAtWork
  /\ Recording /\ Aud \in posted => pc[Aud] = "idle"

\* Without an error, the video ends when its encoder was told to.
EndsByEos == pc[Vid] \in {"stop", "close"} /\ ~errorOccurred => Vid \in eos

SessionInv ==
  SetupOver /\ StartsAlone /\ SignalsReset /\ AudioFirst /\ EndsByEos

Inv == IInv /\ (~early => SessionInv)

-----------------------------------------------------------------------------
(* What a step changes *)

\* The types, and what is known of the video thread when a recording begins
Base == Places /\ flags \in [Flag -> BOOLEAN] /\ Fields /\ OneRecording

\* The video thread goes on with a recording, up to its report: only its own
\* place and the error change.
VideoGoesOn ==
  /\ pc[Vid] \in Encoding \cup {"end"} /\ pc'[Vid] \in Encoding \cup {"end", "dead", "report"}
  /\ pc'[Vid] \in Encoding => pc[Vid] \in Encoding
  /\ pc'[Vid] \in {"stop", "close"} /\ ~errorOccurred' =>
       Vid \in eos \/ (pc[Vid] = "stop" /\ ~errorOccurred)
  /\ \A t \in Thread : t # Vid => pc'[t] = pc[t]
  /\ \A f \in {"mEndOfVideoStreamSignal", "mEndOfAudioStreamSignal", "mIsRecording",
               "mIsAudioEnabled"} : On(f)' <=> On(f)
  /\ UNCHANGED <<posted, tasks, eos>> /\ file'.stopped = file.stopped

\* Each of its steps from the poll to the end of the recording does that.
LEMMA VideoProceeds ==
  ASSUME Base,
         \/ VideoNothing \/ VideoFormat \/ VideoFrame \/ VideoEos
         \/ VideoStop \/ VideoClose \/ VideoEnd
  PROVE  VideoGoesOn
<1> USE Steps, GotoValue, PutValue
    DEF Base, VideoGoesOn, Encoding, Flag, Vid, Aud, Cam, Exe
<1>1. CASE VideoNothing
  BY <1>1 DEF VideoNothing, VideoBroken, VideoError, work, media, On
<1>2. CASE VideoFormat
  BY <1>2 DEF VideoFormat, VideoError, AddTrack, work, On
<1>3. CASE VideoFrame
  BY <1>3 DEF VideoFrame, VideoError, KeyFrameNoted, Fields, File, work, media
<1>4. CASE VideoEos
  BY <1>4 DEF VideoEos, fixed, work, media, On
<1>5. CASE VideoStop
  BY <1>5 DEF VideoStop, work, On
<1>6. CASE VideoClose
  <2>1. file'.stopped = file.stopped
    <3>1. file \in File
      BY DEF Fields
    <3>2. ClosedFile => file'.stopped = file.stopped
      BY <3>1 DEF ClosedFile, File
    <3> QED
      BY <1>6, <3>2, VideoCloses
  <2>2. pc[Vid] = "close" /\ pc'[Vid] = "end" /\ \A t \in Thread : t # Vid => pc'[t] = pc[t]
    BY <1>6 DEF VideoClose
  <2>3. UNCHANGED <<flags, posted, tasks, eos>>
    BY <1>6 DEF VideoClose, work, media
  <2> QED
    BY <2>1, <2>2, <2>3 DEF On
<1>7. CASE VideoEnd
  BY <1>7 DEF VideoEnd, fixed, work, media
<1> QED
  BY <1>1, <1>2, <1>3, <1>4, <1>5, <1>6, <1>7

\* ... and keeps the session as it is.
LEMMA SessionProceeds ==
  ASSUME Base, SessionInv, VideoGoesOn
  PROVE  SessionInv'
<1> USE Steps DEF Base, VideoGoesOn, Session, Recording, Beginning, Encoding, AudioAtWork,
    Vid, Aud, Cam, Exe
<1>1. SetupOver'
  BY DEF SessionInv, SetupOver
<1>2. StartsAlone'
  BY DEF SessionInv, StartsAlone
<1>3. SignalsReset'
  BY DEF SessionInv, SignalsReset, Ending
<1>5. AudioFirst'
  BY DEF SessionInv, AudioFirst
<1>6. EndsByEos'
  BY DEF SessionInv, EndsByEos
<1> QED
  BY <1>1, <1>2, <1>3, <1>5, <1>6 DEF SessionInv

\* The executor sets the encoders up between two recordings.
LEMMA SessionSetUp ==
  ASSUME Base, SessionInv, ExeNext
  PROVE  SessionInv'
<1>1. pc[Exe] # "idle" \/ tasks # <<>>
  BY DEF ExeNext, RunFuture, SetupVideo, SetupAudio, SetupFinish
<1>2. ~Session
  BY <1>1 DEF SessionInv, SetupOver
<1>3. Apart
  BY OthersApart DEF Base
<1>4. ~Session'
  BY <1>2, <1>3 DEF Session, Beginning, Apart
<1> QED
  BY <1>4 DEF SessionInv, SetupOver, StartsAlone, SignalsReset, AudioFirst, EndsByEos,
     Session, Recording, Beginning, Encoding

-----------------------------------------------------------------------------
(* The steps of a session *)

\* A recording that began too early is never forgotten.
LEMMA EarlyStays ==
  ASSUME Next, early
  PROVE  early'
BY DEF Next, CamNext, Begin, VidNext, AudNext, ExeNext, StartRecording, PassGuards, StartInput,
   StartEncoders, CreateMuxer, SetSignals, PostEncoding, StopRecording, Release, VideoTake, VideoCheck,
   VideoNothing, VideoFormat, VideoFrame, VideoEos, VideoStop, VideoClose, VideoEnd, VideoReport,
   AudioTake, AudioTest, AudioInput, AudioOutput, AudioFormat, AudioStop, AudioEnd, RunFuture,
   SetupVideo, SetupAudio, SetupFinish, fixed, begun

\* The thread of CameraHelper
LEMMA SessionOfCam ==
  ASSUME Base, SessionInv, ~early', CamNext
  PROVE  SessionInv'
<1> USE Steps, GotoValue, PutValue
    DEF Base, OneRecording, Between, Flag, Fields, File, Session, Recording, Beginning,
        Encoding, AudioAtWork, Ending, SessionInv, SetupOver, StartsAlone, SignalsReset,
        AudioFirst, EndsByEos, Vid, Aud, Cam, Exe
<1>1. CASE StartRecording
  BY <1>1 DEF StartRecording, work, media, On
<1>9. CASE PassGuards
  BY <1>9 DEF PassGuards, Settled, work, media, On
<1>2. CASE StartInput
  BY <1>2 DEF StartInput, On
<1>3. CASE StartEncoders
  BY <1>3 DEF StartEncoders, On
<1>4. CASE CreateMuxer
  BY <1>4 DEF CreateMuxer, media, On
<1>5. CASE SetSignals
  BY <1>5 DEF SetSignals, work, media
<1>6. CASE PostEncoding
  BY <1>6 DEF PostEncoding, media, On
<1>7. CASE StopRecording
  BY <1>7 DEF StopRecording, EndSignal, fixed, work, media
<1>8. CASE Release
  <2>1. UNCHANGED <<posted, tasks, eos, errorOccurred>> /\ pc'[Cam] = "gone"
        /\ \A t \in {Vid, Aud, Exe} : pc'[t] = pc[t]
    BY <1>8 DEF Release, fixed
  <2>2. \A f \in {"mEndOfVideoStreamSignal", "mEndOfAudioStreamSignal", "mIsRecording",
                  "mIsAudioEnabled"} : On(f)' <=> On(f) \/ f \in EndSignal
    <3>1. CASE Put(EndSignal \cup {"mRecordingWaitRelease"}, {})
      BY <3>1 DEF Put, On
    <3>2. CASE Put(EndSignal, {})
      BY <3>2 DEF Put, On
    <3> QED
      BY <1>8, <3>1, <3>2 DEF Release
  <2>3. file'.stopped = (file.stopped \/ On("mIsRecording")) /\ pc[Cam] = "idle"
    BY <1>8 DEF Release
  <2> QED
    BY <2>1, <2>2, <2>3 DEF EndSignal
<1> QED
  BY <1>1, <1>2, <1>3, <1>4, <1>5, <1>6, <1>7, <1>8, <1>9 DEF CamNext, Begin

\* The handler threads
LEMMA SessionOfStreams ==
  ASSUME Base, SessionInv, ~early', VideoTake \/ VideoCheck \/ VideoReport \/ AudNext
  PROVE  SessionInv'
<1> USE Steps, GotoValue, PutValue
    DEF Base, OneRecording, Between, Flag, Fields, File, Session, Recording, Beginning,
        Encoding, AudioAtWork, Ending, SessionInv, SetupOver, StartsAlone, SignalsReset,
        AudioFirst, EndsByEos, Vid, Aud, Cam, Exe
<1>1. CASE VideoTake
  BY <1>1 DEF VideoTake, media, On
<1>2. CASE VideoCheck
  <2>1. UNCHANGED <<posted, tasks, file>> /\ \A t \in Thread : t # Vid => pc'[t] = pc[t]
    BY <1>2 DEF VideoCheck, VideoBroken, VideoError, work
  <2>2. CASE UNCHANGED <<flags, eos>>
    BY <1>2, <2>1, <2>2 DEF VideoCheck, VideoBroken, VideoError, On
  <2>3. CASE On("mEndOfVideoStreamSignal") /\ eos' = eos \cup {Vid}
             /\ Put({}, {"mEndOfVideoStreamSignal"}) /\ pc'[Vid] = "dequeue"
    BY <1>2, <2>1, <2>3 DEF VideoCheck
  <2> QED
    BY <1>2, <2>2, <2>3 DEF VideoCheck
<1>3. CASE VideoReport
  BY <1>3 DEF VideoReport, media, On
<1>4. CASE AudioTake
  BY <1>4 DEF AudioTake, media, fixed, On
<1>5. CASE AudioTest
  BY <1>5 DEF AudioTest, work, media, fixed
<1>6. CASE AudioInput
  BY <1>6 DEF AudioInput, work, fixed, On
<1>7. CASE AudioOutput
  BY <1>7 DEF AudioOutput, work, media, fixed, On
<1>8. CASE AudioFormat
  <2>1. UNCHANGED <<posted, tasks, eos, file, errorOccurred>>
        /\ \A t \in Thread : t # Aud => pc'[t] = pc[t]
    BY <1>8 DEF AudioFormat, work, fixed
  <2>2. pc[Aud] = "output" /\ pc'[Aud] \in {"test", "dead"}
    BY <1>8 DEF AudioFormat
  <2>3. \A f \in {"mEndOfVideoStreamSignal", "mEndOfAudioStreamSignal", "mIsRecording",
                  "mIsAudioEnabled"} : On(f)' <=> On(f)
    BY <1>8 DEF AudioFormat, AddTrack, On
  <2> QED
    BY <2>1, <2>2, <2>3
<1>9. CASE AudioStop
  BY <1>9 DEF AudioStop, work, fixed, On
<1>10. CASE AudioEnd
  BY <1>10 DEF AudioEnd, work, media, fixed
<1> QED
  BY <1>1, <1>2, <1>3, <1>4, <1>5, <1>6, <1>7, <1>8, <1>9, <1>10 DEF AudNext

\* What each thread is at belongs to the recording there is, until one is begun
\* too early.
LEMMA SessionKept ==
  ASSUME Inv, [Next]_vars
  PROVE  ~early' => SessionInv'
<1> SUFFICES ASSUME ~early' PROVE SessionInv'
  OBVIOUS
<1>1. Base
  BY DEF Inv, IInv, Base
<1>2. CASE UNCHANGED vars
  BY <1>2 DEF Inv, SessionInv, SetupOver, StartsAlone, SignalsReset, AudioFirst,
     EndsByEos, Session, Recording, Beginning, AudioAtWork, Ending, On, vars, work, media, begun
<1>3. CASE Next
  <2>1. SessionInv
    BY <1>3, EarlyStays DEF Inv
  <2>2. CASE CamNext
    BY <1>1, <2>1, <2>2, SessionOfCam
  <2>3. CASE VideoNothing \/ VideoFormat \/ VideoFrame \/ VideoEos \/ VideoStop \/ VideoClose
             \/ VideoEnd
    BY <1>1, <2>1, <2>3, VideoProceeds, SessionProceeds
  <2>4. CASE VideoTake \/ VideoCheck \/ VideoReport \/ AudNext
    BY <1>1, <2>1, <2>4, SessionOfStreams
  <2>5. CASE ExeNext
    BY <1>1, <2>1, <2>5, SessionSetUp
  <2> QED
    BY <1>3, <2>2, <2>3, <2>4, <2>5 DEF Next, VidNext
<1> QED
  BY <1>2, <1>3

\* No recording has begun at first.
LEMMA SessionInit ==
  ASSUME Init
  PROVE  SessionInv
<1>1. /\ \A t \in Thread : pc[t] = "idle"
      /\ posted = {} /\ tasks = <<>>
  BY DEF Init
<1> QED
  BY <1>1, Steps DEF SessionInv, SetupOver, StartsAlone, SignalsReset, AudioFirst,
     EndsByEos, Session, Recording, Beginning, AudioAtWork, Encoding, Vid, Aud, Cam, Exe

\* The invariant, for any number of recordings and failures.
LEMMA SessionAlways == Spec => [](~early => SessionInv)
<1>1. Init => Inv
  BY InitIInv, SessionInit DEF Inv
<1>2. Inv /\ [Next]_vars => Inv'
  BY StepIInv, SessionKept DEF Inv
<1>3. Inv => (~early => SessionInv)
  BY DEF Inv
<1> QED
  BY <1>1, <1>2, <1>3, PTL DEF Spec

-----------------------------------------------------------------------------
(* Theorems *)

\* Without an error, videoEncode() stops, and closes the muxer, only when
\* audioEncode() is over and not posted again, whatever fails and however the
\* threads are interleaved: the audio hands the end on to the video, and it is
\* handed over once.
THEOREM MuxerOutlives == Spec => []MuxerOutlivesAudio
<1>1. (~early => SessionInv) => MuxerOutlivesAudio
  BY DEF SessionInv, EndsByEos, AudioFirst, Recording, Encoding, AudioAtWork, MuxerOutlivesAudio
<1> QED
  BY <1>1, SessionAlways, PTL
=============================================================================
