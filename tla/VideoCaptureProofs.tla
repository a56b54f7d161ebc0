------------------------- MODULE VideoCaptureProofs -------------------------
(***************************************************************************)
(* Theorems about VideoCapture, for any number of recordings and failures: *)
(* the state keeps its types, a file is reported as saved only if it is    *)
(* playable, and a playable one is not removed.  None of them needs that   *)
(* the encoders are set up again before the next recording begins.         *)
(***************************************************************************)
EXTENDS VideoCapture, SequenceTheorems, TLAPS

-----------------------------------------------------------------------------
(* The inductive invariant *)

\* startRecording has passed its guards
Beginning == pc[Cam] \in {"input", "encoders", "muxer", "signals", "post"}

\* The video thread is between two recordings.
Between == Vid \notin posted /\ pc[Vid] \in {"idle", "report"}

\* There is a muxer that the video thread has not closed.
Open == pc[Cam] \in {"signals", "post"} \/ Vid \in posted \/ pc[Vid] \in Encoding

\* Only one recording is open: a start gets past its guards only when the
\* video thread has closed the last one.
OneRecording ==
  /\ On("mEndOfAudioVideoSignal") \/ Beginning => Between
  /\ pc[Cam] = "post" => ~On("mEndOfAudioVideoSignal")
  /\ Vid \in posted => pc[Vid] \in {"idle", "report"}

\* The muxer is there while it is needed, and mMuxerStarted speaks of it.
MuxerAgrees ==
  /\ Open => mMuxer # "null"
  /\ ~Open /\ pc[Vid] # "dead" => mMuxer # "created"
  /\ ~Open /\ pc[Vid] \notin {"dead", "end"} => ~On("mMuxerStarted")
  /\ On("mMuxerStarted") => mMuxer = "started" \/ pc[Vid] = "end"

\* What mIsFirstVideoKeyFrameWrite says of the file: without an error it is
\* set only for a file with a key frame, and it is set for each of them during
\* which no start was called.
KeyFrameKnown ==
  /\ pc[Vid] \notin Encoding \cup {"end", "dead"} => ~On("mIsFirstVideoKeyFrameWrite")
  /\ pc[Vid] \in Encoding =>
       /\ file.verdict = "none"
       /\ On("mIsFirstVideoKeyFrameWrite") /\ ~errorOccurred => file.keyFrame /\ On("mMuxerStarted")
       /\ file.keyFrame /\ ~file.disturbed => On("mIsFirstVideoKeyFrameWrite")
  /\ pc[Vid] \in {"end", "report"} =>
       /\ file.verdict # "saved"
       /\ ~errorOccurred => file.keyFrame /\ file.closed

IInv ==
  /\ Places /\ flags \in [Flag -> BOOLEAN] /\ Fields
  /\ OneRecording /\ MuxerAgrees /\ KeyFrameKnown
  /\ SavedIsPlayable /\ RemovedIsUnplayable

-----------------------------------------------------------------------------
(* Types *)

LEMMA Steps ==
  /\ Thread = {Cam, Vid, Aud, Exe}
  /\ Step[Cam] = {"idle", "guards", "input", "encoders", "muxer", "signals", "post", "gone"}
  /\ Step[Vid] = {"idle", "check", "dequeue", "stop", "close", "end", "report", "dead"}
  /\ Step[Aud] = {"idle", "test", "input", "output", "stop", "end", "dead"}
  /\ Step[Exe] = {"idle", "video", "audio", "finish"}
BY DEF Thread, Step, Cam, Vid, Aud, Exe

LEMMA GotoTyped ==
  ASSUME Places, NEW t \in Thread, NEW l \in Step[t], Goto(t, l)
  PROVE  Places'
BY DEF Places, Goto

LEMMA PutTyped ==
  ASSUME flags \in [Flag -> BOOLEAN], NEW set, NEW clear, Put(set, clear)
  PROVE  flags' \in [Flag -> BOOLEAN]
BY DEF Put

LEMMA PlacesTyped ==
  ASSUME Places, Next
  PROVE  Places'
<1>1. CASE StartRecording
  BY <1>1, GotoTyped, Steps DEF StartRecording, Places
<1>30. CASE PassGuards
  BY <1>30, GotoTyped, Steps DEF PassGuards, Places
<1>2. CASE StartInput
  BY <1>2, GotoTyped, Steps DEF StartInput, Places
<1>3. CASE StartEncoders
  BY <1>3, GotoTyped, Steps DEF StartEncoders, Places
<1>4. CASE CreateMuxer
  BY <1>4, GotoTyped, Steps DEF CreateMuxer, Places
<1>5. CASE SetSignals
  BY <1>5, GotoTyped, Steps DEF SetSignals, Places
<1>6. CASE PostEncoding
  BY <1>6, GotoTyped, Steps DEF PostEncoding, Places
<1>7. CASE StopRecording
  BY <1>7, GotoTyped, Steps DEF StopRecording, Places
<1>8. CASE Release
  BY <1>8, GotoTyped, Steps DEF Release, Places
<1>9. CASE VideoTake
  BY <1>9, GotoTyped, Steps DEF VideoTake, Places
<1>10. CASE VideoCheck
  BY <1>10, GotoTyped, Steps DEF VideoCheck, VideoBroken, VideoError, Places
<1>11. CASE VideoNothing
  BY <1>11, GotoTyped, Steps DEF VideoNothing, VideoBroken, VideoError, Places
<1>12. CASE VideoFormat
  BY <1>12, GotoTyped, Steps DEF VideoFormat, VideoError, Places
<1>13. CASE VideoFrame
  BY <1>13, GotoTyped, Steps DEF VideoFrame, VideoError, Places
<1>14. CASE VideoEos
  BY <1>14, GotoTyped, Steps DEF VideoEos, Places
<1>15. CASE VideoStop
  BY <1>15, GotoTyped, Steps DEF VideoStop, Places
<1>16. CASE VideoClose
  BY <1>16, GotoTyped, Steps DEF VideoClose, Places
<1>17. CASE VideoEnd
  BY <1>17, GotoTyped, Steps DEF VideoEnd, Places
<1>18. CASE VideoReport
  BY <1>18, GotoTyped, Steps DEF VideoReport, Places
<1>19. CASE AudioTake
  BY <1>19, GotoTyped, Steps DEF AudioTake, Places
<1>20. CASE AudioTest
  BY <1>20, GotoTyped, Steps DEF AudioTest, Places
<1>21. CASE AudioInput
  BY <1>21, GotoTyped, Steps DEF AudioInput, Places
<1>22. CASE AudioOutput
  BY <1>22, GotoTyped, Steps DEF AudioOutput, Places
<1>23. CASE AudioFormat
  BY <1>23, GotoTyped, Steps DEF AudioFormat, Places
<1>24. CASE AudioStop
  BY <1>24, GotoTyped, Steps DEF AudioStop, Places
<1>25. CASE AudioEnd
  BY <1>25, GotoTyped, Steps DEF AudioEnd, Places
<1>26. CASE RunFuture
  BY <1>26, GotoTyped, Steps DEF RunFuture, Places
<1>27. CASE SetupVideo
  BY <1>27, GotoTyped, Steps DEF SetupVideo, SetupFails, Places
<1>28. CASE SetupAudio
  BY <1>28, GotoTyped, Steps DEF SetupAudio, SetupFails, Places
<1>29. CASE SetupFinish
  BY <1>29, GotoTyped, Steps DEF SetupFinish, Places
<1> QED
  BY <1>1, <1>30, <1>2, <1>3, <1>4, <1>5, <1>6, <1>7, <1>8, <1>9, <1>10, <1>11, <1>12, <1>13, <1>14,
     <1>15, <1>16, <1>17, <1>18, <1>19, <1>20, <1>21, <1>22, <1>23, <1>24, <1>25, <1>26, <1>27,
     <1>28, <1>29
     DEF Next, CamNext, Begin, VidNext, AudNext, ExeNext

LEMMA FlagsTyped ==
  ASSUME flags \in [Flag -> BOOLEAN], Fields, Next
  PROVE  flags' \in [Flag -> BOOLEAN]
<1>1. CASE StartRecording
  BY <1>1, PutTyped DEF StartRecording, Fields, work
<1>30. CASE PassGuards
  BY <1>30, PutTyped DEF PassGuards, Fields, work
<1>2. CASE StartInput
  BY <1>2, PutTyped DEF StartInput, Fields, work
<1>3. CASE StartEncoders
  BY <1>3, PutTyped DEF StartEncoders, Fields, work
<1>4. CASE CreateMuxer
  BY <1>4, PutTyped DEF CreateMuxer, Fields, work
<1>5. CASE SetSignals
  BY <1>5, PutTyped DEF SetSignals, Fields, work
<1>6. CASE PostEncoding
  BY <1>6, PutTyped DEF PostEncoding, Fields, work
<1>7. CASE StopRecording
  BY <1>7, PutTyped DEF StopRecording, Fields, work
<1>8. CASE Release
  BY <1>8, PutTyped DEF Release, Fields, work
<1>9. CASE VideoTake
  BY <1>9, PutTyped DEF VideoTake, Fields, work
<1>10. CASE VideoCheck
  BY <1>10, PutTyped DEF VideoCheck, Fields, work
<1>11. CASE VideoNothing
  BY <1>11, PutTyped DEF VideoNothing, Fields, work
<1>12. CASE VideoFormat
  BY <1>12, PutTyped DEF VideoFormat, AddTrack, Fields, work
<1>13. CASE VideoFrame
  BY <1>13, PutTyped DEF VideoFrame, Fields, work
<1>14. CASE VideoEos
  BY <1>14, PutTyped DEF VideoEos, Fields, work
<1>15. CASE VideoStop
  BY <1>15, PutTyped DEF VideoStop, Fields, work
<1>16. CASE VideoClose
  BY <1>16, PutTyped DEF VideoClose, Fields, work
<1>17. CASE VideoEnd
  BY <1>17, PutTyped DEF VideoEnd, Fields, work
<1>18. CASE VideoReport
  BY <1>18, PutTyped DEF VideoReport, Fields, work
<1>19. CASE AudioTake
  BY <1>19, PutTyped DEF AudioTake, Fields, work
<1>20. CASE AudioTest
  BY <1>20, PutTyped DEF AudioTest, Fields, work
<1>21. CASE AudioInput
  BY <1>21, PutTyped DEF AudioInput, Fields, work
<1>22. CASE AudioOutput
  BY <1>22, PutTyped DEF AudioOutput, Fields, work
<1>23. CASE AudioFormat
  BY <1>23, PutTyped DEF AudioFormat, AddTrack, Fields, work
<1>24. CASE AudioStop
  BY <1>24, PutTyped DEF AudioStop, Fields, work
<1>25. CASE AudioEnd
  BY <1>25, PutTyped DEF AudioEnd, Fields, work
<1>26. CASE RunFuture
  BY <1>26, PutTyped DEF RunFuture, Fields, work
<1>27. CASE SetupVideo
  BY <1>27, PutTyped DEF SetupVideo, SetupFails, Fields, work
<1>28. CASE SetupAudio
  BY <1>28, PutTyped DEF SetupAudio, SetupFails, Fields, work
<1>29. CASE SetupFinish
  BY <1>29, PutTyped DEF SetupFinish, Fields, work
<1> QED
  BY <1>1, <1>30, <1>2, <1>3, <1>4, <1>5, <1>6, <1>7, <1>8, <1>9, <1>10, <1>11, <1>12, <1>13, <1>14,
     <1>15, <1>16, <1>17, <1>18, <1>19, <1>20, <1>21, <1>22, <1>23, <1>24, <1>25, <1>26, <1>27,
     <1>28, <1>29
     DEF Next, CamNext, Begin, VidNext, AudNext, ExeNext

\* The values of encoder and of recorder
Codecs == [Stream -> {"uninitialized", "configured", "executing", "null"}]
Recorders == {"null", "ready", "recording"}

\* The bound of the failures is kept.
LEMMA Budget ==
  ASSUME Fields, Fail \/ Succeed
  PROVE  failures' \in 0..MaxFailures
BY RecordBounds DEF Fields, Fail, Succeed

LEMMA Queue ==
  ASSUME Fields, NEW id \in 0..MaxStarts, Execute(id)
  PROVE  tasks' \in Seq(0..MaxStarts)
BY DEF Execute, Fields

LEMMA FieldsTyped ==
  ASSUME Fields, flags \in [Flag -> BOOLEAN], Next
  PROVE  Fields'
<1>1. CASE StartRecording
  <2>1. file' \in File
    BY <1>1 DEF StartRecording, Fields, On, Flag, File
  <2>2. starts' \in 0..MaxStarts
    BY <1>1, RecordBounds DEF StartRecording, Fields
  <2>3. early' \in BOOLEAN
    BY <1>1 DEF StartRecording, Fields, Settled
  <2> QED
    BY <1>1, <2>1, <2>2, <2>3 DEF StartRecording, Fields, work, media, fixed, begun
<1>30. CASE PassGuards
  <2>1. file' \in File
    BY <1>30 DEF PassGuards, Fields, On, Flag, File
  <2>2. starts' \in 0..MaxStarts
    BY <1>30, RecordBounds DEF PassGuards, Fields
  <2>3. early' \in BOOLEAN
    BY <1>30 DEF PassGuards, Fields, Settled
  <2> QED
    BY <1>30, <2>1, <2>2, <2>3 DEF PassGuards, Fields, work, media, fixed, begun
<1>2. CASE StartInput
  <2>1. failures' \in 0..MaxFailures
    BY <1>2, Budget DEF StartInput, Fields
  <2>2. mRecordingFuture' \in 0..MaxStarts
    BY <1>2 DEF StartInput, Fields
  <2>3. quit' \in BOOLEAN /\ encoder' \in Codecs /\ recorder' \in Recorders
    BY <1>2 DEF StartInput, Fields, ReleaseAudioInput, Codecs, Recorders, Stream
  <2> QED
    BY <1>2, <2>1, <2>2, <2>3 DEF StartInput, Fields, work, media, fixed, begun, Codecs, Recorders
<1>3. CASE StartEncoders
  <2>1. failures' \in 0..MaxFailures
    BY <1>3, Budget DEF StartEncoders, Fields
  <2>2. tasks' \in Seq(0..MaxStarts)
    BY <1>3, Queue DEF StartEncoders, Fields
  <2>3. encoder' \in Codecs
    BY <1>3 DEF StartEncoders, Fields, Codecs
  <2>4. shown' \subseteq Stream /\ eos' \subseteq Stream
    BY <1>3 DEF StartEncoders, Fields
  <2> QED
    BY <1>3, <2>1, <2>2, <2>3, <2>4 DEF StartEncoders, Fields, work, media, fixed, begun, Codecs
<1>4. CASE CreateMuxer
  <2>1. failures' \in 0..MaxFailures
    BY <1>4, Budget DEF CreateMuxer, Fields
  <2>2. tasks' \in Seq(0..MaxStarts)
    BY <1>4, Queue DEF CreateMuxer, Fields
  <2> QED
    BY <1>4, <2>1, <2>2 DEF CreateMuxer, Fields, work, media, fixed, begun
<1>5. CASE SetSignals
  <2>1. file' \in File
    BY <1>5 DEF SetSignals, Fields, File
  <2> QED
    BY <1>5, <2>1 DEF SetSignals, Fields, work, media, fixed, begun
<1>6. CASE PostEncoding
  BY <1>6, RecordBounds DEF PostEncoding, Stream, On, Flag, Fields, work, media, fixed, begun
<1>7. CASE StopRecording
  <2>1. file' \in File
    BY <1>7 DEF StopRecording, Fields, File
  <2> QED
    BY <1>7, <2>1 DEF StopRecording, Fields, work, media, fixed, begun
<1>8. CASE Release
  <2>1. file' \in File
    BY <1>8 DEF Release, Fields, On, Flag, File
  <2>2. quit' \in BOOLEAN /\ encoder' \in Codecs /\ recorder' \in Recorders /\ freed' \in BOOLEAN
    BY <1>8 DEF Release, Fields, ReleaseResources, Codecs, Recorders
  <2> QED
    BY <1>8, <2>1, <2>2 DEF Release, Fields, work, media, fixed, begun, Codecs, Recorders
<1>9. CASE VideoTake
  <2>1. file' \in File
    BY <1>9 DEF VideoTake, Fields, NewFile, File
  <2> QED
    BY <1>9, <2>1 DEF VideoTake, Fields, work, media, fixed, begun
<1>10. CASE VideoCheck
  <2>1. eos' \subseteq Stream /\ errorOccurred' \in BOOLEAN
    BY <1>10 DEF VideoCheck, Fields, VideoBroken, VideoError, Stream, media
  <2> QED
    BY <1>10, <2>1 DEF VideoCheck, Fields, work, media, fixed, begun
<1>11. CASE VideoNothing
  <2>1. failures' \in 0..MaxFailures
    BY <1>11, Budget DEF VideoNothing, Fields
  <2>2. errorOccurred' \in BOOLEAN
    BY <1>11 DEF VideoNothing, Fields, VideoBroken, VideoError
  <2> QED
    BY <1>11, <2>1, <2>2 DEF VideoNothing, Fields, work, media, fixed, begun
<1>12. CASE VideoFormat
  <2>1. track' \subseteq Stream /\ shown' \subseteq Stream
    BY <1>12 DEF VideoFormat, Fields, AddTrack, Stream
  <2>2. mMuxer' \in {"null", "created", "started"}
    BY <1>12 DEF VideoFormat, Fields, AddTrack
  <2>3. errorOccurred' \in BOOLEAN
    BY <1>12 DEF VideoFormat, Fields, VideoError
  <2> QED
    BY <1>12, <2>1, <2>2, <2>3 DEF VideoFormat, Fields, work, media, fixed, begun
<1>13. CASE VideoFrame
  <2>1. failures' \in 0..MaxFailures
    BY <1>13, Budget DEF VideoFrame, Fields
  <2>2. file' \in File
    BY <1>13 DEF VideoFrame, Fields, On, Flag, File
  <2>3. errorOccurred' \in BOOLEAN
    BY <1>13 DEF VideoFrame, Fields, VideoError
  <2> QED
    BY <1>13, <2>1, <2>2, <2>3 DEF VideoFrame, Fields, work, media, fixed, begun
<1>14. CASE VideoEos
  BY <1>14, RecordBounds DEF VideoEos, On, Flag, Fields, work, media, fixed, begun
<1>15. CASE VideoStop
  <2>1. failures' \in 0..MaxFailures
    BY <1>15, Budget DEF VideoStop, Fields
  <2>2. encoder' \in Codecs /\ errorOccurred' \in BOOLEAN
    BY <1>15 DEF VideoStop, Fields, Codecs
  <2> QED
    BY <1>15, <2>1, <2>2 DEF VideoStop, Fields, work, media, fixed, begun, Codecs
<1>16. CASE VideoClose
  <2>1. failures' \in 0..MaxFailures
    BY <1>16, Budget DEF VideoClose, Fields
  <2>2. file' \in File
    BY <1>16 DEF VideoClose, Fields, On, Flag, File
  <2>3. errorOccurred' \in BOOLEAN
    BY <1>16 DEF VideoClose, Fields, Playable, On, Flag
  <2> QED
    BY <1>16, <2>1, <2>2, <2>3 DEF VideoClose, Fields, work, media, fixed, begun
<1>17. CASE VideoEnd
  BY <1>17, RecordBounds DEF VideoEnd, On, Flag, Fields, work, media, fixed, begun
<1>18. CASE VideoReport
  <2>1. file' \in File
    BY <1>18 DEF VideoReport, Fields, File
  <2>2. tasks' \in Seq(0..MaxStarts)
    BY <1>18, Queue DEF VideoReport, Fields
  <2> QED
    BY <1>18, <2>1, <2>2 DEF VideoReport, Fields, work, media, fixed, begun
<1>19. CASE AudioTake
  BY <1>19, RecordBounds DEF AudioTake, On, Flag, Fields, work, media, fixed, begun
<1>20. CASE AudioTest
  BY <1>20, RecordBounds DEF AudioTest, On, Flag, Fields, work, media, fixed, begun
<1>21. CASE AudioInput
  BY <1>21, RecordBounds DEF AudioInput, Stream, On, Flag, Fields, work, media, fixed, begun
<1>22. CASE AudioOutput
  BY <1>22, RecordBounds DEF AudioOutput, Fail, Succeed, On, Flag, Fields, work, media, fixed, begun
<1>23. CASE AudioFormat
  BY <1>23, RecordBounds DEF AudioFormat, AddTrack, Stream, On, Flag, Fields, work, media, fixed,
     begun
<1>24. CASE AudioStop
  BY <1>24, RecordBounds DEF AudioStop, Fail, Succeed, Stream, On, Flag, Fields, work, media,
     fixed, begun
<1>25. CASE AudioEnd
  BY <1>25, RecordBounds DEF AudioEnd, On, Flag, Fields, work, media, fixed, begun
<1>26. CASE RunFuture
  <2>1. Head(tasks) \in 0..MaxStarts /\ Tail(tasks) \in Seq(0..MaxStarts)
    BY <1>26, HeadTailProperties DEF RunFuture, Fields
  <2>2. quit' \in BOOLEAN /\ encoder' \in Codecs /\ recorder' \in Recorders /\ freed' \in BOOLEAN
    BY <1>26 DEF RunFuture, Fields, ReleaseResources, Codecs, Recorders
  <2> QED
    BY <1>26, <2>1, <2>2 DEF RunFuture, Fields, work, media, fixed, begun, Codecs, Recorders
<1>27. CASE SetupVideo
  BY <1>27, RecordBounds DEF SetupVideo, SetupFails, Reset, Fail, Succeed, Stream, On, Flag,
     Fields, work, media, fixed, begun
<1>28. CASE SetupAudio
  BY <1>28, RecordBounds DEF SetupAudio, SetupFails, Reset, Fail, Succeed, Stream, On, Flag,
     Fields, work, media, fixed, begun
<1>29. CASE SetupFinish
  BY <1>29, RecordBounds DEF SetupFinish, On, Flag, Fields, work, media, fixed, begun
<1> QED
  BY <1>1, <1>30, <1>2, <1>3, <1>4, <1>5, <1>6, <1>7, <1>8, <1>9, <1>10, <1>11, <1>12, <1>13, <1>14,
     <1>15, <1>16, <1>17, <1>18, <1>19, <1>20, <1>21, <1>22, <1>23, <1>24, <1>25, <1>26, <1>27,
     <1>28, <1>29
     DEF Next, CamNext, Begin, VidNext, AudNext, ExeNext

-----------------------------------------------------------------------------
(* What a step changes *)

LEMMA GotoValue ==
  ASSUME Places, NEW t \in Thread, NEW l, Goto(t, l)
  PROVE  pc'[t] = l /\ \A u \in Thread : u # t => pc'[u] = pc[u]
BY DEF Places, Goto

LEMMA PutValue ==
  ASSUME flags \in [Flag -> BOOLEAN], NEW set, NEW clear, Put(set, clear), NEW f \in Flag
  PROVE  /\ f \in set => On(f)'
         /\ f \notin set /\ f \in clear => ~On(f)'
         /\ f \notin set /\ f \notin clear => (On(f)' <=> On(f))
BY DEF Put, On

LEMMA EndSignals ==
  EndSignal \subseteq {"mEndOfAudioStreamSignal", "mEndOfVideoStreamSignal"}
BY DEF EndSignal

\* What the theorems are about is not changed, but for the muxer.
Apart ==
  /\ pc'[Cam] = pc[Cam] /\ pc'[Vid] = pc[Vid]
  /\ Vid \in posted' <=> Vid \in posted
  /\ On("mEndOfAudioVideoSignal")' <=> On("mEndOfAudioVideoSignal")
  /\ On("mIsFirstVideoKeyFrameWrite")' <=> On("mIsFirstVideoKeyFrameWrite")
  /\ UNCHANGED <<file, errorOccurred>>

MuxerKept == (On("mMuxerStarted")' <=> On("mMuxerStarted")) /\ UNCHANGED mMuxer

\* The audio thread and the executor leave the file alone, and the muxer but
\* for the track of the audio.
LEMMA OthersApart ==
  ASSUME Places, flags \in [Flag -> BOOLEAN], Fields, AudNext \/ ExeNext
  PROVE  Apart /\ (~AudioFormat => MuxerKept)
<1> USE Steps, GotoValue, PutValue DEF Apart, MuxerKept, Flag, Vid, Aud, Cam, Exe
<1>1. CASE AudioTake
  BY <1>1 DEF AudioTake, work, fixed, On
<1>2. CASE AudioTest
  BY <1>2 DEF AudioTest, work, fixed
<1>3. CASE AudioInput
  BY <1>3 DEF AudioInput, work, fixed, On
<1>4. CASE AudioOutput
  BY <1>4 DEF AudioOutput, work, fixed, On
<1>5. CASE AudioFormat
  BY <1>5 DEF AudioFormat, AddTrack, work, fixed, On
<1>6. CASE AudioStop
  BY <1>6 DEF AudioStop, work, fixed, On
<1>7. CASE AudioEnd
  BY <1>7 DEF AudioEnd, work, fixed
<1>8. CASE RunFuture
  BY <1>8 DEF RunFuture, fixed, On
<1>9. CASE SetupVideo
  BY <1>9 DEF SetupVideo, SetupFails, work, fixed, On
<1>10. CASE SetupAudio
  BY <1>10 DEF SetupAudio, SetupFails, work, fixed, On
<1>11. CASE SetupFinish
  BY <1>11 DEF SetupFinish, work, fixed
<1> QED
  BY <1>1, <1>2, <1>3, <1>4, <1>5, <1>6, <1>7, <1>8, <1>9, <1>10, <1>11 DEF AudNext, ExeNext

-----------------------------------------------------------------------------
(* Only one recording is open *)

LEMMA OneRecordingKept ==
  ASSUME IInv, Next
  PROVE  OneRecording'
<1>0. Places /\ flags \in [Flag -> BOOLEAN] /\ Fields /\ OneRecording
  BY DEF IInv
<1> USE Steps, GotoValue, PutValue, EndSignals
    DEF OneRecording, Beginning, Between, Flag, Vid, Aud, Cam, Exe
<1>1. CASE StartRecording
  BY <1>0, <1>1 DEF StartRecording, work
<1>30. CASE PassGuards
  BY <1>0, <1>30 DEF PassGuards, work, media, On
<1>2. CASE StartInput
  BY <1>0, <1>2 DEF StartInput, On
<1>3. CASE StartEncoders
  BY <1>0, <1>3 DEF StartEncoders, On
<1>4. CASE CreateMuxer
  BY <1>0, <1>4 DEF CreateMuxer, On
<1>5. CASE SetSignals
  BY <1>0, <1>5 DEF SetSignals, work
<1>6. CASE PostEncoding
  BY <1>0, <1>6 DEF PostEncoding, On
<1>7. CASE StopRecording
  BY <1>0, <1>7 DEF StopRecording, work
<1>8. CASE Release
  BY <1>0, <1>8 DEF Release
<1>9. CASE VideoTake
  BY <1>0, <1>9 DEF VideoTake, On
<1>10. CASE VideoCheck
  BY <1>0, <1>10 DEF VideoCheck, VideoBroken, VideoError, work, On
<1>11. CASE VideoNothing
  BY <1>0, <1>11 DEF VideoNothing, VideoBroken, VideoError, work, On
<1>12. CASE VideoFormat
  BY <1>0, <1>12 DEF VideoFormat, VideoError, AddTrack, work, On
<1>13. CASE VideoFrame
  BY <1>0, <1>13 DEF VideoFrame, VideoError, KeyFrameNoted, work, On
<1>14. CASE VideoEos
  BY <1>0, <1>14 DEF VideoEos, work, On
<1>15. CASE VideoStop
  BY <1>0, <1>15 DEF VideoStop, work, On
<1>16. CASE VideoClose
  BY <1>0, <1>16 DEF VideoClose, work, On
<1>17. CASE VideoEnd
  <2>1. pc[Vid] = "end" /\ pc'[Vid] = "report" /\ pc'[Cam] = pc[Cam] /\ UNCHANGED posted
    BY <1>0, <1>17 DEF VideoEnd, work
  <2>2. Vid \notin posted /\ ~Beginning
    BY <1>0, <2>1
  <2> QED
    BY <2>1, <2>2
<1>18. CASE VideoReport
  BY <1>0, <1>18 DEF VideoReport, On
<1>19. CASE AudNext \/ ExeNext
  BY <1>0, <1>19, OthersApart DEF Apart
<1> QED
  BY <1>1, <1>30, <1>2, <1>3, <1>4, <1>5, <1>6, <1>7, <1>8, <1>9, <1>10, <1>11, <1>12, <1>13,
     <1>14, <1>15, <1>16, <1>17, <1>18, <1>19 DEF Next, CamNext, Begin, VidNext





-----------------------------------------------------------------------------
(* The muxer *)

LEMMA MuxerAgreesKept ==
  ASSUME IInv, Next
  PROVE  MuxerAgrees'
<1>0. Places /\ flags \in [Flag -> BOOLEAN] /\ Fields /\ OneRecording /\ MuxerAgrees
  BY DEF IInv
<1> USE Steps, GotoValue, PutValue, EndSignals
    DEF MuxerAgrees, Open, OneRecording, Beginning, Between, Encoding, Flag, Vid, Aud, Cam, Exe
<1>1. CASE StartRecording
  BY <1>0, <1>1 DEF StartRecording, work
<1>30. CASE PassGuards
  BY <1>0, <1>30 DEF PassGuards, work, media, On
<1>2. CASE StartInput
  BY <1>0, <1>2 DEF StartInput, On
<1>3. CASE StartEncoders
  BY <1>0, <1>3 DEF StartEncoders, On
<1>4. CASE CreateMuxer
  BY <1>0, <1>4 DEF CreateMuxer, On
<1>5. CASE SetSignals
  BY <1>0, <1>5 DEF SetSignals, work
<1>6. CASE PostEncoding
  BY <1>0, <1>6 DEF PostEncoding, On
<1>7. CASE StopRecording
  BY <1>0, <1>7 DEF StopRecording, work
<1>8. CASE Release
  BY <1>0, <1>8 DEF Release, On
<1>9. CASE VideoTake
  BY <1>0, <1>9 DEF VideoTake, On
<1>10. CASE VideoCheck
  BY <1>0, <1>10 DEF VideoCheck, VideoBroken, VideoError, work, On
<1>11. CASE VideoNothing
  BY <1>0, <1>11 DEF VideoNothing, VideoBroken, VideoError, work, On
<1>12. CASE VideoFormat
  BY <1>0, <1>12 DEF VideoFormat, VideoError, AddTrack, work, On
<1>13. CASE VideoFrame
  BY <1>0, <1>13 DEF VideoFrame, VideoError, KeyFrameNoted, work, On
<1>14. CASE VideoEos
  BY <1>0, <1>14 DEF VideoEos, work, On
<1>15. CASE VideoStop
  BY <1>0, <1>15 DEF VideoStop, work, On
<1>16. CASE VideoClose
  BY <1>0, <1>16 DEF VideoClose, Playable, work, On
<1>17. CASE VideoEnd
  BY <1>0, <1>17 DEF VideoEnd, work
<1>18. CASE VideoReport
  BY <1>0, <1>18 DEF VideoReport, On
<1>19. CASE AudNext \/ ExeNext
  <2>1. CASE AudioFormat
    <3>1. Apart /\ pc[Vid] # "dead"
      BY <1>0, <1>19, OthersApart DEF Next, Crashed
    <3>2. CASE mMuxer = "created"
      <4>1. mMuxer' = "started" \/ MuxerKept
        BY <1>0, <2>1, <3>2 DEF AudioFormat, AddTrack, MuxerKept, On
      <4> QED
        BY <1>0, <3>1, <3>2, <4>1 DEF Apart, MuxerKept
    <3>3. CASE mMuxer # "created"
      BY <1>0, <2>1, <3>1, <3>3 DEF AudioFormat, Apart, On
    <3> QED
      BY <3>2, <3>3
  <2>2. CASE ~AudioFormat
    BY <1>0, <1>19, <2>2, OthersApart DEF Apart, MuxerKept
  <2> QED
    BY <2>1, <2>2
<1> QED
  BY <1>1, <1>30, <1>2, <1>3, <1>4, <1>5, <1>6, <1>7, <1>8, <1>9, <1>10, <1>11, <1>12, <1>13,
     <1>14, <1>15, <1>16, <1>17, <1>18, <1>19 DEF Next, CamNext, Begin, VidNext

-----------------------------------------------------------------------------
(* The file *)

ClosedFile ==
  file' = [file EXCEPT !.closed = On("mMuxerStarted"),
                       !.verdict = IF Playable THEN "none" ELSE "removed"]

LEMMA ClosedFields ==
  ASSUME file \in File, ClosedFile
  PROVE  /\ file'.keyFrame = file.keyFrame /\ file'.disturbed = file.disturbed
         /\ file'.closed = On("mMuxerStarted")
         /\ file'.verdict = IF Playable THEN "none" ELSE "removed"
BY DEF ClosedFile, File

\* Closing without an error means that the muxer was stopped and the file playable.
LEMMA VideoCloses ==
  ASSUME VideoClose
  PROVE  /\ file' = file \/ ClosedFile
         /\ ~errorOccurred' => ~errorOccurred /\ Playable /\ ClosedFile
BY DEF VideoClose, ClosedFile

\* A file is removed when its first key frame was not noted.
LEMMA ClosedRemoved ==
  ASSUME file \in File, VideoClose, file.verdict = "none",
         file.keyFrame /\ ~file.disturbed => Playable
  PROVE  RemovedIsUnplayable'
<1>1. CASE file' = file
  BY <1>1 DEF RemovedIsUnplayable
<1>2. CASE ClosedFile
  BY <1>2, ClosedFields DEF RemovedIsUnplayable
<1> QED
  BY <1>1, <1>2, VideoCloses

LEMMA KeyFrameKnownKept ==
  ASSUME IInv, Next
  PROVE  KeyFrameKnown'
<1>0. Places /\ flags \in [Flag -> BOOLEAN] /\ Fields /\ OneRecording /\ MuxerAgrees /\ KeyFrameKnown
  BY DEF IInv
<1> USE Steps, GotoValue, PutValue, EndSignals
    DEF KeyFrameKnown, OneRecording, Between, Beginning, Fields, fixed, begun, Encoding, Flag,
       File, NewFile, Vid, Aud, Cam, Exe
<1>1. CASE StartRecording
  BY <1>0, <1>1 DEF StartRecording, work
<1>30. CASE PassGuards
  BY <1>0, <1>30 DEF PassGuards, work, media, On
<1>2. CASE StartInput
  BY <1>0, <1>2 DEF StartInput, On
<1>3. CASE StartEncoders
  BY <1>0, <1>3 DEF StartEncoders, On
<1>4. CASE CreateMuxer
  BY <1>0, <1>4 DEF CreateMuxer, On
<1>5. CASE SetSignals
  BY <1>0, <1>5 DEF SetSignals, work
<1>6. CASE PostEncoding
  BY <1>0, <1>6 DEF PostEncoding, On
<1>7. CASE StopRecording
  BY <1>0, <1>7 DEF StopRecording, work
<1>8. CASE Release
  BY <1>0, <1>8 DEF Release, On
<1>9. CASE VideoTake
  BY <1>0, <1>9 DEF VideoTake, On
<1>10. CASE VideoCheck
  BY <1>0, <1>10 DEF VideoCheck, VideoBroken, VideoError, work, On
<1>11. CASE VideoNothing
  BY <1>0, <1>11 DEF VideoNothing, VideoBroken, VideoError, work, On
<1>12. CASE VideoFormat
  BY <1>0, <1>12 DEF VideoFormat, VideoError, AddTrack, work, On
<1>13. CASE VideoFrame
  BY <1>0, <1>13 DEF VideoFrame, VideoError, KeyFrameNoted, work, On
<1>14. CASE VideoEos
  BY <1>0, <1>14 DEF VideoEos, work, On
<1>15. CASE VideoStop
  BY <1>0, <1>15 DEF VideoStop, work, On
<1>16. CASE VideoClose
  <2>1. pc[Vid] = "close" /\ pc'[Vid] = "end" /\ UNCHANGED flags
    BY <1>0, <1>16 DEF VideoClose
  <2>2. file.verdict = "none" /\ (Playable /\ ~errorOccurred => file.keyFrame /\ On("mMuxerStarted"))
    BY <1>0, <2>1 DEF Playable
  <2>3. file'.verdict # "saved"
    BY <1>0, <1>16, <2>2 DEF VideoClose
  <2>4. ASSUME ~errorOccurred'
        PROVE  file'.keyFrame /\ file'.closed
    <3>1. ~errorOccurred /\ Playable /\ ClosedFile
      BY <1>16, <2>4, VideoCloses
    <3> QED
      BY <1>0, <2>2, <3>1, ClosedFields DEF Fields
  <2> QED
    BY <2>1, <2>3, <2>4
<1>17. CASE VideoEnd
  BY <1>0, <1>17 DEF VideoEnd, work
<1>18. CASE VideoReport
  BY <1>0, <1>18 DEF VideoReport, On
<1>19. CASE AudNext \/ ExeNext
  <2>1. On("mMuxerStarted") => On("mMuxerStarted")'
    <3>1. CASE AudioFormat
      <4>1. UNCHANGED flags \/ Put({"mMuxerStarted"}, {})
        BY <3>1 DEF AudioFormat, AddTrack
      <4>2. CASE UNCHANGED flags
        BY <4>2 DEF On
      <4>3. CASE Put({"mMuxerStarted"}, {})
        BY <1>0, <4>3
      <4> QED
        BY <4>1, <4>2, <4>3
    <3>2. CASE ~AudioFormat
      BY <1>0, <1>19, <3>2, OthersApart DEF MuxerKept
    <3> QED
      BY <3>1, <3>2
  <2> QED
    BY <1>0, <1>19, <2>1, OthersApart DEF Apart
<1> QED
  BY <1>1, <1>30, <1>2, <1>3, <1>4, <1>5, <1>6, <1>7, <1>8, <1>9, <1>10, <1>11, <1>12, <1>13,
     <1>14, <1>15, <1>16, <1>17, <1>18, <1>19 DEF Next, CamNext, Begin, VidNext

LEMMA SavedKept ==
  ASSUME IInv, Next
  PROVE  SavedIsPlayable'
<1>0. Places /\ flags \in [Flag -> BOOLEAN] /\ Fields /\ OneRecording /\ MuxerAgrees /\ KeyFrameKnown /\ SavedIsPlayable
  BY DEF IInv
<1> USE Steps, GotoValue
    DEF SavedIsPlayable, KeyFrameKnown, Fields, fixed, begun, Encoding, Flag, File, NewFile, Vid,
       Aud, Cam, Exe
<1>1. CASE StartRecording
  BY <1>0, <1>1 DEF StartRecording, work
<1>30. CASE PassGuards
  BY <1>0, <1>30 DEF PassGuards, work
<1>2. CASE StartInput
  BY <1>0, <1>2 DEF StartInput, On
<1>3. CASE StartEncoders
  BY <1>0, <1>3 DEF StartEncoders, On
<1>4. CASE CreateMuxer
  BY <1>0, <1>4 DEF CreateMuxer, On
<1>5. CASE SetSignals
  BY <1>0, <1>5 DEF SetSignals, work
<1>6. CASE PostEncoding
  BY <1>0, <1>6 DEF PostEncoding, On
<1>7. CASE StopRecording
  BY <1>0, <1>7 DEF StopRecording, work
<1>8. CASE Release
  BY <1>0, <1>8 DEF Release, On
<1>9. CASE VideoTake
  BY <1>0, <1>9 DEF VideoTake, On
<1>10. CASE VideoCheck
  BY <1>0, <1>10 DEF VideoCheck, VideoBroken, VideoError, work, On
<1>11. CASE VideoNothing
  BY <1>0, <1>11 DEF VideoNothing, VideoBroken, VideoError, work, On
<1>12. CASE VideoFormat
  BY <1>0, <1>12 DEF VideoFormat, VideoError, AddTrack, work, On
<1>13. CASE VideoFrame
  BY <1>0, <1>13 DEF VideoFrame, VideoError, KeyFrameNoted, work, On
<1>14. CASE VideoEos
  BY <1>0, <1>14 DEF VideoEos, work, On
<1>15. CASE VideoStop
  BY <1>0, <1>15 DEF VideoStop, work, On
<1>16. CASE VideoClose
  BY <1>0, <1>16 DEF VideoClose, Playable, work, On
<1>17. CASE VideoEnd
  BY <1>0, <1>17 DEF VideoEnd, work
<1>18. CASE VideoReport
  BY <1>0, <1>18 DEF VideoReport, On
<1>19. CASE AudNext \/ ExeNext
  BY <1>0, <1>19, OthersApart DEF Apart
<1> QED
  BY <1>1, <1>30, <1>2, <1>3, <1>4, <1>5, <1>6, <1>7, <1>8, <1>9, <1>10, <1>11, <1>12, <1>13,
     <1>14, <1>15, <1>16, <1>17, <1>18, <1>19 DEF Next, CamNext, Begin, VidNext

LEMMA RemovedKept ==
  ASSUME IInv, Next
  PROVE  RemovedIsUnplayable'
<1>0. Places /\ flags \in [Flag -> BOOLEAN] /\ Fields /\ OneRecording /\ MuxerAgrees /\ KeyFrameKnown /\ RemovedIsUnplayable
  BY DEF IInv
<1> USE Steps, GotoValue
    DEF RemovedIsUnplayable, KeyFrameKnown, Fields, fixed, begun, Encoding, Flag, File, NewFile,
       Vid, Aud, Cam, Exe
<1>1. CASE StartRecording
  BY <1>0, <1>1 DEF StartRecording, work
<1>30. CASE PassGuards
  BY <1>0, <1>30 DEF PassGuards, work
<1>2. CASE StartInput
  BY <1>0, <1>2 DEF StartInput, On
<1>3. CASE StartEncoders
  BY <1>0, <1>3 DEF StartEncoders, On
<1>4. CASE CreateMuxer
  BY <1>0, <1>4 DEF CreateMuxer, On
<1>5. CASE SetSignals
  BY <1>0, <1>5 DEF SetSignals, work
<1>6. CASE PostEncoding
  BY <1>0, <1>6 DEF PostEncoding, On
<1>7. CASE StopRecording
  BY <1>0, <1>7 DEF StopRecording, work
<1>8. CASE Release
  BY <1>0, <1>8 DEF Release, On
<1>9. CASE VideoTake
  BY <1>0, <1>9 DEF VideoTake, On
<1>10. CASE VideoCheck
  BY <1>0, <1>10 DEF VideoCheck, VideoBroken, VideoError, work, On
<1>11. CASE VideoNothing
  BY <1>0, <1>11 DEF VideoNothing, VideoBroken, VideoError, work, On
<1>12. CASE VideoFormat
  BY <1>0, <1>12 DEF VideoFormat, VideoError, AddTrack, work, On
<1>13. CASE VideoFrame
  BY <1>0, <1>13 DEF VideoFrame, VideoError, KeyFrameNoted, work, On
<1>14. CASE VideoEos
  BY <1>0, <1>14 DEF VideoEos, work, On
<1>15. CASE VideoStop
  BY <1>0, <1>15 DEF VideoStop, work, On
<1>16. CASE VideoClose
  <2>1. file.verdict = "none" /\ (file.keyFrame /\ ~file.disturbed => Playable)
    BY <1>0, <1>16 DEF VideoClose, Playable
  <2> QED
    BY <1>0, <1>16, <2>1, ClosedRemoved DEF Fields
<1>17. CASE VideoEnd
  BY <1>0, <1>17 DEF VideoEnd, work
<1>18. CASE VideoReport
  BY <1>0, <1>18 DEF VideoReport, On
<1>19. CASE AudNext \/ ExeNext
  BY <1>0, <1>19, OthersApart DEF Apart
<1> QED
  BY <1>1, <1>30, <1>2, <1>3, <1>4, <1>5, <1>6, <1>7, <1>8, <1>9, <1>10, <1>11, <1>12, <1>13,
     <1>14, <1>15, <1>16, <1>17, <1>18, <1>19 DEF Next, CamNext, Begin, VidNext
-----------------------------------------------------------------------------
(* Theorems *)

LEMMA InitIInv ==
  ASSUME Init
  PROVE  IInv
<1> USE Steps DEF Init
<1>1. Places
  BY DEF Places
<1>2. flags \in [Flag -> BOOLEAN]
  OBVIOUS
<1>3. Fields
  <2>1. tasks \in Seq(0..MaxStarts)
    BY EmptySeq
  <2>2. encoder \in [Stream -> {"uninitialized", "configured", "executing", "null"}]
    OBVIOUS
  <2>3. file \in File
    BY DEF File, NewFile
  <2>4. recorder \in {"null", "ready", "recording"}
    OBVIOUS
  <2>5. /\ posted \subseteq Stream /\ ran \subseteq 0..MaxStarts /\ track \subseteq Stream
        /\ shown \subseteq Stream /\ eos \subseteq Stream /\ initFailed \subseteq Stream
    OBVIOUS
  <2>6. /\ mRecordingFuture \in 0..MaxStarts /\ starts \in 0..MaxStarts
        /\ failures \in 0..MaxFailures
    BY RecordBounds
  <2>7. quit \in BOOLEAN /\ audioWanted \in BOOLEAN /\ freed \in BOOLEAN /\ early \in BOOLEAN
        /\ errorOccurred \in BOOLEAN /\ mMuxer \in {"null", "created", "started"}
    OBVIOUS
  <2> HIDE DEF Init
  <2> QED
    BY <2>1, <2>2, <2>3, <2>4, <2>5, <2>6, <2>7 DEF Fields
<1>4. OneRecording /\ MuxerAgrees
  BY DEF OneRecording, MuxerAgrees, Open, Between, Beginning, Encoding, On, Flag, Vid, Cam
<1>5. KeyFrameKnown
  BY DEF KeyFrameKnown, Encoding, On, Flag, Vid
<1>6. SavedIsPlayable /\ RemovedIsUnplayable
  BY DEF SavedIsPlayable, RemovedIsUnplayable, NewFile
<1> QED
  BY <1>1, <1>2, <1>3, <1>4, <1>5, <1>6 DEF IInv

LEMMA StepIInv ==
  ASSUME IInv, [Next]_vars
  PROVE  IInv'
<1>1. CASE Next
  <2>1. Places' /\ flags' \in [Flag -> BOOLEAN] /\ Fields'
    BY <1>1, PlacesTyped, FlagsTyped, FieldsTyped DEF IInv
  <2> QED
    BY <1>1, <2>1, OneRecordingKept, MuxerAgreesKept, KeyFrameKnownKept, SavedKept, RemovedKept
       DEF IInv
<1>2. CASE UNCHANGED vars
  BY <1>2 DEF vars, media, work, begun, fixed, IInv, Places, Fields, OneRecording, MuxerAgrees,
     Open, Between, Beginning, KeyFrameKnown, SavedIsPlayable, RemovedIsUnplayable, On
<1> QED
  BY <1>1, <1>2

LEMMA Inductive == Spec => []IInv
<1>1. Init => IInv
  BY InitIInv
<1>2. IInv /\ [Next]_vars => IInv'
  BY StepIInv
<1> QED
  BY <1>1, <1>2, PTL DEF Spec

\* The fields, the encoders and the threads keep their types, mMuxerStarted
\* speaks of the muxer there is, and a video that is being encoded has one:
\* videoEncode() uses mMuxer without asking.
THEOREM TypeCorrect == Spec => []TypeOK
<1>1. IInv => TypeOK
  BY DEF IInv, TypeOK, MuxerAgrees, Open
<1> QED
  BY <1>1, Inductive, PTL

\* onVideoSaved() is called only for a file that has a key frame and whose
\* muxer was stopped, whatever fails and however the calls are interleaved.
THEOREM SavedPlayable == Spec => []SavedIsPlayable
<1>1. IInv => SavedIsPlayable
  BY DEF IInv
<1> QED
  BY <1>1, Inductive, PTL

\* The video thread removes a file only if it has no key frame, or
\* startRecording() was called while it was recorded, which clears
\* mIsFirstVideoKeyFrameWrite before its guards.
THEOREM RemovedUnplayable == Spec => []RemovedIsUnplayable
<1>1. IInv => RemovedIsUnplayable
  BY DEF IInv
<1> QED
  BY <1>1, Inductive, PTL
=============================================================================
