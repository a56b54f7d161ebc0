---------------------------- MODULE MCUvcPreview ----------------------------
(***************************************************************************)
(* UvcPreview for TLC.  The names of the frames do not matter: two states  *)
(* that differ in them only are taken for one.  A state in which frames    *)
(* are not conserved is never taken for one in which they are.             *)
(***************************************************************************)
EXTENDS UvcPreview

View ==
  <<[h \in Holder |-> hand[h] # NoFrame], Len(previewFrames), Cardinality(leased),
    Cardinality(lost), Conserved, flags, mPreviewWindow, mFrameCallbackObj, stream,
    pc, request, threads, bounds>>

\* Two previews with a callback and no failure, or one of the three less
Few == starts + sets + failures <= 3
=============================================================================
