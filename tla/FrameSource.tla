---------------------------- MODULE FrameSource ----------------------------
(***************************************************************************)
(* What uvc_start_streaming and uvc_stop_streaming promise the code that   *)
(* previews a camera.                                                      *)
(*                                                                         *)
(* Between a start that succeeds and the return of the stop, libuvc calls  *)
(* the frame callback from a thread of its own, one call at a time.  The   *)
(* stop returns only when no call is running, and no call begins after     *)
(* it.  UvcStream is the streaming code and implements this; UvcPreview    *)
(* is the code that relies on it and is built from these actions.          *)
(***************************************************************************)

VARIABLES
  stream,      \* "closed", "open", or "stopping": the stop has been called
  inCallback   \* the frame callback is running

vars == <<stream, inCallback>>

TypeOK ==
  /\ stream \in {"closed", "open", "stopping"}
  /\ inCallback \in BOOLEAN

Init == stream = "closed" /\ inCallback = FALSE

\* A start that fails leaves the stream closed.
Start ==
  /\ stream = "closed"
  /\ stream' = "open"
  /\ UNCHANGED inCallback

\* A call may still begin after the stop was called, not after it returned.
Call ==
  /\ stream \in {"open", "stopping"}
  /\ ~inCallback
  /\ inCallback' = TRUE
  /\ UNCHANGED stream

Return ==
  /\ inCallback
  /\ inCallback' = FALSE
  /\ UNCHANGED stream

Stop ==
  /\ stream = "open"
  /\ stream' = "stopping"
  /\ UNCHANGED inCallback

Stopped ==
  /\ stream = "stopping"
  /\ ~inCallback
  /\ stream' = "closed"
  /\ UNCHANGED inCallback

Next == Start \/ Call \/ Return \/ Stop \/ Stopped

Spec == Init /\ [][Next]_vars
=============================================================================
