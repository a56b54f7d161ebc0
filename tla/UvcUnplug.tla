------------------------------ MODULE UvcUnplug ------------------------------
(***************************************************************************)
(* UvcStream with a camera that is unplugged: what the kernel and libusb   *)
(* do then.                                                                *)
(*                                                                         *)
(* The kernel ends the URBs that are in flight.  reap_for_handle throws    *)
(* away one that comes back with ESHUTDOWN, so that its transfer stays in  *)
(* flight for libusb ("lost").  usbi_handle_disconnect, which is called    *)
(* once, is to terminate the transfers; the loop around its body is        *)
(* commented out.  What the program does with a transfer that was freed in *)
(* flight is undefined and not followed.                                   *)
(***************************************************************************)
EXTENDS UvcStream

VARIABLE disconnected   \* usbi_handle_disconnect has been called

unplugVars == <<vars, disconnected>>

Unplug ==
  /\ plugged
  /\ plugged' = FALSE
  /\ \E S \in SUBSET {t \in Transfer : flight[t] = "flying"} :
       flight' = [t \in Transfer |-> IF t \in S THEN "lost" ELSE flight[t]]
  /\ UNCHANGED <<running, transfers, current, next, pc, data, camera, bounds, disconnected>>

\* Nothing is reaped any more once the file descriptor has been removed.
Abandoned(f) == CASE f = "flying" -> "lost" [] f = "cancelled" -> "stuck" [] OTHER -> f

\* usbi_handle_disconnect, called by op_handle_events when no URB is left to
\* reap or one came back with ESHUTDOWN, completes one transfer.
Disconnect ==
  /\ ~plugged /\ ~disconnected
  /\ pc[Evt] = "idle"
  /\ \/ \E t \in Transfer : flight[t] = "lost"
     \/ \A t \in InFlight : flight[t] \notin {"flying", "cancelled"}
  /\ disconnected' = TRUE
  /\ IF InFlight = {}
     THEN UNCHANGED <<flight, current, pc>>
     ELSE \E t \in InFlight :
            /\ current' = t
            /\ flight' = [u \in Transfer |-> IF u = t THEN "none" ELSE Abandoned(flight[u])]
            /\ Goto(Evt, "free")
  /\ UNCHANGED <<running, transfers, next, data, plugged, camera, bounds>>

\* handle_timeout: the cancellation fails, and no later one is tried.
Expire(t) ==
  /\ pc[Evt] = "idle"
  /\ flight[t] = "lost"
  /\ flight' = [flight EXCEPT ![t] = "stuck"]
  /\ UNCHANGED <<running, transfers, current, next, pc, data, plugged, camera, bounds,
                 disconnected>>

UnplugInit == Init /\ disconnected = FALSE

UnplugNext ==
  \/ Next /\ UNCHANGED disconnected
  \/ Unplug \/ Disconnect
  \/ \E t \in Transfer : Expire(t)

UnplugSpec == UnplugInit /\ [][UnplugNext]_unplugVars

-----------------------------------------------------------------------------
(* Properties *)

\* What libusb says of libusb_free_transfer: a transfer that was submitted
\* and has not completed is not freed.  uvc_stream_stop frees those whose
\* cancellation fails because the camera has gone.
ActiveNotFreed == InFlight \subseteq transfers
=============================================================================
