----------------------------- MODULE MCUsbSerial -----------------------------
(***************************************************************************)
(* Instances of UsbSerial.  d1, d2 and d3 are attachments of the three      *)
(* kinds, c1 and c2 attachments of one CH340, plugged again.                *)
(***************************************************************************)
EXTENDS UsbSerial

CONSTANTS d1, d2, d3, c1, c2

EveryKind ==
  [d \in Device |-> CASE d = d2 -> "fe0c" [] d = d3 -> "composite" [] OTHER -> "ch340"]

\* one attachment, or c1 and then c2 (which are interchangeable)
Alone   == {{}} \cup {{d} : d \in Device}
Replugs == {{}, {d1}, {d2}, {d3}, {c1}, {c1, c2}}

NoRetry == timers["retry"] + timers["retryConnect"] = 0

\* A connection attempt that takes three seconds, two transfers that fail, or a
\* connection that finds no device: each is left to the device for which it
\* matters.  The CH340 tries two rates before the recovery; the two that are
\* plugged in turn are granted at once, and nothing else fails with them.
Scenario ==
  \/ seen \subseteq {d1} /\ NoRetry
  \/ seen \subseteq {d2, d3} /\ NoRetry /\ faults <= 1 /\ isConnecting # "stuck"
  \/ seen \subseteq {c1, c2} /\ faults + settings = 0 /\ isConnecting # "stuck"
=============================================================================
