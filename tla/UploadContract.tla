---------------------------- MODULE UploadContract ----------------------------
(***************************************************************************)
(* What one server session promises to its client, whatever the client     *)
(* does: a greeting, then any number of uploads one after the other, each  *)
(* answered once, by the result of the whole file or by an error; and,     *)
(* from any point, an end that is final.  TcpSession implements it.        *)
(***************************************************************************)
EXTENDS Naturals

CONSTANT Sizes   \* sizes a client may announce

VARIABLES
  phase,    \* "greeting", "idle", "receiving" or "over"
  want,     \* bytes announced for the upload being received
  got,      \* bytes of it that were analysed
  answer    \* how the latest upload ended: "none", "result" or "error"

vars == <<phase, want, got, answer>>

Init ==
  /\ phase \in {"greeting", "over"}
  /\ want = 0 /\ got = 0
  /\ answer = "none"

Greet ==
  /\ phase = "greeting"
  /\ phase' = "idle"
  /\ UNCHANGED <<want, got, answer>>

Begin ==
  /\ phase = "idle"
  /\ phase' = "receiving"
  /\ want' \in Sizes \ {0}
  /\ got' = 0
  /\ answer' = "none"

Receive ==
  /\ phase = "receiving"
  /\ got' \in got + 1 .. want
  /\ UNCHANGED <<phase, want, answer>>

\* The result is sent for a complete file only.
Complete ==
  /\ phase = "receiving"
  /\ got = want
  /\ phase' = "idle"
  /\ answer' = "result"
  /\ want' = 0 /\ got' = 0

\* A cancel, a violation, or a size that does not match.
Abort ==
  /\ phase = "receiving"
  /\ phase' = "idle"
  /\ answer' = "error"
  /\ want' = 0 /\ got' = 0

\* The connection ends: by either side, a timeout, a failure or a shutdown.
End ==
  /\ phase # "over"
  /\ phase' = "over"
  /\ want' = 0 /\ got' = 0 /\ answer' = "none"

Next == Greet \/ Begin \/ Receive \/ Complete \/ Abort \/ End

Spec == Init /\ [][Next]_vars

=============================================================================
