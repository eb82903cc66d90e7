--------------------------- MODULE CameraContract ---------------------------
(***************************************************************************)
(* What the media engine promises the rest of the server about one camera: *)
(* a camera that is absent or paused does not stream, whatever the retry   *)
(* loop was doing when it was removed or paused.                           *)
(***************************************************************************)
VARIABLES
    mode,       \* "absent", "armed" or "paused", as of the calls that returned
    streaming   \* a session of the camera is playing

vars == <<mode, streaming>>

Init == mode = "absent" /\ streaming = FALSE

\* AddCamera: the pipeline connects on its own from now on.
Add == mode = "absent" /\ mode' = "armed" /\ UNCHANGED streaming

\* RemoveCamera returns.
Remove == mode # "absent" /\ mode' = "absent" /\ streaming' = FALSE

\* SetPrivacy(id, true) returns.
Pause == mode = "armed" /\ mode' = "paused" /\ streaming' = FALSE

\* SetPrivacy(id, false).
Resume == mode = "paused" /\ mode' = "armed" /\ UNCHANGED streaming

\* The retry loop: sessions come and go, but only while the camera is armed.
Connect == mode = "armed" /\ ~streaming /\ streaming' = TRUE /\ UNCHANGED mode
Drop == streaming /\ streaming' = FALSE /\ UNCHANGED mode

Next == Add \/ Remove \/ Pause \/ Resume \/ Connect \/ Drop

Spec == Init /\ [][Next]_vars

=============================================================================
