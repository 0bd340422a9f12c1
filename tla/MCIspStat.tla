----------------------------- MODULE MCIspStat -----------------------------
(* TLC instances of IspStat; the three buffers are those of the code. *)
EXTENDS IspStat

\* Frame numbers are only ever compared with each other, so states that
\* differ by a rotation of them are the same; nor is the number of a buffer
\* read that waits for its first frame.
Age(n) == (frame_number - n) % FrameMod
AgeOf(b) == IF state[b] \in {"IDLE", "LOAD_SET"} THEN 0 ELSE Age(bufFrame[b])

View == <<state, empty, [b \in Bufs |-> AgeOf(b)], Age(last), active_buf,
          locked_buf, flagVars, hwVars, isr, work, wk, saved>>

=============================================================================
