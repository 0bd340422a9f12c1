---------------------------- MODULE MCMsgboxAmp ----------------------------
(* The TLC instance of MsgboxAmp. *)
EXTENDS MsgboxAmp, TLC

CONSTANTS e1, e2, e3, s1

\* Two endpoints of the first channel, one of the second; the other core
\* writes the first.
Reads == (e1 :> 1) @@ (e2 :> 2) @@ (e3 :> 1)
Writes == s1 :> 1

=============================================================================
