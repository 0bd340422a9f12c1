----------------------------- MODULE MCMsgboxSx -----------------------------
(* The TLC instance of MsgboxSx. *)
EXTENDS MsgboxSx

\* Two endpoints; the sending channel of the first is served before its
\* receiving one, that of the second after.
Rec == [e \in Edps |-> IF e = 1 THEN 1 ELSE 2]
Snd == [e \in Edps |-> IF e = 1 THEN 0 ELSE 3]

\* The first sends two words, a message longer than the queue or two messages;
\* the second receives one.
Most == [ch \in Channels |-> CASE ch = 0 -> 2 [] ch = 2 -> 1 [] OTHER -> 0]

=============================================================================
