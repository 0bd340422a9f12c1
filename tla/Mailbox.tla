------------------------------ MODULE Mailbox ------------------------------
(***************************************************************************)
(* What the message box promises to the two cores, whatever endpoints come *)
(* and go on the receiving one: each channel is a queue of words that      *)
(* loses none, repeats none and keeps their order, and that never holds    *)
(* more words than the hardware has room for.                              *)
(***************************************************************************)
EXTENDS Naturals, Sequences

CONSTANTS Channels, Words, Room

VARIABLES sent, taken  \* the words written to, and read from, each channel

Init ==
  /\ sent = [ch \in Channels |-> <<>>]
  /\ taken = [ch \in Channels |-> <<>>]

Put(ch, word) ==
  /\ Len(sent[ch]) < Len(taken[ch]) + Room
  /\ sent' = [sent EXCEPT ![ch] = Append(@, word)]
  /\ UNCHANGED taken

Take(ch) ==
  /\ Len(taken[ch]) < Len(sent[ch])
  /\ taken' = [taken EXCEPT ![ch] = Append(@, sent[ch][Len(@) + 1])]
  /\ UNCHANGED sent

Next == \E ch \in Channels : (\E word \in Words : Put(ch, word)) \/ Take(ch)

Spec == Init /\ [][Next]_<<sent, taken>>

=============================================================================
