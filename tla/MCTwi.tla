------------------------------- MODULE MCTwi -------------------------------
(* TLC instances of Twi. *)
EXTENDS Twi

W(n) == [rd |-> FALSE, ten |-> FALSE, len |-> n]
W10(n) == [rd |-> FALSE, ten |-> TRUE, len |-> n]
R(n) == [rd |-> TRUE, ten |-> FALSE, len |-> n]

\* What hal_twi_write, hal_twi_read and I2C_RDWR pass: a register write, a
\* register number and a read of one to three bytes, one message.
MCCalls == {<<W(2)>>, <<W10(1)>>, <<R(1)>>, <<W(1), R(1)>>, <<W(1), R(3)>>}

=============================================================================
