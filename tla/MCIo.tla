-------------------------------- MODULE MCIo --------------------------------
(* One channel with an ATA disk on each end and a second with an ATAPI     *)
(* drive and nothing; two threads of each kind.                            *)
EXTENDS Io

CONSTANTS f1, f2, ev

MCClient == {f1, f2, ev}
MCSector == 0..1
MCData == [0..1 -> Byte]
Ata == [error |-> 1, lbam |-> 0, lbah |-> 0, drdy |-> TRUE, bsy |-> FALSE]
Atapi == [Ata EXCEPT !.lbam = 20, !.lbah = 235]
Empty == [Ata EXCEPT !.error = 129, !.drdy = FALSE]
MCRegisters ==
  [d \in {0, 1} \X {0, 1} |-> IF d[1] = 0 THEN Ata ELSE IF d[2] = 0 THEN Atapi ELSE Empty]

\* Bound: of all the lines, messages, nested lines and bytes of input at least
\* two do not happen.  (A step that uses one up is never the only one that
\* Fairness asks for.)
Unused == left.lines + left.messages + left.nested + left.input

MCNext == Next /\ Unused' >= 2

MCSpec == Init /\ [][MCNext]_vars /\ Fairness
=============================================================================
