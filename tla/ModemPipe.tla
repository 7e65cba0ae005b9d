----------------------------- MODULE ModemPipe ------------------------------
(***************************************************************************)
(* What the R: device promises for a telnet call: what the other side      *)
(* sends reaches the Atari in the order it was sent, nothing twice and no  *)
(* gap, until a hang-up, a reset or switching the modem off throws away    *)
(* the end of what is still waiting.                                       *)
(***************************************************************************)
EXTENDS Naturals, Sequences

CONSTANT Text   \* what the other side can send

VARIABLES queue,  \* sent, and not yet read by the Atari
          got     \* what the Atari has read

Init == queue = <<>> /\ got = <<>>

Put(t)  == queue' = Append(queue, t) /\ UNCHANGED got
Take(k) == /\ got' = got \o SubSeq(queue, 1, k)
           /\ queue' = SubSeq(queue, k + 1, Len(queue))
Lose(k) == queue' = SubSeq(queue, 1, k) /\ UNCHANGED got

Next == \/ \E t \in Text : Put(t)
        \/ \E k \in 1 .. Len(queue) : Take(k)
        \/ \E k \in 0 .. Len(queue) - 1 : Lose(k)

Spec == Init /\ [][Next]_<<queue, got>>
=============================================================================
