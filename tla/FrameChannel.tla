---- MODULE FrameChannel ----
(***************************************************************************)
(* What a connection's outbound writer promises to the tasks that send     *)
(* through it: one FIFO channel.  A frame that is accepted joins the end   *)
(* of the channel; what the sink gets is, at all times, a prefix of what   *)
(* was accepted, in that order, without a gap or a duplicate; nothing is   *)
(* accepted any more once the channel is closed.                           *)
(***************************************************************************)
EXTENDS Naturals, Sequences

CONSTANT Frames  \* what can be sent

VARIABLES
    sent,  \* Seq(Frames): the frames the channel accepted
    got,   \* Seq(Frames): the frames that reached the sink
    open   \* BOOLEAN: the channel accepts frames

vars == <<sent, got, open>>

Init == sent = <<>> /\ got = <<>> /\ open = TRUE

Send(f) ==
    /\ open
    /\ sent' = Append(sent, f)
    /\ UNCHANGED <<got, open>>

Deliver ==
    /\ Len(got) < Len(sent)
    /\ got' = Append(got, sent[Len(got) + 1])
    /\ UNCHANGED <<sent, open>>

Close ==
    /\ open' = FALSE
    /\ UNCHANGED <<sent, got>>

Next == (\E f \in Frames : Send(f)) \/ Deliver \/ Close

Spec == Init /\ [][Next]_vars
====
