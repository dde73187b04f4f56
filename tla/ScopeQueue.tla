----------------------------- MODULE ScopeQueue -----------------------------
(***************************************************************************)
(* What a conversation pool promises in its default mode: the messages of a *)
(* scope wait in arrival order, the agent serves one batch at a time, and   *)
(* every batch is a prefix of what waits.  A prefix may also be discarded   *)
(* (/stop before the turn began, or no agent of that name).                 *)
(***************************************************************************)
EXTENDS Naturals, Sequences

CONSTANT MaxMsgs   \* bound: messages that arrive

VARIABLES
    arrived,   \* how many messages arrived
    waiting,   \* messages the agent has not begun to serve
    serving    \* the batch being served, empty if none

aVars == <<arrived, waiting, serving>>

Init == arrived = 0 /\ waiting = <<>> /\ serving = <<>>

Rest(n) == SubSeq(waiting, n + 1, Len(waiting))

Arrive ==
    /\ arrived < MaxMsgs
    /\ arrived' = arrived + 1
    /\ waiting' = Append(waiting, arrived + 1)
    /\ UNCHANGED serving

Begin ==
    /\ serving = <<>>
    /\ \E n \in 1 .. Len(waiting) :
          serving' = SubSeq(waiting, 1, n) /\ waiting' = Rest(n)
    /\ UNCHANGED arrived

End ==
    /\ serving # <<>> /\ serving' = <<>>
    /\ UNCHANGED <<arrived, waiting>>

Discard ==
    /\ \E n \in 1 .. Len(waiting) : waiting' = Rest(n)
    /\ UNCHANGED <<arrived, serving>>

Next == Arrive \/ Begin \/ End \/ Discard

Spec == Init /\ [][Next]_aVars
=============================================================================
