---------------------------- MODULE FrameChannel ----------------------------
(***************************************************************************)
(* What one direction of a connection promises to the two processes at its *)
(* ends: messages arrive whole, in the order they were sent, none twice    *)
(* and none made up, and every one of them unless the connection fails.    *)
(***************************************************************************)
EXTENDS Naturals, Sequences

CONSTANT Messages   \* messages that may be sent

VARIABLES
  sent,    \* messages accepted for sending
  got,     \* messages handed to the receiver
  failed   \* the connection failed: the rest may be lost

vars == <<sent, got, failed>>

Init == sent = << >> /\ got = << >> /\ failed = FALSE

Accept(m) ==
  /\ ~ failed
  /\ sent' = Append(sent, m)
  /\ UNCHANGED <<got, failed>>

\* What was on its way when the connection failed may still arrive.
Deliver ==
  /\ Len(got) < Len(sent)
  /\ got' = Append(got, sent[Len(got) + 1])
  /\ UNCHANGED <<sent, failed>>

Fail ==
  /\ failed' = TRUE
  /\ UNCHANGED <<sent, got>>

Next == (\E m \in Messages : Accept(m)) \/ Deliver \/ Fail

\* Weak fairness of ~ failed /\ Deliver, with the condition that enables it
\* written out: it stays what it is under a refinement mapping.
Delivers ==
  \/ []<>(failed \/ Len(got) = Len(sent))
  \/ []<><<~ failed /\ Deliver>>_vars

Spec == Init /\ [][Next]_vars /\ Delivers
=============================================================================
