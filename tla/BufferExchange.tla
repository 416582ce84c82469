--------------------------- MODULE BufferExchange --------------------------
(***************************************************************************)
(* What a virtqueue promises: a driver and a device hand a fixed set of    *)
(* buffers back and forth through two first-in-first-out queues.           *)
(***************************************************************************)
EXTENDS Sequences

CONSTANT Buffers

VARIABLES
  mine,        \* buffers the driver may write to
  published,   \* given to the device, not yet taken
  theirs,      \* buffers the device may access
  returned     \* given back, not yet taken

vars == <<mine, published, theirs, returned>>

Init ==
  /\ mine \subseteq Buffers /\ theirs = {} /\ returned = <<>>
  /\ published \in Seq(Buffers)
  /\ {published[i] : i \in DOMAIN published} = Buffers \ mine
  /\ \A i, j \in DOMAIN published : published[i] = published[j] => i = j

Publish(b) ==
  /\ b \in mine
  /\ mine' = mine \ {b}
  /\ published' = Append(published, b)
  /\ UNCHANGED <<theirs, returned>>

Take ==
  /\ published # <<>>
  /\ theirs' = theirs \cup {Head(published)}
  /\ published' = Tail(published)
  /\ UNCHANGED <<mine, returned>>

Return(b) ==
  /\ b \in theirs
  /\ theirs' = theirs \ {b}
  /\ returned' = Append(returned, b)
  /\ UNCHANGED <<mine, published>>

Reclaim ==
  /\ returned # <<>>
  /\ mine' = mine \cup {Head(returned)}
  /\ returned' = Tail(returned)
  /\ UNCHANGED <<published, theirs>>

Next == (\E b \in Buffers : Publish(b) \/ Return(b)) \/ Take \/ Reclaim

Spec == Init /\ [][Next]_vars

============================================================================
