----------------------------- MODULE SharedHandle -----------------------------
(***************************************************************************)
(* What the shared Config handle promises, with no counter and no split    *)
(* drop: a resource is created with one owner, owners may share it with    *)
(* new owners and give up their share, and it is freed, once, only when    *)
(* nobody owns it, and then always.  ConfigRefcount implements this under  *)
(* the mapping owners <- Holders, resource <- cfg.                         *)
(***************************************************************************)
CONSTANT Handles

VARIABLES
  owners,   \* the handles that own a share of the resource
  resource  \* "unallocated", "alive" or "freed"

avars == <<owners, resource>>

Init ==
  /\ owners = {}
  /\ resource = "unallocated"

\* The resource is made, owned by one handle.
Create(b) ==
  /\ resource = "unallocated"
  /\ owners' = {b}
  /\ resource' = "alive"

\* An owner shares the resource with a handle that does not own it.
Share(h, g) ==
  /\ h \in owners
  /\ g \notin owners
  /\ owners' = owners \cup {g}
  /\ UNCHANGED resource

\* An owner gives up its share.
Release(h) ==
  /\ h \in owners
  /\ owners' = owners \ {h}
  /\ UNCHANGED resource

\* Nobody owns the resource any more: it is freed.
Free ==
  /\ resource = "alive"
  /\ owners = {}
  /\ resource' = "freed"
  /\ UNCHANGED owners

Next ==
  \/ \E b \in Handles : Create(b)
  \/ \E h, g \in Handles : Share(h, g)
  \/ \E h \in Handles : Release(h)
  \/ Free

\* An unowned resource cannot stay allocated for ever.
Spec == Init /\ [][Next]_avars /\ WF_avars(Free)

\* The safety part, which the proofs establish.
SafeSpec == Init /\ [][Next]_avars

=============================================================================
