--------------------------- MODULE OrderedUpdate ----------------------------
(***************************************************************************)
(* What the operator promises of an image update, without saying how: a    *)
(* component that serves moves to the image of the plan only when every    *)
(* component before it runs that image, and no other.  Plans may change    *)
(* at any time; the one in force is the one last taken up.                 *)
(***************************************************************************)
CONSTANTS
  Names, Tags, \* components and images
  NoTag        \* the image of a component that is not deployed

VARIABLES
  plan,     \* image, and for each component those that go before it
  held,     \* the plan in force
  template, \* the image each component is deployed with
  pods,     \* the images its pods run
  idle      \* components without replicas

vars == <<plan, held, template, pods, idle>>

Plans == [image: Tags, before: [Names -> SUBSET Names]]

Init ==
  /\ plan \in Plans /\ held = plan
  /\ template \in [Names -> Tags \cup {NoTag}]
  /\ idle \subseteq Names
  /\ pods = [c \in Names |-> IF template[c] = NoTag \/ c \in idle THEN {} ELSE {template[c]}]

Done(c, i) == template[c] = i /\ pods[c] = IF c \in idle THEN {} ELSE {i}

\* A component without pods may be deployed with the new image at once.
MayMove(c) == pods[c] = {} \/ \A d \in held.before[c] : Done(d, held.image)

ChangePlan == plan' \in Plans /\ UNCHANGED <<held, template, pods, idle>>

TakeUp == held' = plan /\ UNCHANGED <<plan, template, pods, idle>>

Stays(c) == template'[c] = template[c] /\ pods'[c] = pods[c]

Moves(c) ==
  /\ MayMove(c)
  /\ template'[c] = held.image
  /\ pods'[c] = IF pods[c] = {} THEN {} ELSE pods[c] \cup {held.image}

Move ==
  /\ DOMAIN template' = Names /\ DOMAIN pods' = Names
  /\ \A c \in Names : Stays(c) \/ Moves(c)
  /\ UNCHANGED <<plan, held, idle>>

Roll(c) ==
  /\ template[c] # NoTag /\ c \notin idle
  /\ pods' = [pods EXCEPT ![c] = {template[c]}]
  /\ UNCHANGED <<plan, held, template, idle>>

\* Components the plan does not name any more are removed, and the plan with
\* them.
Remove ==
  /\ DOMAIN template' = Names /\ DOMAIN pods' = Names
  /\ \A c \in Names : Stays(c) \/ (template'[c] = NoTag /\ pods'[c] = {})
  /\ plan' \in Plans
  /\ UNCHANGED <<held, idle>>

Next == ChangePlan \/ TakeUp \/ Move \/ Remove \/ \E c \in Names : Roll(c)

Spec == Init /\ [][Next]_vars
=============================================================================
