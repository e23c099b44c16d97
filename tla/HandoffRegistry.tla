-------------------------- MODULE HandoffRegistry ---------------------------
(***************************************************************************)
(* What a Team promises for its Handoffs: an artifact is frozen once, it   *)
(* is bound to one Run at most and only when it exists, and what a caller  *)
(* was told of either stays true.                                          *)
(***************************************************************************)
CONSTANTS Handoff, Action, Artifacts, Bindings, Nothing

VARIABLES artifact,   \* the frozen artifact of each Handoff
          binding,    \* the binding of each Handoff
          frozen,     \* the artifact a caller was told of
          bound       \* the binding the caller of an action was told of

Init ==
  /\ artifact = [h \in Handoff |-> Nothing] /\ binding = [h \in Handoff |-> Nothing]
  /\ frozen = [h \in Handoff |-> Nothing] /\ bound = [a \in Action |-> Nothing]

Freeze(h) ==
  /\ artifact[h] = Nothing
  /\ \E x \in Artifacts : artifact' = [artifact EXCEPT ![h] = x]
  /\ UNCHANGED <<binding, frozen, bound>>

Bind(h) ==
  /\ artifact[h] # Nothing /\ binding[h] = Nothing
  /\ \E x \in Bindings : binding' = [binding EXCEPT ![h] = x]
  /\ UNCHANGED <<artifact, frozen, bound>>

TellFrozen(h) ==
  /\ frozen[h] = Nothing /\ artifact[h] # Nothing
  /\ frozen' = [frozen EXCEPT ![h] = artifact[h]]
  /\ UNCHANGED <<artifact, binding, bound>>

TellBound(a, h) ==
  /\ bound[a] = Nothing /\ binding[h] # Nothing
  /\ bound' = [bound EXCEPT ![a] = binding[h]]
  /\ UNCHANGED <<artifact, binding, frozen>>

Next == \E h \in Handoff : Freeze(h) \/ Bind(h) \/ TellFrozen(h) \/ \E a \in Action : TellBound(a, h)

Spec == Init /\ [][Next]_<<artifact, binding, frozen, bound>>
=============================================================================
