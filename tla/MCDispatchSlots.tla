-------------------------- MODULE MCDispatchSlots ----------------------------
(* Instances of DispatchSlots: five runs compete for the slots. *)
EXTENDS DispatchSlots

\* The workflow file never changes.
FixedLimit == {3}
==============================================================================
