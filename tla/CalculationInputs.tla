-------------------------- MODULE CalculationInputs --------------------------
(***************************************************************************)
(* What the calculation panes are parameterised by.  The panes compare     *)
(* their inputs by object identity, so an input is an identity here.       *)
(***************************************************************************)
CONSTANTS
  Form,       \* identities of form objects
  Inputs,     \* identities of the other inputs, or of all of them together
  Task,       \* Worker tasks
  NoForm, NoTask, NoSource,
  NoContext   \* the inputs before the runtime bootstrap has a context

ASSUME CalculationAssumption ==
  /\ NoForm \notin Form /\ NoTask \notin Task /\ NoContext \notin Inputs
  /\ NoSource \notin Inputs /\ NoSource \notin [form : Form, inputs : Inputs]
=============================================================================
