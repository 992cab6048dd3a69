------------------------------ MODULE OneVerdict ------------------------------
(***************************************************************************)
(* What validate_payload promises to whoever calls it: one answer, given once, *)
(* and it is a verdict on the payload in the context that was read.           *)
(***************************************************************************)
CONSTANTS
  Contexts,
  Payloads,
  IsVerdict(_, _, _)  \* accepted positions, payload, context

VARIABLES
  context,
  payload,
  answers             \* the answers given: none, then one

OneInit ==
  /\ context \in Contexts
  /\ payload \in Payloads
  /\ answers = {}

Answer ==
  /\ answers = {}
  /\ \E accepted \in SUBSET DOMAIN payload :
       /\ IsVerdict(accepted, payload, context)
       /\ answers' = {accepted}
  /\ UNCHANGED <<context, payload>>

OneSpec == OneInit /\ [][Answer]_<<context, payload, answers>>
===============================================================================
