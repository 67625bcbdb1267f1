------------------------------ MODULE RuleStore ------------------------------
(***************************************************************************)
(* What the rule functions promise: a store of rules per registry in which *)
(* a rule is added, a resource loses its rules, the list of a              *)
(* configuration is loaded or everything is cleared, each in one step.     *)
(***************************************************************************)
CONSTANTS
  Registry,
  Editable,     \* Registries whose rules can be added and removed.
  List,         \* For each registry the lists that may be loaded.
  Added         \* The rules that may be added, or removed by resource.

VARIABLES
  rules,
  overlapped    \* Users have called it in a way for which nothing is promised.

vars == <<rules, overlapped>>

Add(k, rule) == rules' = [rules EXCEPT ![k] = @ \cup {rule}]

Remove(k, rule) == rules' = [rules EXCEPT ![k] = {r \in @ : r.resource # rule.resource}]

Load(k, list) == rules' = [rules EXCEPT ![k] = list]

Clear(k) == rules' = [rules EXCEPT ![k] = {}]

Operation ==
  \/ \E k \in Editable, rule \in Added : Add(k, rule) \/ Remove(k, rule)
  \/ \E k \in Registry : Clear(k) \/ \E list \in List[k] : Load(k, list)

Next ==
  \/ ~overlapped /\ Operation /\ UNCHANGED overlapped
  \/ ~overlapped /\ overlapped' /\ UNCHANGED rules
  \/ overlapped /\ overlapped'

Spec == rules = [k \in Registry |-> {}] /\ overlapped = FALSE /\ [][Next]_vars
=============================================================================
