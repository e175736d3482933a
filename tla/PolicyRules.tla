----------------------------- MODULE PolicyRules -----------------------------
(***************************************************************************)
(* The policy list of the policy engine (sined/src/pe.c) and the order in  *)
(* which evaluate() walks it.  parse_policies() turns the policy file into *)
(* a list of policies, each with an application and a list of rules; a     *)
(* rule is identified here by its position <<p, r>>: rule r of policy p.   *)
(* parse_policy() numbers the rules from 1 in every policy, so r is also   *)
(* the rule's ruleID.                                                      *)
(***************************************************************************)
EXTENDS Integers, Sequences

CONSTANTS AppDescs,    \* application descriptors (paths of executables)
          Locations,   \* location names
          Interfaces,  \* interface names
          PolicyFile   \* the <policy> elements of the policy file, in order

Rule == [location : Locations, interface : Interfaces]

Policy == [app : AppDescs, rules : Seq(Rule)]

ASSUME PolicyFileAssumption == PolicyFile \in Seq(Policy)

(***************************************************************************)
(* The rules of the list, and what evaluate() reads of one.                *)
(***************************************************************************)
Positions ==
    UNION { {<<p, r>> : r \in DOMAIN PolicyFile[p].rules} : p \in DOMAIN PolicyFile }

NoRule == <<0, 0>>

RuleAt(x) == PolicyFile[x[1]].rules[x[2]]

IfaceAt(x) == RuleAt(x).interface

RuleID(x) == x[2]

\* The rules that belong to an application's policies and name a location:
\* the ones evaluate_rule() goes on to ask the MIH user about.
Matching(desc, loc) ==
    { x \in Positions : /\ PolicyFile[x[1]].app = desc
                        /\ RuleAt(x).location = loc }

(***************************************************************************)
(* The two loops of evaluate(): policies in list order, and within one its *)
(* rules in list order.  A refused rule is followed by the next rule; an   *)
(* activated one ends the inner loop only, so the walk goes on with the    *)
(* next policy.                                                            *)
(***************************************************************************)
Before(x, y) == x[1] < y[1] \/ (x[1] = y[1] /\ x[2] < y[2])

FirstOf(S) == CHOOSE x \in S : \A y \in S : x = y \/ Before(x, y)

AfterRefused(x, S) == { y \in S : Before(x, y) }

\* Mutant: the activated rule ends the whole evaluation.
AfterActivatedReturns(x, S) == {}

AfterActivated(x, S) == { y \in S : x[1] < y[1] }

(***************************************************************************)
(* Reference definition of what one undisturbed evaluation leaves in       *)
(* active_rule: the first usable rule of the LAST policy that has a usable *)
(* one; the old value when no policy has any.                              *)
(***************************************************************************)
Usable(desc, loc, up) == { x \in Matching(desc, loc) : IfaceAt(x) \in up }

Choice(U, old) ==
    IF U = {} THEN old ELSE RuleID(FirstOf({ x \in U : \A y \in U : y[1] <= x[1] }))

ChosenRule(desc, loc, up, old) == Choice(Usable(desc, loc, up), old)
=============================================================================
