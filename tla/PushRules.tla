----------------------------- MODULE PushRules -----------------------------
(***************************************************************************)
(* A user's push rules: Ruleset of ruma-common/src/push.rs, its update     *)
(* with new server defaults (push/predefined.rs) and the rule that decides *)
(* about an event (push/iter.rs).                                          *)
(*                                                                         *)
(* Each kind of rule is kept in an IndexSet, a sequence of rules with      *)
(* distinct ids, most important first; positions count from 1 here.  What  *)
(* a rule's conditions say is given by its id.                             *)
(***************************************************************************)
EXTENDS Lists

CONSTANTS UserRule,     \* rule ids a user may choose
          InvalidRule,  \* rule ids with a slash or a backslash
          DotRule,      \* rule ids that start with a dot
          Master,       \* .m.rule.master
          Actions,      \* lists of actions
          Defaults,     \* rulesets server_default may return
          UserKinds,    \* kinds of rules the user touches
          Events,       \* events by other users
          matches       \* rule id |-> the events its conditions hold for

Kinds == <<"override", "content", "room", "sender", "underride">>

Kind == {Kinds[i] : i \in 1..5}

RuleId == UserRule \cup DotRule

Rule == [rule_id: RuleId, default: BOOLEAN, enabled: BOOLEAN, actions: Actions]

\* Predefined rules have dotted ids, each kind has each at most once with
\* `.m.rule.master` first, and a rule without conditions matches everything.
ASSUME PushAssumption ==
    /\ UserRule \cap DotRule = {} /\ InvalidRule \cap RuleId = {}
    /\ Master \in DotRule /\ UserKinds \subseteq Kind
    /\ Defaults \subseteq [Kind -> Seq([rule_id: DotRule, default: {TRUE}, enabled: BOOLEAN,
                                        actions: Actions])]
    /\ \A d \in Defaults : \A k \in Kind : \A i, j \in 1..Len(d[k]) :
          /\ d[k][i].rule_id = d[k][j].rule_id => i = j
          /\ k = "override" /\ d[k][i].rule_id = Master => i = 1
    /\ matches \in [RuleId -> SUBSET Events] /\ matches[Master] = Events

VARIABLES rules,   \* kind |-> its rules in order
          result   \* how the last call ended: "ok", "err" or "panic"

pushVars == <<rules, result>>

-----------------------------------------------------------------------------
(* The operations of IndexSet that are used. *)

IndexOf(set, id) == {i \in 1..Len(set) : set[i].rule_id = id}

replace_full(set, rule) ==
    IF IndexOf(set, rule.rule_id) = {} THEN Append(set, rule)
    ELSE [i \in 1..Len(set) |-> IF set[i].rule_id = rule.rule_id THEN rule ELSE set[i]]

move_index(set, from, to) ==
    [i \in 1..Len(set) |->
        IF i = to THEN set[from]
        ELSE IF from <= i /\ i < to THEN set[i + 1]
        ELSE IF to < i /\ i <= from THEN set[i - 1]
        ELSE set[i]]

shift_remove(set, at) == [i \in 1..(Len(set) - 1) |-> IF i < at THEN set[i] ELSE set[i + 1]]

-----------------------------------------------------------------------------
(* insert. *)

\* Bug: the new rule may take the first place.
DefaultPositionFirst(kind) == 1

\* Where a new rule goes: an override rule after `.m.rule.master`.
default_position(kind) == IF kind = "override" THEN 2 ELSE 1

Outcome(set, how) == [set |-> set, result |-> how]

\* Bug: the position after a rule is the rule's own.
InsertAtAnchor(set, rule, default, after, before) ==
    LET placed == replace_full(set, rule)
        At(id) == CHOOSE i \in IndexOf(placed, id) : TRUE
        anchor == after \cup before
        to == IF anchor = {} THEN default ELSE At(CHOOSE id \in anchor : TRUE)
    IN  IF \E id \in anchor : IndexOf(placed, id) = {} THEN Outcome(placed, "err")
        ELSE IF IndexOf(set, rule.rule_id) # {} /\ anchor = {} THEN Outcome(placed, "ok")
        ELSE IF to > Len(placed) THEN Outcome(placed, "panic")
        ELSE Outcome(move_index(placed, At(rule.rule_id), to), "ok")

\* Bug: an error takes the last rule back out, which is another one if the rule
\* was only replaced.
InsertPopped(set, rule, default, after, before) ==
    LET placed == replace_full(set, rule)
    IN  IF \E id \in after \cup before : IndexOf(placed, id) = {}
        THEN Outcome(SubSeq(placed, 1, Len(placed) - 1), "err")
        ELSE InsertAtAnchor(set, rule, default, after, before)

\* after and before are Options.  The rule is in the set before its place is
\* known: an error leaves it where replace_full put it.
insert_and_move_rule(set, rule, default, after, before) ==
    LET placed == replace_full(set, rule)
        At(id) == CHOOSE i \in IndexOf(placed, id) : TRUE
        lowest == IF after = {} THEN default ELSE At(CHOOSE id \in after : TRUE) + 1
        to     == IF before = {} THEN lowest ELSE At(CHOOSE id \in before : TRUE)
    IN  IF \E id \in after \cup before : IndexOf(placed, id) = {} THEN Outcome(placed, "err")
        ELSE IF to < lowest THEN Outcome(placed, "err")
        ELSE IF IndexOf(set, rule.rule_id) # {} /\ after \cup before = {} THEN Outcome(placed, "ok")
        ELSE IF to > Len(placed) THEN Outcome(placed, "panic")
        ELSE Outcome(move_index(placed, At(rule.rule_id), to), "ok")

\* The rule to put in the set: a replaced rule's switch is kept.
NewRule(set, id, actions) ==
    [rule_id |-> id, default |-> FALSE,
     enabled |-> \A i \in IndexOf(set, id) : set[i].enabled,
     actions |-> actions]

insert(kind, id, actions, after, before) ==
    IF id \in DotRule \cup InvalidRule \/ (after \cup before) \cap DotRule # {}
    THEN Outcome(rules[kind], "err")
    ELSE insert_and_move_rule(rules[kind], NewRule(rules[kind], id, actions),
                              default_position(kind), after, before)

Insert(kind, id, actions, after, before) ==
    LET out == insert(kind, id, actions, after, before)
    IN  rules' = [rules EXCEPT ![kind] = out.set] /\ result' = out.result

-----------------------------------------------------------------------------
(* The other calls. *)

\* A rule is cloned, changed and replaced, or not found.
ReplaceRule(kind, id, rule(_)) ==
    IF IndexOf(rules[kind], id) = {} THEN result' = "err" /\ UNCHANGED rules
    ELSE /\ rules' = [rules EXCEPT ![kind] =
                        [i \in 1..Len(@) |-> IF @[i].rule_id = id THEN rule(@[i]) ELSE @[i]]]
         /\ result' = "ok"

set_enabled(kind, id, enabled) ==
    ReplaceRule(kind, id, LAMBDA r : [r EXCEPT !.enabled = enabled])

set_actions(kind, id, actions) ==
    ReplaceRule(kind, id, LAMBDA r : [r EXCEPT !.actions = actions])

remove(kind, id) ==
    IF \E i \in IndexOf(rules[kind], id) : ~ rules[kind][i].default
    THEN /\ \E i \in IndexOf(rules[kind], id) :
               rules' = [rules EXCEPT ![kind] = shift_remove(@, i)]
         /\ result' = "ok"
    ELSE result' = "err" /\ UNCHANGED rules

\* Bug: the switch of a default rule is not carried over.
CopyNoState(old, new) == new

\* copy_rules_state: the new defaults with the state of the old rules.
CopyState(old, new) ==
    [i \in 1..Len(new) |->
        [new[i] EXCEPT
            !.enabled = IF IndexOf(old, new[i].rule_id) = {} THEN @
                        ELSE old[CHOOSE j \in IndexOf(old, new[i].rule_id) : TRUE].enabled,
            !.actions = IF IndexOf(old, new[i].rule_id) = {} THEN @
                        ELSE old[CHOOSE j \in IndexOf(old, new[i].rule_id) : TRUE].actions]]

\* The user's rules, the new defaults after them, `.m.rule.master` before.
Merge(kind, kept, copied) ==
    LET master == {rule \in Rule : kind = "override" /\ rule.rule_id = Master}
    IN  retain(copied, master) \o kept \o retain(copied, Rule \ master)

\* What becomes of the rules of a kind: they lose the defaults, then get the new ones.
Updated(kind, new) ==
    LET kept == {rule \in Rule : IndexOf(new, rule.rule_id) = {} /\ ~ rule.default}
    IN  Merge(kind, retain(rules[kind], kept), CopyState(rules[kind], new))

update_with_server_default(new) ==
    /\ rules' = [k \in Kind |-> Updated(k, new[k])]
    /\ result' = "ok"

-----------------------------------------------------------------------------
\* A ruleset starts empty (new), or as the server's defaults (server_default).
PushInit ==
    /\ rules \in Defaults \cup {[k \in Kind |-> << >>]}
    /\ result = "ok"

\* What a user does.
UserNext ==
    \E kind \in UserKinds :
        \/ \E id \in RuleId \cup InvalidRule, actions \in Actions :
           \E after, before \in {{}} \cup {{x} : x \in RuleId} :
              Insert(kind, id, actions, after, before)
        \/ \E id \in RuleId :
              \/ \E enabled \in BOOLEAN : set_enabled(kind, id, enabled)
              \/ \E actions \in Actions : set_actions(kind, id, actions)
              \/ remove(kind, id)

\* A panic ends it.
PushNext ==
    /\ result # "panic"
    /\ UserNext \/ \E new \in Defaults : update_with_server_default(new)

PushSpec == PushInit /\ [][PushNext]_pushVars

-----------------------------------------------------------------------------
(* The decision about an event. *)

\* Bug: the rules of the sender are asked first.
IterSenderFirst ==
    rules["sender"] \o rules["override"] \o rules["content"] \o rules["room"]
        \o rules["underride"]

\* RulesetIter
iter ==
    rules["override"] \o rules["content"] \o rules["room"] \o rules["sender"]
        \o rules["underride"]

applies(rule, event) == rule.enabled /\ event \in matches[rule.rule_id]

\* Option: the first rule that applies to an event of another user.
get_match(event) ==
    {iter[i] : i \in {j \in 1..Len(iter) : /\ applies(iter[j], event)
                                           /\ \A h \in 1..(j - 1) : ~ applies(iter[h], event)}}

-----------------------------------------------------------------------------
(* Properties. *)

\* Type invariant: ids are distinct, and default exactly if dotted.
PushTypeOK ==
    /\ rules \in [Kind -> Seq(Rule)]
    /\ \A k \in Kind : \A i, j \in 1..Len(rules[k]) :
          /\ rules[k][i].rule_id = rules[k][j].rule_id => i = j
          /\ rules[k][i].default <=> rules[k][i].rule_id \in DotRule
    /\ result \in {"ok", "err", "panic"}

\* insert, "`m.rule.master` should always be the rule with the highest priority":
\* no sequence of calls puts a rule before it.
MasterFirst ==
    \A i \in 1..Len(rules["override"]) : rules["override"][i].rule_id = Master => i = 1

\* While `.m.rule.master` is enabled something decides about every event, and
\* that is this rule or an override rule of the user's: never a rule of another
\* kind, whatever the user has added, and never another default rule.
MasterSilences ==
    \A i \in 1..Len(rules["override"]) :
        rules["override"][i].rule_id = Master /\ rules["override"][i].enabled =>
            \A e \in Events :
                /\ get_match(e) # {}
                /\ \A rule \in get_match(e) :
                      \E j \in 1..Len(rules["override"]) :
                         /\ rule = rules["override"][j]
                         /\ rule.rule_id = Master \/ ~ rule.default

\* A rule that stays is switched on or off by set_enabled only: not by being
\* replaced by insert, nor by new server defaults.
OnlySetEnabledSwitches ==
    [][\A k \in Kind : \A i \in 1..Len(rules[k]), j \in 1..Len(rules'[k]) :
          /\ rules[k][i].rule_id = rules'[k][j].rule_id
          /\ rules[k][i].enabled # rules'[k][j].enabled
          => set_enabled(k, rules[k][i].rule_id, rules'[k][j].enabled)]_pushVars

Anchors == {{}} \cup {{x} : x \in RuleId}

\* No call disturbs the rules it is not about: however insert ends, the other
\* rules of the kind keep their order and state, and new server defaults change
\* neither the actions, nor the order, nor the number of the user's own rules.
OthersKept ==
    /\ PushTypeOK
    /\ \A kind \in UserKinds, id \in UserRule, actions \in Actions, after, before \in Anchors :
          LET others == {rule \in Rule : rule.rule_id # id}
          IN  retain(insert(kind, id, actions, after, before).set, others)
                  = retain(rules[kind], others)
    /\ \A new \in Defaults, kind \in Kind :
          LET own == {rule \in Rule : ~ rule.default}
          IN  retain(Updated(kind, new[kind]), own) = retain(rules[kind], own)

\* Whether one rule of a kind is in the list before another.
RanksAbove(kind, id, x) ==
    \E i \in IndexOf(rules[kind], id), j \in IndexOf(rules[kind], x) : i < j

\* Only `.m.rule.master` is before a rule.
OnTop(set, id) ==
    \A i \in 1..Len(set), j \in IndexOf(set, id) : i < j => set[i].rule_id = Master

\* What the parameters of insert ask of the list it leaves.
WellPlaced(kind, id, after, before, set) ==
    LET Place(x) == CHOOSE i \in IndexOf(set, x) : TRUE
    IN  /\ \A x \in after : Place(x) < Place(id)
        /\ \A x \in before : ~ RanksAbove(kind, id, x) => Place(x) = Place(id) + 1
        /\ \A x \in after : before = {} /\ ~ RanksAbove(kind, id, x) => Place(id) = Place(x) + 1
        /\ after \cup before = {} =>
              /\ \A i \in IndexOf(rules[kind], id) : Place(id) = i
              /\ /\ IndexOf(rules[kind], id) = {}
                 /\ kind # "override" \/ IndexOf(rules[kind], Master) # {}
                 => OnTop(set, id)

\* An insert that succeeds puts the rule, new or not, below the rule named after,
\* and if it did not rank above the rules named already, directly before the one
\* named before, or else directly after the one named after.  Without either, a
\* rule that was there keeps its place, and a new one goes to the top, below
\* `.m.rule.master`: this last where the kind is another or that rule is there.
RulePlaced ==
    \A kind \in UserKinds, id \in UserRule, actions \in Actions, after, before \in Anchors :
        LET out == insert(kind, id, actions, after, before)
        IN  out.result = "ok" /\ id \notin after \cup before =>
                WellPlaced(kind, id, after, before, out.set)

-----------------------------------------------------------------------------
(* What docs say and the code does not do: TLC refutes each of these. *)

\* insert, "Returns an error if the parameters are invalid": it does not panic.
InsertNeverPanics == result # "panic"

\* insert, "If neither are set, and the rule is newly inserted, it will become the
\* rule with the highest priority of its kind": but for `.m.rule.master`, which
\* insert keeps on top.
NewRuleOnTop ==
    \A kind \in UserKinds, id \in UserRule, actions \in Actions :
        LET out == insert(kind, id, actions, {}, {})
        IN  /\ result # "panic"
            /\ IndexOf(rules[kind], id) = {} /\ out.result = "ok"
            => OnTop(out.set, id)

\* insert, "If both are set, the rule will become the next-most important rule
\* with respect to `before`".
NextMostImportant ==
    \A kind \in UserKinds, id, x, y \in UserRule, actions \in Actions :
        LET out == insert(kind, id, actions, {y}, {x})
        IN  id \notin {x, y} /\ out.result = "ok" =>
                \A i \in IndexOf(out.set, id), j \in IndexOf(out.set, x) : j = i + 1

\* master(), which "can be enabled to turn off all push notifications other than
\* those generated by override rules set by the user": these still decide.
UserOverridesMaster ==
    \A i, j \in 1..Len(rules["override"]), e \in Events :
        LET master == rules["override"][i]
            own    == rules["override"][j]
        IN  /\ master.rule_id = Master /\ master.enabled
            /\ ~ own.default /\ applies(own, e)
            => get_match(e) # {master}

=============================================================================
