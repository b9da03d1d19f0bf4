----------------------------- MODULE MCPushRules -----------------------------
(***************************************************************************)
(* Instances of PushRules for TLC: old and new server defaults, the new    *)
(* ones with a rule more and a rule less.                                  *)
(***************************************************************************)
EXTENDS PushRules

DefaultRule(id, enabled) ==
    [rule_id |-> id, default |-> TRUE, enabled |-> enabled,
     actions |-> CHOOSE a \in Actions : TRUE]

DefaultSet(override, underride) ==
    [k \in Kind |-> CASE k = "override"  -> override
                      [] k = "underride" -> underride
                      [] OTHER           -> << >>]

MCDefaults ==
    {DefaultSet(<<DefaultRule(".master", FALSE), DefaultRule(".acl", TRUE)>>,
                <<DefaultRule(".message", TRUE)>>),
     DefaultSet(<<DefaultRule(".master", FALSE), DefaultRule(".notice", TRUE)>>,
                <<DefaultRule(".message", TRUE)>>)}

\* A user's rule and a default one match the first event, .message the second.
MCMatches ==
    [r \in RuleId |->
        CASE r = ".master"             -> Events
          [] r \in UserRule \cup {".acl"} -> {"first"}
          [] OTHER                      -> {"second"}]
=============================================================================
