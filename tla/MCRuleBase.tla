------------------------------- MODULE MCRuleBase -------------------------------
(* RuleBase on one name in two spellings: client, session and user tell "x"     *)
(* from "X", permissions do not.                                                *)
EXTENDS RuleBase

MCNames == {"x", "X"}
MCFold == [n \in {"x", "X", "#", "*", ""} |-> IF n = "X" THEN "x" ELSE n]

MCSetKeys == [client : {"x", "*"}, session : {"x", "*"}, user : {"x", "*"},
              permission : {"x", "X", "*"}]
             \cup [client : {"#"}, session : {""}, user : {"X"}, permission : {"", "#"}]
MCFilters ==
  {[client |-> "#", session |-> "", user |-> "#", permission |-> "#"],
   [client |-> "#", session |-> "*", user |-> "#", permission |-> "X"],
   [client |-> "x", session |-> "x", user |-> "#", permission |-> ""],
   [client |-> "X", session |-> "#", user |-> "#", permission |-> "#"]}
MCQueries == [client : {"x", "X"}, session : {"x", "*", ""}, user : {"x", "X"},
              permission : {"x", "X", ""}]
MCExpires == {0, 1, -3}
================================================================================
