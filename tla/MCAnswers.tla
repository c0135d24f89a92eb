--------------------------------- MODULE MCAnswers ---------------------------------
(* Answers with rules that end, do not end or are not to be cached, and a list   *)
(* whose names need escapes and whose records fill a buffer exactly.            *)
EXTENDS Answers

MCEndOf == [k \in Keys |-> CASE k = "a" -> 1 [] k = "b" -> 0 [] k = "c" -> -4]
MCLength == [k \in Keys |-> 1]
MCListed == << << <<"i">>, <<"\\">>, <<" ">> >>, << <<"i">>, <<"\n">>, <<"\\">> >> >>
MCDates == [k \in Keys |-> CASE k = "a" -> {<<<<"1", "s">>>>, <<<<>>>>}
                             [] k = "b" -> {<<>>}
                             [] k = "c" -> {<<NoCache>>}]
MCRecords ==
  {MCListed[i] : i \in DOMAIN MCListed} \cup {Done}
    \cup UNION {{AnswerTo(k, Yes, d) : d \in MCDates[k]} : k \in Keys}
    \cup {AnswerTo(k, No, <<>>) : k \in {"a", "b", "c"}}
================================================================================
