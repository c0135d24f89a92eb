---------------------------------- MODULE Expire ----------------------------------
(*******************************************************************************)
(* The dates of src/src/expire.c as texts: a duration written with units and   *)
(* read again, with saturation, and the dates of the answers of                *)
(* src/src/cyn-server.c as src/src/cynagora.c understands them.  A text is a   *)
(* sequence of characters.                                                     *)
(*                                                                             *)
(* An operator named Faulty... is not the code: it is a plausible mistake in    *)
(* the definition it precedes, kept to show which property catches it.         *)
(*******************************************************************************)
EXTENDS Integers, Sequences

CONSTANT TMAX   (* the greatest time_t                                          *)
ASSUME TMAXAssumption == TMAX \in Nat \ {0}

Digits == <<"0", "1", "2", "3", "4", "5", "6", "7", "8", "9">>
DigitValue == [c \in {Digits[i] : i \in 1 .. 10} |-> (CHOOSE i \in 1 .. 10 : Digits[i] = c) - 1]

(* Units, the greatest first; a year is 365 days and a quarter.                *)
Units == <<"y", "w", "d", "h", "m", "s">>
Seconds == [y |-> 31557600, w |-> 604800, d |-> 86400, h |-> 3600, m |-> 60, s |-> 1]

(* pt_add, pt_mul, pt_muladd and pt_tm10a: saturation at TMAX.                 *)
Plus(x, y) == IF x > TMAX - y THEN TMAX ELSE x + y
Times(x, m) == IF x > TMAX \div m THEN TMAX ELSE x * m

(* parse_time_spec: the sum r of the parts that are read, and the number x     *)
(* that has no unit yet, which counts as seconds.                              *)
Letters == DOMAIN DigitValue \cup {Units[i] : i \in DOMAIN Units}
Sums == [r : 0 .. TMAX, x : 0 .. TMAX]
ReadChar[got \in Sums \X Letters] ==
  LET acc == got[1]
      c == got[2]
  IN  IF c \in DOMAIN DigitValue
      THEN [r |-> acc.r, x |-> Plus(Times(acc.x, 10), DigitValue[c])]
      ELSE [r |-> Plus(Times(acc.x, Seconds[c]), acc.r), x |-> 0]

parse_time_spec(text) ==
  LET read[i \in 0 .. Len(text)] ==
        IF i = 0 THEN [r |-> 0, x |-> 0] ELSE ReadChar[<<read[i - 1], text[i]>>]
  IN  Plus(read[Len(text)].x, read[Len(text)].r)

(* exp2txt of a duration: the count of each unit that is not 0.  Nothing is    *)
(* written of a duration that is not positive.                                 *)
Decimal[n \in Nat] ==
  IF n < 10 THEN <<Digits[n + 1]>> ELSE Append(Decimal[n \div 10], Digits[(n % 10) + 1])

AddUnit(acc, u) ==
  IF acc.left < Seconds[u] THEN acc
  ELSE [left |-> acc.left % Seconds[u],
        text |-> acc.text \o Append(Decimal[acc.left \div Seconds[u]], u)]

DurationText(d) ==
  LET add[i \in 0 .. Len(Units)] ==
        IF i = 0 THEN [left |-> d, text |-> <<>>] ELSE AddUnit(add[i - 1], Units[i])
  IN  add[Len(Units)].text

(* exp2check at the time t: the date of an answer, as a field or no field.     *)
NoCache == <<"-">>
exp2check(expire, t) ==
  IF expire = 0 THEN <<>>
  ELSE IF expire < 0 THEN <<NoCache>>
  ELSE <<DurationText(expire - t)>>

(* status_check and txt2exp at the time t: 0 is for ever, -1 not to be cached. *)
FaultyDateOf(fields, t) ==
  IF fields = <<>> \/ fields[1] \in {<<>>, NoCache} THEN 0
  ELSE Plus(parse_time_spec(fields[1]), t)
DateOf(fields, t) ==
  IF fields = <<>> \/ fields = <<<<>>>> THEN 0
  ELSE IF fields[1][1] = "-" THEN -1
  ELSE Plus(parse_time_spec(fields[1]), t)
================================================================================
