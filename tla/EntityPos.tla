------------------------------ MODULE EntityPos ------------------------------
(***************************************************************************)
(* EntityProxy (entity.h): the text of a position, ip_port_id, and its     *)
(* parsing.  A text is the sequence of its characters.                     *)
(***************************************************************************)
EXTENDS Integers, SequencesExt

CONSTANT MaxInt  \* the largest int

ASSUME PosAssumption == MaxInt \in Nat

Ints == (-MaxInt - 1)..MaxInt

Digit == <<"0", "1", "2", "3", "4", "5", "6", "7", "8", "9">>

Digits[n \in Nat] ==
  IF n < 10 THEN <<Digit[n + 1]>> ELSE Append(Digits[n \div 10], Digit[(n % 10) + 1])

to_string(n) == IF n < 0 THEN <<"-">> \o Digits[-n] ELSE Digits[n]

\* The digit that a character is, and the number that digits make.
Figure(c) == CHOOSE d \in 0..9 : Digit[d + 1] = c

Number(text) ==
  LET upto[n \in 0..Len(text)] ==
        IF n = 0 THEN 0 ELSE 10 * upto[n - 1] + Figure(text[n])
  IN upto[Len(text)]

\* How many of the first characters are in S.
Leading(text, S) == Max({n \in 0..Len(text) : \A i \in 1..n : text[i] \in S})

Space == {" "}
Sign  == {"+", "-"}

\* std::stoi: white space, a sign, then the digits up to the first other
\* character; it throws when there are none or the number is no int.
stoi(text) ==
  LET from   == Leading(text, Space) + 1
      sign   == IF from <= Len(text) THEN text[from] ELSE ""
      body   == SubSeq(text, IF sign \in Sign THEN from + 1 ELSE from, Len(text))
      digits == Leading(body, ToSet(Digit))
      number == Number(SubSeq(body, 1, digits))
      value  == IF sign = "-" THEN -number ELSE number
  IN [ok |-> digits > 0 /\ value \in Ints, value |-> value]

IsBar(c) == c = "_"

\* std::string::find and rfind, of the bar: 0 stands for npos.
find(pos)  == SelectInSeq(pos, IsBar)
rfind(pos) == SelectLastInSeq(pos, IsBar)

get_pos(p) == p.ip \o <<"_">> \o to_string(p.port) \o <<"_">> \o p.id

set_proxy(id, ip, port) == [ip |-> ip, port |-> port, id |-> id, validate |-> TRUE]

\* A mutated form: the last bar is taken for the first one.
parse_pos_at_last(p, pos) ==
  LET bar  == rfind(pos)
      port == stoi(SubSeq(pos, bar + 1, Len(pos)))
  IN IF port.ok
     THEN [ok |-> TRUE,
           proxy |-> set_proxy(SubSeq(pos, bar + 1, Len(pos)), SubSeq(pos, 1, bar - 1),
                               port.value)]
     ELSE [ok |-> FALSE, proxy |-> p]

\* What parse_pos returns and what it makes of p.  With no bar, find gives npos
\* and every part is the whole text; with one, the length of the port wraps
\* around and the port runs to the end.  The ip is assigned before stoi throws.
parse_pos(p, pos) ==
  LET first == find(pos)
      last  == rfind(pos)
      ip    == IF first = 0 THEN pos ELSE SubSeq(pos, 1, first - 1)
      port  == stoi(SubSeq(pos, first + 1, IF first = last THEN Len(pos) ELSE last - 1))
  IN IF port.ok
     THEN [ok |-> TRUE, proxy |-> set_proxy(SubSeq(pos, last + 1, Len(pos)), ip, port.value)]
     ELSE [ok |-> FALSE, proxy |-> [p EXCEPT !.ip = ip]]

=============================================================================
