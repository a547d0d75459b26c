--------------------------- MODULE MCCallRecords ---------------------------
(* CallRecords with two calls of one caller: the first has an outgoing leg. *)
EXTENDS CallRecords

CONSTANTS a, b, c, none, text, u1, u2

MCCallIDs == {a, b, c}
MCRecords ==
  {[callID |-> a, originator |-> a, start |-> 1, from |-> u1, to |-> u2, mes |-> 0],
   [callID |-> b, originator |-> a, start |-> 2, from |-> u1, to |-> u2, mes |-> 2],
   [callID |-> c, originator |-> c, start |-> 3, from |-> u2, to |-> u1, mes |-> 1]}

MCMessages ==
  {[callID |-> a, originator |-> none, originatorFirst |-> FALSE],
   [callID |-> b, originator |-> a, originatorFirst |-> TRUE],
   [callID |-> b, originator |-> a, originatorFirst |-> FALSE],
   [callID |-> none, originator |-> none, originatorFirst |-> FALSE]}

F(k, v) == [key |-> k, value |-> v]
Form(from, to, filters, pattern) ==
  [dateFrom |-> from, dateTo |-> to, filters |-> filters, text |-> pattern]

MCForms ==
  {Form(d[1], d[2], fs, {u1}) :
     d \in {<<0, 0>>, <<2, 0>>, <<2, 2>>, <<1, 2>>},
     fs \in {<<>>, <<F("other", {})>>, <<F("from", {u2})>>,
             <<F("from", {u1, u2}), F("to", {u2})>>,
             <<F("from", {u2}), F("mes", {1}), F("from", {u1})>>,
             <<F("call_id", {b, c})>>, <<F("orig_call_id", {a})>>,
             <<F("mes", {})>>}}
=============================================================================
