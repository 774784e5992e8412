---------------------------- MODULE MCFormWrite ----------------------------
EXTENDS FormWrite

\* Two versions of one record in one period, a record of another period, and a
\* row that lacks both its key and its period. The record of the two versions
\* and the other record add up to no stock; each version alone has some.
CONSTANTS a1, a2, b, x, ka, kb, spring, summer
MCRows == {a1, a2, b, x}
MCKeyOf == [r \in MCRows |-> CASE r = b -> kb [] r = x -> NoKey [] OTHER -> ka]
MCScopeOf ==
  [r \in MCRows |-> CASE r = b -> summer [] r = x -> NoScope [] OTHER -> spring]
MCNoStock == {{a1, a2}, {b}}
=============================================================================
