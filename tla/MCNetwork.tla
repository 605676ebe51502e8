------------------------------- MODULE MCNetwork -------------------------------
(* Framing with each unpack mode, and with the calls that read until a length  *)
(* or a delimiter; a calendar with months of two lengths, and dates around the *)
(* ends of February.                                                           *)
EXTENDS Network

Unpack(set, n, bytes, high) ==
  [unpack |-> set, bytes |-> n, alphabet |-> bytes, high |-> high, max |-> 0,
   lengths |-> {}, delims |-> {}]
Until(n) ==
  [unpack |-> [mode |-> "none"], bytes |-> n, alphabet |-> 0..1, high |-> 16, max |-> 16,
   lengths |-> {2, 3}, delims |-> {1}]

ByFixed == [mode |-> "fixed", package_max_length |-> 4, fixed_length |-> 3]
ByDelimiter(d, max) == [mode |-> "delimiter", package_max_length |-> max, delimiter |-> d]
ByField(coding, offset, bytes, adjustment, max) ==
  [mode |-> "field", package_max_length |-> max, coding |-> coding, length_field_offset |-> offset,
   length_field_bytes |-> bytes, body_offset |-> offset + bytes, length_adjustment |-> adjustment]

MCUses ==
  {Unpack(ByFixed, 7, {0, 1}, 16),
   Unpack(ByDelimiter(<<1, 2>>, 5), 6, 0..2, 16), Unpack(ByDelimiter(<<1, 1, 2>>, 4), 7, {1, 2}, 16),
   Unpack(ByDelimiter(<<2>>, 5), 7, {0, 2}, 2),
   Unpack(ByField("big", 1, 1, 1, 4), 6, 0..2, 16), Unpack(ByField("big", 0, 1, 0, 4), 7, 0..1, 2),
   Unpack(ByField("little", 0, 2, 0, 5), 6, 0..2, 16), Unpack(ByField("varint", 0, 1, 0, 5), 6, 0..2, 16),
   Until(6)}

MCMonths == <<2, 3>>
Day(y, m, d) == [year |-> y, month |-> m, day |-> d]
MCStarts == {Day(1900, 2, 28), Day(2000, 2, 29)}
=============================================================================
