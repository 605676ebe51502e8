------------------------------ MODULE NetlinkAttr ------------------------------
(***************************************************************************)
(* The attributes of a netlink message (src/netlink/nl_kernel.c): they are   *)
(* appended to a buffer of maxlen bytes, nests and nexthops are ended by     *)
(* patching their length, and the readers walk the lengths again.  The       *)
(* buffer is the headers at their byte offsets; of a payload only the length *)
(* is kept.                                                                  *)
(***************************************************************************)
EXTENDS Integers, Sequences, SequencesExt

CONSTANTS Type, MaxType,   \* types of attributes, and the largest a reader asks for
          Lengths,         \* lengths of payloads, in bytes
          maxlen,          \* size of the buffer
          Start,           \* nlmsg_len before the first attribute
          MaxDepth         \* how deep nests are built

VARIABLES msg,    \* nlmsg_len and the headers in the buffer
          open,   \* the nests and nexthops not ended yet, innermost last
          items   \* what has been put, in order, with the item it was put into

attrVars == <<msg, open, items>>

Align(n) == 4 * ((n + 3) \div 4)    \* NLMSG_ALIGN, RTA_ALIGN and RTNH_ALIGN
Header == 4                         \* sizeof(struct rtattr)
Nexthop == 8                        \* sizeof(struct rtnexthop)

NLMSG_TAIL == Align(msg.len)
Into == IF open = <<>> THEN [at |-> 0, kind |-> "attr"] ELSE Last(open)

AttrInit == msg = [len |-> Start, at |-> <<>>] /\ open = <<>> /\ items = <<>>

\* Mutant: the room is tested without the alignment.
AddTight(kind, type, size, len) ==
  IF msg.len + size > maxlen THEN UNCHANGED <<msg, items>>
  ELSE LET item == [at |-> NLMSG_TAIL, kind |-> kind, type |-> type, size |-> size, into |-> Into.at]
           h == [kind |-> kind, type |-> type, len |-> len]
       IN /\ msg' = [len |-> NLMSG_TAIL + Align(size),
                     at |-> [o \in DOMAIN msg.at \cup {NLMSG_TAIL} |-> IF o = NLMSG_TAIL THEN h ELSE msg.at[o]]]
          /\ items' = Append(items, item)

\* What does not fit leaves the message as it is.
Add(kind, type, size, len) ==
  IF NLMSG_TAIL + Align(size) > maxlen THEN UNCHANGED <<msg, items>>
  ELSE LET item == [at |-> NLMSG_TAIL, kind |-> kind, type |-> type, size |-> size, into |-> Into.at]
           h == [kind |-> kind, type |-> type, len |-> len]
       IN /\ msg' = [len |-> NLMSG_TAIL + Align(size),
                     at |-> [o \in DOMAIN msg.at \cup {NLMSG_TAIL} |-> IF o = NLMSG_TAIL THEN h ELSE msg.at[o]]]
          /\ items' = Append(items, item)

Opened == open' = IF msg' = msg THEN open ELSE Append(open, Last(items'))

\* A nest either holds attributes or is the list of nexthops of a route.
nl_attr_put ==
  /\ Into.kind # "hops"
  /\ \E type \in Type, alen \in Lengths : Add("attr", type, Header + alen, Header + alen)
  /\ UNCHANGED open

nl_attr_nest ==
  /\ Into.kind # "hops" /\ Len(open) < MaxDepth
  /\ \E type \in Type, kind \in {"nest", "hops"} : Add(kind, type, Header, Header)
  /\ Opened

nl_attr_rtnh == Into.kind = "hops" /\ Add("hop", 0, Nexthop, 0) /\ Opened

\* nl_attr_nest_end and nl_attr_rtnh_end.
nl_attr_end ==
  /\ open # <<>>
  /\ msg' = [msg EXCEPT !.at[Last(open).at].len = NLMSG_TAIL - Last(open).at]
  /\ open' = Front(open) /\ UNCHANGED items

AttrNext == nl_attr_put \/ nl_attr_nest \/ nl_attr_rtnh \/ nl_attr_end
-----------------------------------------------------------------------------
(* The readers                                                                *)

RTA_OK(o, len) == len >= Header /\ msg.at[o].len >= Header /\ msg.at[o].len <= len

\* The attributes that the loops of the parse functions meet.
RECURSIVE Attributes(_, _)
Attributes(o, len) ==
  IF ~RTA_OK(o, len) THEN <<>>
  ELSE <<o>> \o Attributes(o + Align(msg.at[o].len), len - Align(msg.at[o].len))

\* The nexthops that netlink_route_change_read_multicast meets.
RECURSIVE Nexthops(_, _)
Nexthops(o, len) ==
  IF len < Nexthop \/ msg.at[o].len > len THEN <<>>
  ELSE IF msg.at[o].len = 0 THEN <<o>>
  ELSE <<o>> \o Nexthops(o + Align(msg.at[o].len), len - Align(msg.at[o].len))

\* NLA_F_NESTED is a bit of the type: without the mask a nest has no type that a
\* reader asks for.
Masked(o, mask) == msg.at[o].kind = "attr" \/ mask

netlink_parse_rtattr(o, len, type) ==
  LET found == SelectSeq(Attributes(o, len), LAMBDA p : msg.at[p].type = type /\ Masked(p, FALSE))
  IN IF type > MaxType \/ found = <<>> THEN 0 ELSE Last(found)

netlink_parse_rtattr_flags(o, len, type) ==
  LET found == SelectSeq(Attributes(o, len), LAMBDA p : msg.at[p].type = type /\ Masked(p, TRUE))
  IN IF type > MaxType \/ found = <<>> THEN 0 ELSE Head(found)
-----------------------------------------------------------------------------
Inside(at) == LET S == SelectSeq(items, LAMBDA i : i.into = at) IN [k \in DOMAIN S |-> S[k].at]

Chosen(at, type, kinds) == SelectSeq(items, LAMBDA i : i.into = at /\ i.type = type /\ i.kind \in kinds)

\* What the readers find in [o, o + len) is what was put into at.
Reads(at, o, len) ==
  /\ Attributes(o, len) = Inside(at)
  /\ \A type \in Type :
       LET plain == Chosen(at, type, {"attr"})
           any == Chosen(at, type, {"attr", "nest", "hops"})
       IN /\ netlink_parse_rtattr(o, len, type) = IF type > MaxType \/ plain = <<>> THEN 0 ELSE Last(plain).at
          /\ netlink_parse_rtattr_flags(o, len, type) = IF type > MaxType \/ any = <<>> THEN 0 ELSE Head(any).at

\* A message is never longer than its buffer, and once its nests are ended the
\* readers find in it every attribute that was put, in its nest and its nexthop,
\* with its length, whichever attributes did not fit: netlink_parse_rtattr the
\* last of a type, netlink_parse_rtattr_flags the first.
AttributesRead ==
  /\ msg.len <= maxlen
  /\ open = <<>> =>
       /\ Reads(0, Align(Start), msg.len - Align(Start))
       /\ \A k \in DOMAIN items :
            LET i == items[k]  len == msg.at[i.at].len
            IN CASE i.kind = "attr" -> len = i.size
                 [] i.kind = "nest" -> Reads(i.at, i.at + Header, len - Header)
                 [] i.kind = "hops" -> Nexthops(i.at + Header, len - Header) = Inside(i.at)
                 [] i.kind = "hop" -> Reads(i.at, i.at + Nexthop, len - Nexthop)
=============================================================================
