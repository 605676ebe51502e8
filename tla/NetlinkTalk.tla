------------------------------ MODULE NetlinkTalk ------------------------------
(***************************************************************************)
(* The dialogue of src/netlink/nl_kernel.c with the kernel: netlink_request  *)
(* or netlink_talk sends a request, netlink_parse_info reads datagrams and   *)
(* hands their messages to a filter until the answer ends.  The socket also  *)
(* receives notifications of the groups it has joined and datagrams of other *)
(* processes, at any time.                                                   *)
(*                                                                           *)
(* The kernel (external) queues the answer while it serves the request.      *)
(***************************************************************************)
EXTENDS Integers, Sequences, SequencesExt

CONSTANTS MaxRequests, MaxNotices    \* bounds: requests, datagrams that are no answers

VARIABLES nl,       \* nl_socket_t: seq and buflen, and the datagrams in the socket
          talk,     \* the call: pc, ret, and cut when it returns before the answer ends
          answer,   \* the messages the kernel sent for the last request
          handed,   \* the messages given to filter, since that request
          notices   \* how many notifications have come

nlVars == <<nl, talk, answer, handed, notices>>

Data(k) == [type |-> "data", error |-> "none", multi |-> TRUE, part |-> k]
Done == [type |-> "done", error |-> "none", multi |-> TRUE, part |-> 0]
Error(e, multi) == [type |-> "error", error |-> e, multi |-> multi, part |-> 0]
Notice == [type |-> "data", error |-> "none", multi |-> FALSE, part |-> 0]

\* A datagram: the port of its sender (0 is the kernel), its messages, and how
\* many bytes follow them that are no message.
Datagram(pid, msgs, rest) == [pid |-> pid, msgs |-> msgs, rest |-> rest]
Size(d) == Len(d.msgs) + d.rest

\* What the kernel answers: a dump in one or more datagrams, or one message about
\* the request; "busy" is an error that netlink_parse_error ignores.
Dumps == {<<Datagram(0, <<Data(1), Done>>, 0)>>,
          <<Datagram(0, <<Data(1), Data(2)>>, 0), Datagram(0, <<Error("ack", TRUE), Data(3), Done>>, 0)>>,
          <<Datagram(0, <<Error("failed", FALSE)>>, 0)>>}
Replies == {<<Datagram(0, <<Error(e, FALSE)>>, 0)>> : e \in {"ack", "busy", "failed", "short"}}
Stray == {Datagram(0, <<Notice>>, 0), Datagram(1, <<Notice>>, 0), Datagram(1, <<Notice>>, 1), Datagram(1, <<>>, 0)}
-----------------------------------------------------------------------------
NlInit ==
  /\ nl = [seq |-> 0, buflen |-> 0, sock |-> <<>>]
  /\ talk = [pc |-> "idle", ret |-> 0, cut |-> FALSE]
  /\ answer = <<>> /\ handed = <<>> /\ notices = 0

Sent(replies) ==
  /\ talk.pc = "idle" /\ talk.ret >= 0 /\ nl.seq < MaxRequests
  /\ nl' = [nl EXCEPT !.seq = @ + 1, !.sock = @ \o replies]
  /\ answer' = FlattenSeq([i \in DOMAIN replies |-> replies[i].msgs]) /\ handed' = <<>>
  /\ UNCHANGED notices

\* The sequence number is spent also when sendmsg fails.
NotSent ==
  /\ talk.pc = "idle" /\ talk.ret >= 0 /\ nl.seq < MaxRequests
  /\ nl' = [nl EXCEPT !.seq = @ + 1]
  /\ talk' = [talk EXCEPT !.ret = -1] /\ answer' = <<>> /\ handed' = <<>>
  /\ UNCHANGED notices

\* The caller asks for a dump and goes on to netlink_parse_info.
netlink_request == \E d \in Dumps : Sent(d) /\ talk' = [talk EXCEPT !.pc = "asked"]

netlink_talk == \E r \in Replies : Sent(r) /\ talk' = [pc |-> "parse", ret |-> 0, cut |-> FALSE]

\* A call of netlink_parse_info: for the answer, or for the notifications that have come.
Parse ==
  /\ \/ talk.pc = "asked" /\ UNCHANGED <<answer, handed>>
     \/ talk.pc = "idle" /\ talk.ret >= 0 /\ answer' = <<>> /\ handed' = <<>>
  /\ talk' = [pc |-> "parse", ret |-> 0, cut |-> FALSE]
  /\ UNCHANGED <<nl, notices>>

\* The values netlink_parse_error can return.  After the last of its tests it
\* ends without a return statement: the value is whatever the register holds.
netlink_parse_error(h) ==
  CASE h.error = "short" -> {-1}
    [] h.error = "ack" -> {1}
    [] h.error = "busy" -> {0}
    [] h.error = "failed" -> {-1, 0, 1}

Return(value) == [done |-> TRUE, ret |-> value]
Continue(value) == [done |-> FALSE, ret |-> value]


\* What the loop of netlink_parse_info does with one message, when filter returns
\* error.
Message(h, pid, ret, error) ==
  IF h.type = "done" THEN {Return(ret)}
  ELSE IF h.type = "error"
  THEN {IF e # 1 THEN Return(e) ELSE IF h.multi THEN Continue(ret) ELSE Return(0) : e \in netlink_parse_error(h)}
  ELSE {Continue(IF pid = 0 /\ error < 0 THEN error ELSE ret)}

\* The loop over the messages of a datagram: every way it can end, with what it
\* hands to filter.
RECURSIVE Messages(_, _, _, _)
Messages(msgs, pid, ret, given) ==
  IF msgs = <<>> THEN {[end |-> Continue(ret), given |-> given]}
  ELSE UNION {IF m.done THEN {[end |-> m, given |-> given]}
              ELSE Messages(Tail(msgs), pid, m.ret,
                            IF msgs[1].type = "data" /\ pid = 0 THEN Append(given, msgs[1]) ELSE given)
              : m \in UNION {Message(msgs[1], pid, ret, error) : error \in {0, -2}}}

\* recv with MSG_PEEK | MSG_TRUNC tells the size of the datagram, and the buffer
\* grows to it before recvmsg takes the datagram.
netlink_recvmsg ==
  nl' = [nl EXCEPT !.buflen = IF Size(nl.sock[1]) > @ THEN Size(nl.sock[1]) ELSE @, !.sock = Tail(@)]

\* One datagram.  EOF and trailing bytes end the call at once.
netlink_parse_info ==
  /\ talk.pc = "parse" /\ nl.sock # <<>>
  /\ netlink_recvmsg
  /\ IF Size(nl.sock[1]) = 0
     THEN talk' = [pc |-> "idle", ret |-> -1, cut |-> TRUE] /\ UNCHANGED handed
     ELSE \E m \in Messages(nl.sock[1].msgs, nl.sock[1].pid, talk.ret, <<>>) :
            /\ handed' = handed \o m.given
            /\ talk' = IF m.end.done THEN [pc |-> "idle", ret |-> m.end.ret, cut |-> FALSE]
                       ELSE IF Size(nl.sock[1]) > nl'.buflen THEN [talk EXCEPT !.ret = m.end.ret]
                       ELSE IF nl.sock[1].rest > 0 THEN [pc |-> "idle", ret |-> -1, cut |-> TRUE]
                       ELSE [talk EXCEPT !.ret = m.end.ret]
  /\ UNCHANGED <<answer, notices>>

\* The socket does not block: an empty one ends the call.
WouldBlock ==
  /\ talk.pc = "parse" /\ nl.sock = <<>>
  /\ talk' = [talk EXCEPT !.pc = "idle", !.cut = FALSE]
  /\ UNCHANGED <<nl, answer, handed, notices>>

\* "recvmsg overrun": the process exits.
Overrun == talk.pc = "parse" /\ talk' = [talk EXCEPT !.pc = "exit"] /\ UNCHANGED <<nl, answer, handed, notices>>

\* Notifications and datagrams of other processes.
Receive ==
  /\ notices < MaxNotices /\ notices' = notices + 1
  /\ \E d \in Stray : nl' = [nl EXCEPT !.sock = Append(@, d)]
  /\ UNCHANGED <<talk, answer, handed>>

\* After an error the program frees the socket and makes a new one: nothing in
\* nl_kernel.c tells the rest of an old answer from a new one.
Reopen ==
  /\ talk.pc = "idle" /\ talk.ret < 0
  /\ nl' = [nl EXCEPT !.buflen = 0, !.sock = <<>>] /\ talk' = [talk EXCEPT !.ret = 0, !.cut = FALSE]
  /\ answer' = <<>> /\ handed' = <<>> /\ UNCHANGED notices

NlNext ==
  \/ netlink_request \/ netlink_talk \/ NotSent \/ Parse
  \/ netlink_parse_info \/ WouldBlock \/ Overrun \/ Receive \/ Reopen
-----------------------------------------------------------------------------
IsPart(h) == h.multi

=============================================================================
