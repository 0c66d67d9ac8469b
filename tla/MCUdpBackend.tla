----------------------------- MODULE MCUdpBackend -----------------------------
(* One backend, two descriptors, and messages on both sides of every limit: *)
(* lengths of 6 to 9 cells against a receive buffer of 7 and a packet of 8, *)
(* one that is not valid, and one so long that its length does not fit.     *)
EXTENDS UdpBackend

const_Fd == {10, 11}

const_NoFd == -1

Msg(t, from, to, payload) ==
  [type |-> t, from_node_id |-> from, to_node_id |-> to,
   correlation_id |-> <<>>, payload |-> payload]

const_Messages ==
  {Msg(1, <<1>>, <<>>, <<>>), Msg(2, <<2>>, <<1>>, <<>>),
   Msg(1, <<1>>, <<>>, <<0, 0>>), Msg(3, <<1>>, <<2>>, <<1, 1>>),
   Msg(0, <<1>>, <<>>, <<>>),
   Msg(1, <<1>>, <<>>, <<1, 2, 0, 1, 1, 1, 0, 0, 0, 0>>)}

(* Nothing at all, a message with a cell left over, a message with more    *)
(* left over than the buffer holds, an unknown type, and a message.        *)
const_Foreign ==
  {<<>>, <<1, 1, 1, 0, 0, 0, 0>>, <<2, 1, 1, 0, 0, 1, 2, 9>>,
   <<7, 1, 1, 0, 0, 0>>, <<3, 1, 2, 0, 0, 0>>}
=============================================================================
