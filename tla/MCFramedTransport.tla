--------------------------- MODULE MCFramedTransport ---------------------------
(* Finite instances of FramedTransport for TLC. *)
EXTENDS FramedTransport

AFrame(kind, payload) == [kind |-> kind, flags |-> <<1, 0, 0, 255>>, payload |-> payload]

\* an empty frame and one with a payload; one that is too large; one of no kind
MCOutboxes ==
  {<<AFrame(21, <<>>), AFrame(22, <<7>>)>>, <<AFrame(5, <<7, 7>>), AFrame(21, <<>>)>>,
   <<AFrame(0, <<>>), AFrame(1, <<9>>)>>}
================================================================================
