--------------------------- MODULE MCStdioBridge ---------------------------
(* TLC instance of StdioBridge. *)
EXTENDS StdioBridge

Line(k, i) == [kind |-> k, id |-> i]
Initialize  == Line("initialize", 1)
Initialized == Line("initialized", NoId)
Call(i)     == Line("call", i)
Cancel(i)   == Line("cancel", i)
Notify      == Line("call", NoId)

MCScripts == {
    \* a handshake, and a call that does not wait for it
    << Initialize, Initialized, Call(2), Cancel(2) >>,
    \* a call before the handshake, in front of it in the queue
    << Call(2), Initialize, Initialized, Call(1) >>,
    \* an id used again, a cancellation of the handshake
    << Initialize, Cancel(1), Initialized, Call(1) >>,
    \* an id used again in an established session
    << Call(1), Cancel(1), Call(1) >>,
    \* repeated and early lifecycle messages
    << Initialized, Initialized, Initialized >>,
    << Initialized, Initialize, Notify >>,
    \* more calls and cancellations than the queues hold
    << Call(1), Call(2), Cancel(1), Cancel(2) >>,
    \* lines the bridge answers by itself
    << Line("invalid", NoId), Line("initialize", NoId), Line("initialized", 1), Call(1) >> }
=============================================================================
