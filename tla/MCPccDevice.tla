----------------------------- MODULE MCPccDevice ------------------------------
(* Two contexts.  DOCA 3: on one worker or on two, with changes of rate, and   *)
(* a third QP that gets a used context.  The mailbox, of two slots: two QPs    *)
(* that start from the same slot and change their rates; and a third one that  *)
(* finds it full.  The table of averages has two entries.  The clock of the    *)
(* probes has 5 bits, so that the time-out overflows.                          *)
EXTENDS PccDevice

Setup(i, r, q, f, n) == [image |-> i, rank |-> r, qp |-> q, fresh |-> f, changes |-> n]

MCSetups ==
  { Setup("steering3", <<1, 1>>, <<1, 2>>, {3}, 2), Setup("steering3", <<1, 2>>, <<1, 2>>, {3}, 2),
    Setup("steering2", <<1, 2>>, <<1, 3>>, {}, 1),  Setup("steering2", <<1, 2>>, <<1, 2>>, {3}, 0),
    Setup("ecn", <<1, 1>>, <<1, 2>>, {}, 0),        Setup("exercise", <<1, 1>>, <<1, 2>>, {}, 0) }

MCContexts == 1 .. 2
MCWorkers  == 1 .. 2
MCQpn      == 1 .. 3
=============================================================================
