------------------------------ MODULE MCDelivery ------------------------------
(***************************************************************************)
(* Instances of Delivery for TLC.                                          *)
(***************************************************************************)
EXTENDS Delivery, TLC

CONSTANTS a, r1, r2, m1, m2, q1, q2

Input(kind, to, ids, payment) ==
  [kind |-> kind, from |-> a, to |-> to, ids |-> ids, payment |-> payment]

Output(index, for) == [index |-> index, for |-> for]

\* One request goes to two recipients: the second is named by an output that the list gives
\* twice, so that the first gets another; or twice to one recipient and an output short if the
\* server takes one.  The other shows no payment, has no recipients, or asks for a quote.
Asked ==
  q1 :> {Input("send", <<r1, r2>>, <<m1, m2>>,
               <<Output(0, None), Output(1, r2), Output(1, None), Output(2, None)>>),
         Input("send", <<r1, r1>>, <<m2, m1>>, <<Output(0, None), Output(0, None)>>)}
    @@ q2 :> {Input("send", <<r1>>, <<m1>>, None),
              Input("send", <<>>, <<>>, <<Output(0, None)>>),
              Input("quote", <<r2>>, <<m1>>, None)}
=============================================================================
