------------------------------- MODULE MCBilling -------------------------------
(* Billing for TLC: a day of three hours of two minutes, and its tariffs. *)
EXTENDS Billing

Item(h1, m1, h2, m2, p) ==
    [start |-> [h |-> h1, m |-> m1], end |-> [h |-> h2, m |-> m2],
     price |-> p, service_fee |-> 1]

MCFiles == {
    \* three hours, one of which two periods claim
    [price_list |-> <<Item(0, 0, 1, 0, 2), Item(1, 0, 2, 0, 5), Item(1, 0, 3, 0, 1)>>,
     other_price |-> 4],
    \* a change in the middle of an hour
    [price_list |-> <<Item(0, 0, 1, 1, 3), Item(1, 1, 3, 0, 1)>>, other_price |-> 4],
    \* the last hour is left out, as in the price.json of the repository
    [price_list |-> <<Item(0, 0, 2, 0, 2)>>, other_price |-> 4],
    \* a period over midnight
    [price_list |-> <<Item(2, 0, 1, 0, 2), Item(1, 0, 2, 0, 5)>>, other_price |-> 4],
    \* an hour that pays the customer
    [price_list |-> <<Item(0, 0, 1, 0, 3), Item(1, 0, 3, 0, -3)>>, other_price |-> 4]}
=============================================================================
