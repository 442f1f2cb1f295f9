------------------------------ MODULE MCServer ------------------------------
(* Clients for TLC: the pairs of names two of them ask for, each in one     *)
(* order, where "served" and "alike" fare alike; and a single client.       *)
EXTENDS MyftpServer

Pairs == {<<"served", "alike">>, <<"alike", "cut">>, <<"served", "other">>,
          <<"cut", "other">>}
Alone == {<<"served">>}

=============================================================================
