------------------------------- MODULE MCArp -------------------------------
(* Two processes for TLC, in seven of the fifteen pairs of modes: a query  *)
(* with each of the five, and a filter with a filter and with a process    *)
(* that ends without its clean-up.                                         *)
EXTENDS Arp

Pairs == {<<"short", "filter">>, <<"short", "query">>, <<"error", "query">>,
          <<"all", "query">>, <<"filter", "filter">>, <<"filter", "query">>,
          <<"query", "query">>}

=============================================================================
