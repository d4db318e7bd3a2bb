-------------------------------- MODULE MCApp --------------------------------
(* Constants for model checking App. *)
EXTENDS App
CONSTANTS r1, r2
Default == [prefix |-> <<>>, middlewares |-> <<"logger", "recovery">>]
Routing == [groups |-> <<Default>>, hasLogger |-> TRUE, registrations |-> 3,
           routes |-> {<<"">>, <<"p">>, <<"p", "">>, <<"p", "q">>, <<"p", ":x">>, <<":x", "q">>,
                       <<":x">>, <<"p", "*f">>, <<"*f">>, <<":x", "*f">>, <<":x", ":x">>,
                       <<"p", "*">>},
           requests |-> {}, paths |-> {}, calls |-> {"answer", "fail", "abort", "next"},
           orm |-> FALSE, clauses |-> {"where", "limit"}, panics |-> {}]
Serve == [Routing EXCEPT !.registrations = 1, !.routes = {<<"p">>}, !.requests = Request]
MCConfig ==
    {Routing,
     [Serve EXCEPT !.groups = <<Default, [prefix |-> <<"p">>, middlewares |-> <<"basicAuth">>]>>,
                   !.paths = {<<"p">>}, !.panics = {"error"}],
     [Serve EXCEPT !.groups = <<Default, [prefix |-> <<"p">>,
                                          middlewares |-> <<"jwt", "recovery">>]>>,
                   !.requests = {r1}, !.paths = {<<"p">>, <<"p", "login">>, <<"q">>},
                   !.panics = Panics],
     [Serve EXCEPT !.groups = <<[prefix |-> <<>>, middlewares |-> <<"recovery">>]>>,
                   !.hasLogger = FALSE, !.requests = {r1}, !.paths = {<<"p">>},
                   !.panics = {"error"}],
     [Serve EXCEPT !.groups = <<Default>>, !.requests = {r1}, !.paths = {<<"p">>},
                   !.orm = TRUE, !.calls = {"fail"}, !.panics = {"value", "goexit"}]}
MCPaths == {<<"">>, <<"p">>, <<"q">>, <<"p", "q">>, <<"p", "r">>, <<"q", "q">>, <<"q", "r">>,
            <<"p", "q", "r">>, <<"p", "login">>}
MCName == [part \in {":x", "*f", "*"} |-> CASE part = ":x" -> "x" [] part = "*f" -> "f"
                                             [] part = "*" -> ""]
MCLogin == {<<"p", "login">>}
=============================================================================
