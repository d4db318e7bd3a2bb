---------------------------- MODULE MCRpcServer ----------------------------
(* Model checking RpcServer: the requests are model values of the cfgs, the *)
(* last of them one for a method that is not registered.                    *)
EXTENDS RpcServer
=============================================================================
