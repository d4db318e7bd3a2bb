---------------------------- MODULE MCRpcClient ----------------------------
(* Model checking RpcClient: Call and None are model values of the cfg. *)
EXTENDS RpcClient
=============================================================================
