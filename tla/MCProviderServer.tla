-------------------------- MODULE MCProviderServer --------------------------
(***************************************************************************)
(* A small instance of ProviderServer: two connections, two worlds, an     *)
(* idle timeout of two ticks and requests of at most one.                  *)
(***************************************************************************)
EXTENDS ProviderServer

CONSTANTS c1, c2, k1, k2, x1, x2, x3

MCConns == {c1, c2}
MCKeys == {k1, k2}
MCCtxIds == {x1, x2, x3}
=============================================================================
