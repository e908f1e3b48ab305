--------------------------- MODULE MCFallbackChain ---------------------------
(* A small instance of FallbackChain for TLC. *)
EXTENDS FallbackChain

MCChain == <<"cloud", "spare", "local">>
\* The spare leaves the chain, which may be where the calls are.
MCEdits == {<<"cloud", "local">>}
==============================================================================
