----------------------------- MODULE MCFutures -----------------------------
(* Small instances of Futures.                                               *)
EXTENDS Futures

CONSTANTS f, inner

\* the function of f makes the future inner and touches it
OneInner == [o \in Objects |-> IF o = f THEN inner ELSE None]
=============================================================================
