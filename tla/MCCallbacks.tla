---------------------------- MODULE MCCallbacks ----------------------------
(* Two callers of one bulkhead and a watch, a caller and two watches, on   *)
(* two threads.                                                            *)
EXTENDS Callbacks
CONSTANTS e1, e2, a, b, w, x
HomeOf(t) == IF t = x THEN e2 ELSE e1
Together == {{a, b, w}, {b, w, x}}
=============================================================================
