------------------------- MODULE MCDispositionStore -------------------------
(***************************************************************************)
(* Small instances of DispositionStore.  The inputs are the boundary cases *)
(* of classification and of the keys: the same unit declared relevant by   *)
(* one caller only, the same relevant bytes at two offsets, and an event.  *)
(***************************************************************************)
EXTENDS DispositionStore

In(sha, offset, class, relevant) ==
  [sha |-> sha, offset |-> offset, class |-> class, relevant |-> relevant]

event  == In("e", 1, "event", FALSE)
secret == In("s", 1, "secret", FALSE)
plain  == In("p", 1, "other", FALSE)
vital  == In("p", 1, "other", TRUE)
again  == In("p", 2, "other", TRUE)

AllInputs   == {event, secret, plain, vital, again}
KeyInputs   == {plain, vital, again}
VaultInputs == {vital, again}
PlainInputs == {event, plain}

=============================================================================
