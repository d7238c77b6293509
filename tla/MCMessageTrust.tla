---------------------------- MODULE MCMessageTrust ----------------------------
\* Two devices that share a group key, one of which may boot with an
\* identifier used before; a receiver that restarts once.  A tick of the clock
\* is a message's whole life.
EXTENDS MessageTrust, TLC

CONSTANTS post, phone, b1, b2, b3, group

MCKeysOf == (post :> {group}) @@ (phone :> {group})
MCValidUntil == (post :> MaxTime) @@ (phone :> 0)
MCSymmetry == Permutations({b1, b2, b3})
=============================================================================
