---------------------------- MODULE AuthenticMap ----------------------------
(***************************************************************************)
(* What the map protocol promises, without events, deltas or caches        *)
(* (clientapi/README.md, "Clients reconstruct into a copy, validate and    *)
(* authenticate it, and only then replace cache"): a client that holds     *)
(* map content holds content the control plane signed, and it took that    *)
(* content up while the signature and every sharing lease in it were       *)
(* current on its own clock.                                               *)
(***************************************************************************)
EXTENDS Sharing

CONSTANT MaxSignatureClockSkew

VARIABLES
  signed,  \* the payloads the control plane has signed
  held,    \* the content the client holds: {} or one payload
  clock    \* the client's clock

avars == <<signed, held, clock>>

AInit == signed = {} /\ held = {} /\ clock = 0

Sign(payload) ==
  /\ signed' = signed \cup {payload}
  /\ UNCHANGED <<held, clock>>

Advance ==
  /\ clock' = clock + 1
  /\ UNCHANGED <<signed, held>>

Adopt(payload) ==
  /\ payload \in signed
  /\ payload.issuedAt <= clock + MaxSignatureClockSkew
  /\ clock < payload.expiresAt
  /\ LeasesCurrent(payload.network, clock)
  /\ held' = {payload}
  /\ UNCHANGED <<signed, clock>>

ANext ==
  \/ \E payload \in signed' : Sign(payload)
  \/ Advance
  \/ \E payload \in signed : Adopt(payload)

ASpec == AInit /\ [][ANext]_avars
=============================================================================
