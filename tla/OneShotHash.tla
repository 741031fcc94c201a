---------------------------- MODULE OneShotHash ----------------------------
(***************************************************************************)
(* What a streaming hash promises: however the message is cut into updates,*)
(* the digest is that of the whole message at once.  A message is known by *)
(* its length: byte p of it is the number p.                               *)
(***************************************************************************)
EXTENDS Naturals

CONSTANTS Digest,   \* Digest[n]: the digest of the first n bytes
          NoDigest

VARIABLES absorbed, digest
vars == <<absorbed, digest>>

Init == absorbed = 0 /\ digest = NoDigest
Absorb == /\ digest = NoDigest
          /\ absorbed' \in Nat /\ absorbed' >= absorbed
          /\ UNCHANGED digest
Finish == /\ digest = NoDigest
          /\ digest' = Digest[absorbed]
          /\ UNCHANGED absorbed
Next == Absorb \/ Finish
Spec == Init /\ [][Next]_vars
=============================================================================
