------------------------------ MODULE MCCrypto ------------------------------
(* The walk of Argon2, the two streaming hashes and GCM, one of them at a   *)
(* time, with blocks of a few bytes.                                        *)
EXTENDS Argon2Index, Gcm

VARIABLES part,
          length, buffer, buffered, stream, count, todo, phase, bitLength,
          block, used, counted, hashed, size, marks, absorbed, left, stage
shaVars == <<length, buffer, buffered, stream, count, todo, phase, bitLength>>
blakeVars == <<block, used, counted, hashed, size, marks, absorbed, left, stage>>
cryptoVars == <<part, walkVars, shaVars, blakeVars, gcmVars>>

Sha == INSTANCE Sha256Stream WITH Block <- 4, LengthSize <- 2, MaxMessage <- 13
Blake == INSTANCE Blake2Stream WITH
  Block <- 4, MaxMessage <- 13, Half <- 2,
  count <- counted, stream <- hashed, todo <- left, phase <- stage

ASSUME Sha!ShaAssumption /\ Blake!BlakeAssumption

CryptoInit == /\ part \in {"argon2", "sha256", "blake2b", "gcm"}
              /\ WalkInit /\ Sha!Init /\ Blake!Init /\ GcmInit
CryptoNext ==
  \/ part = "argon2" /\ WalkNext /\ UNCHANGED <<part, shaVars, blakeVars, gcmVars>>
  \/ part = "sha256" /\ Sha!Next /\ UNCHANGED <<part, walkVars, blakeVars, gcmVars>>
  \/ part = "blake2b" /\ Blake!Next /\ UNCHANGED <<part, walkVars, shaVars, gcmVars>>
  \/ part = "gcm" /\ GcmNext /\ UNCHANGED <<part, walkVars, shaVars, blakeVars>>
CryptoSpec == /\ CryptoInit /\ [][CryptoNext]_cryptoVars
              /\ WF_shaVars(part = "sha256" /\ (Sha!UpdateTurn \/ Sha!PadTurn \/ Sha!Close)
                            /\ UNCHANGED <<part, walkVars, blakeVars, gcmVars>>)

\* However a message is cut into updates, the digest is that of the message at
\* once, in both hashes, and SHA-256's comes: its padding loop ends too.  The
\* long hash of Argon2 is the chain of digests its RFC says.
DigestsAreOneShot == /\ Sha!ImplementsOneShot /\ Sha!CallsReturn
                     /\ Blake!ImplementsOneShot /\ []Blake!LongHashIsChained
=============================================================================
