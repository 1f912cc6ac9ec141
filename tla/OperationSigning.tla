-------------------------- MODULE OperationSigning --------------------------
(***************************************************************************)
(* Signing and verifying operations (utils/crypto.go), as operators.       *)
(* ECDSA and SHA-256 are taken at their word: a signature verifies with    *)
(* the public key of the pair that made it, on the bytes that were signed, *)
(* and with nothing else.  A key pair is one value, and so is the user     *)
(* that GenerateUserID derives from its public key.                        *)
(***************************************************************************)
EXTENDS Naturals, SequencesExt

\* The bytes that may stand for an operation: its fields and its data, whose
\* keys come in the order in which Go iterates over the map, which differs
\* from call to call.
CreateOperationData(op) ==
  {<<op.user, op.content, order>> : order \in SetToSeqs(op.keys)}

\* The two numbers of a signature, each as long as its value needs: 32 bytes,
\* or fewer when it begins with zeros (one byte fewer stands for all).
ComponentSize == {31, 32}

SignData(privateKey, bytes) ==
  {[key |-> privateKey, of |-> bytes, size |-> r + s] :
     r \in ComponentSize, s \in ComponentSize}

\* A plausible other VerifySignature: looks at the length alone.
VerifyLength(publicKey, bytes, signature) == signature.size = 64

VerifySignature(publicKey, bytes, signature) ==
  /\ signature.size = 64
  /\ signature.key = publicKey
  /\ signature.of = bytes
=============================================================================
