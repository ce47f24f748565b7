------------------------------ MODULE BodyLimit ------------------------------
(***************************************************************************)
(* The limit of the bodies of /decrypt, computed from the limit of         *)
(* /encrypt.  The sizes are those of 64-bit integers, which TLC's do not   *)
(* reach, and the claims are linear: MemoryProofs proves them instead.     *)
(***************************************************************************)
EXTENDS Integers

SmallBodyLimit     == 65536
OpenEnvelopeMargin == 65536

OpenBodyLimit(sealLimit, maxInt64) ==
  IF sealLimit <= 0 THEN SmallBodyLimit
  ELSE IF sealLimit > ((maxInt64 - OpenEnvelopeMargin) \div 3) * 2 THEN maxInt64
  ELSE sealLimit + sealLimit \div 2 + OpenEnvelopeMargin

\* base64.StdEncoding.EncodedLen.
B64Len(n) == ((n + 2) \div 3) * 4

\* The size of an envelope in JSON around p bytes of plaintext: the ciphertext and its tag
\* in Base64, of which `escaped` characters are written with a backslash, and the rest.
EnvelopeSize(p, escaped, rest) == B64Len(p + 16) + escaped + rest
=============================================================================
