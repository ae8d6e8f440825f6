------------------------------ MODULE KeyRing -------------------------------
(***************************************************************************)
(* auth: keys, sets of keys and the tokens signed and verified with them.  *)
(*                                                                         *)
(* Key material is a pair's name, its type and a half; a file holds one    *)
(* half in some format.  The JOSE library is external: a signer wants an   *)
(* algorithm that fits its private material, and a token verifies with the *)
(* public half of the pair that signed it and no other.                    *)
(***************************************************************************)
EXTENDS Naturals, Sequences, SequencesExt

CONSTANT Pairs   \* the names of the pairs there are

VARIABLE trial   \* a private and a public key file

\* Material of a pair.  Bytes have one half, the secret one.
Material(pair, type, half) == [pair |-> pair, type |-> type, half |-> half]
Ecdsa == {"P-224", "P-256", "P-384", "P-521"}
NoAlgorithm == ""
Error == [error |-> TRUE]
Panic == [panic |-> TRUE]

\* Types of keys that Go parses and that JOSE has no algorithm for.
Unknown == {"P-224", "X25519"}

\* validAlgorithms, what VerifyToken agrees to parse.
validAlgorithms ==
  {"RS256", "RS384", "RS512", "ES256", "ES384", "ES512", "PS256", "PS384", "PS512",
   "EdDSA", "HS256"}

\* Mutant: one algorithm for every curve.
getKeyAlgoOneCurve(m) ==
  CASE m.type = "RSA"     -> "RS256"
    [] m.type \in Ecdsa   -> "ES256"
    [] m.type = "Ed25519" -> "EdDSA"
    [] OTHER              -> "HS256"

\* getKeyAlgo.  The curve counts for a private key only, and the smallest and
\* the largest one (224 and 521 bits) are none of the sizes the code knows: it
\* panics.  Any other key (X25519) is taken for a symmetric one.
getKeyAlgo(m) ==
  CASE m.type = "RSA"     -> "RS256"
    [] m.type \in Ecdsa   -> IF m.half = "public" \/ m.type = "P-256" THEN "ES256"
                             ELSE IF m.type = "P-384" THEN "ES384" ELSE "panic"
    [] m.type = "Ed25519" -> "EdDSA"
    [] OTHER              -> "HS256"

\* certAlgo: from the algorithm the certificate was signed with, if known.
certAlgo(signature) ==
  IF signature \in validAlgorithms \ {"HS256"} THEN signature ELSE NoAlgorithm

Key(m, algo) == [material |-> m, algo |-> algo]

\* A file: its format, the material in it, and the algorithm it names (of a
\* JWK its own, of a certificate the issuer's).
File(format, m, algo) == [format |-> format, material |-> m, algo |-> algo]

\* What the parsers of each format take.
Parses(file) ==
  LET m == file.material IN
  CASE file.format = "PKCS1" -> m.half = "private" /\ m.type = "RSA"
    [] file.format = "PKCS8" -> m.half = "private" /\ m.type # "bytes"
    [] file.format = "SEC1"  -> m.half = "private" /\ m.type \in Ecdsa
    [] file.format = "PKIX"  -> m.half = "public"
    [] file.format = "X509"  -> m.half = "public"
    [] file.format = "JWK"   -> m.type \notin Unknown

\* LoadPublicKey: PKIX, then a certificate, then a public JWK.
LoadPublicKey(file) ==
  IF ~Parses(file) \/ file.material.half # "public" THEN Error
  ELSE CASE file.format = "PKIX" -> Key(file.material, getKeyAlgo(file.material))
         [] file.format = "X509" -> IF certAlgo(file.algo) = NoAlgorithm THEN Error
                                    ELSE Key(file.material, certAlgo(file.algo))
         [] file.format = "JWK"  -> Key(file.material, file.algo)

\* LoadPrivateKey: PKCS1, PKCS8, an EC key, then a private JWK.
LoadPrivateKey(file) ==
  IF ~Parses(file) \/ file.material.half # "private" THEN Error
  ELSE IF file.format = "JWK" THEN Key(file.material, file.algo)
  ELSE IF getKeyAlgo(file.material) = "panic" THEN Panic
  ELSE Key(file.material, getKeyAlgo(file.material))

\* SymmetricKey of a payload that is long enough.
SymmetricKey(payload) == Key(Material(payload, "bytes", "private"), "HS256")

-----------------------------------------------------------------------------
\* The algorithms JOSE signs with, by the type of the material.
Fits(m) ==
  CASE m.type = "RSA"     -> {"RS256", "RS384", "RS512", "PS256", "PS384", "PS512"}
    [] m.type = "P-256"   -> {"ES256"}
    [] m.type = "P-384"   -> {"ES384"}
    [] m.type = "P-521"   -> {"ES512"}
    [] m.type = "Ed25519" -> {"EdDSA"}
    [] m.type = "bytes"   -> {"HS256", "HS384", "HS512"}
    [] m.type \in Unknown -> {}

\* SignToken.
SignToken(key, claims, expiry) ==
  IF key.material.half = "private" /\ key.algo \in Fits(key.material)
  THEN [algo |-> key.algo, pair |-> key.material.pair, claims |-> claims, expiry |-> expiry]
  ELSE Error

\* Mutant: an expired token is as good as any.
VerifyTokenNoExpiry(key, token, at) ==
  /\ token.algo \in validAlgorithms
  /\ key.material.pair = token.pair
  /\ token.algo \in Fits(key.material)
  /\ key.material.half = "public" \/ key.material.type = "bytes"

\* VerifyToken at a time.  The algorithm of the key is not looked at.
VerifyToken(key, token, at) ==
  /\ token.algo \in validAlgorithms
  /\ key.material.pair = token.pair
  /\ token.algo \in Fits(key.material)
  /\ key.material.half = "public" \/ key.material.type = "bytes"
  /\ at <= token.expiry

-----------------------------------------------------------------------------
(* Keys: what a service signs with and the keys it verifies with.          *)

StaticSymmetricKeys(key) == [sign |-> key, verify |-> <<key>>]
StaticAsymmetricKeys(priv, pub) == [sign |-> priv, verify |-> pub]

\* jwksKeys: the first private key signs, all of them verify.
JwksKeys(keys) ==
  LET private == SelectSeq(keys, LAMBDA k : k.material.half = "private")
  IN  [sign |-> IF private = <<>> THEN Error ELSE private[1], verify |-> keys]

\* CombineKeys: the first of them signs, all of them verify.
CombineKeys(keys) ==
  [sign |-> keys[1].sign,
   verify |-> FlattenSeq([i \in DOMAIN keys |-> keys[i].verify])]

\* The loop of the middleware and of the interceptors over the keys.
Verifies(keys, token, at) ==
  \E i \in DOMAIN keys.verify : VerifyToken(keys.verify[i], token, at)

-----------------------------------------------------------------------------
\* The key files: of the pairs, of every type and in every format.
Types == {"RSA", "P-256", "P-384", "P-521", "Ed25519"} \cup Unknown

\* A JWK names an algorithm of its type, one of another (HS256 stands for
\* them) or none, a certificate that of its issuer; the other formats name none.
Named(format, m) ==
  CASE format = "X509" -> validAlgorithms \ {"HS256"}
    [] format = "JWK"  -> Fits(m) \cup {"HS256", NoAlgorithm}
    [] OTHER           -> {NoAlgorithm}
FilesOf(formats, m) ==
  UNION {{File(f, m, algo) : algo \in Named(f, m)} : f \in formats}
PrivateFiles ==
  UNION {FilesOf({"PKCS1", "PKCS8", "SEC1", "JWK"}, Material(p, type, "private"))
         : p \in Pairs, type \in Types}
PublicFiles ==
  UNION {FilesOf({"PKIX", "X509", "JWK"}, Material(p, type, "public"))
         : p \in Pairs, type \in Types}
Trials == [private : PrivateFiles, public : PublicFiles]

\* The files whose curve makes the loader panic.
Panics(private) ==
  private.format # "JWK" /\ private.material.type \in {"P-224", "P-521"}

\* The files whose key loads and signs nothing: JOSE does not know its type,
\* or the JWK names no algorithm or one of another type of key.
SignsNothing(private) ==
  \/ private.material.type \in Unknown
  \/ private.format = "JWK" /\ private.algo \notin Fits(private.material)

\* A private key file that parses makes the loader panic or loads, and then
\* signs nothing or tokens that the public key of the pair verifies and no
\* other, whatever formats the two were loaded from and whichever algorithm
\* the loaders inferred; a service that combines that key with another accepts
\* the tokens of both.  Which files panic and which sign nothing is the
\* loaders' choice of an algorithm against what JOSE takes.
PairsVerify ==
  Parses(trial.private) /\ Parses(trial.public) =>
    LET private == LoadPrivateKey(trial.private)
        public == LoadPublicKey(trial.public)
        token == SignToken(private, "u1", 1)
        other == SymmetricKey("shared")
        ring == CombineKeys(<<StaticAsymmetricKeys(private, <<public>>),
                              StaticSymmetricKeys(other)>>)
        pair == /\ trial.public.material.pair = trial.private.material.pair
                /\ trial.public.material.type = trial.private.material.type
    IN  /\ private # Error /\ public # Error
        /\ private = Panic <=> Panics(trial.private)
        /\ private # Panic =>
             /\ token = Error <=> SignsNothing(trial.private)
             /\ token # Error => /\ VerifyToken(public, token, 1) <=> pair
                                 /\ Verifies(ring, token, 1) <=> pair
             /\ Verifies(ring, SignToken(other, "u1", 1), 1)
             /\ ring.sign = private
=============================================================================
