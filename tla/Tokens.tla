------------------------------- MODULE Tokens -------------------------------
(***************************************************************************)
(* Bearer tokens: who may sign them, how they are verified, and the ones   *)
(* the development sign-in mints.  A signature is the name of the key that *)
(* made it, and reads as one; a claim that is only compared with one value *)
(* is a boolean.                                                           *)
(***************************************************************************)
EXTENDS Integers

CONSTANTS Leeway    \* of the temporal claims, in ticks

NoClaim == -1

\* parts: three non-empty dot-separated segments; ascii: the payload has no
\* character outside ASCII; iss, aud: are the configured ones.
Token == [parts : BOOLEAN, alg : {"HS256", "RS256", "none"}, signer : STRING,
          ascii : BOOLEAN, exp : Nat \cup {NoClaim}, nbf : Nat \cup {NoClaim},
          iss : BOOLEAN, aud : BOOLEAN, sub : BOOLEAN, tenant : STRING, roles : BOOLEAN]

\* build_container: RS256 if the public key is a JSON object with an RSA
\* modulus and exponent, else HS256.  A key in another format is not an error.
LooksLikeJwk(key) == key = "jwk"

\* RS256TokenVerifier, HS256TokenVerifier.
VerifierOf(settings) ==
    IF LooksLikeJwk(settings.publicKey)
    THEN [alg |-> "RS256", key |-> "core"]
    ELSE [alg |-> "HS256", key |-> settings.secret]

\* Mutant of InTime: a token stays good after it has expired.
InTimeForever(token, time) ==
    /\ token.exp # NoClaim
    /\ token.nbf = NoClaim \/ token.nbf <= time + Leeway

\* _check_temporal.
InTime(token, time) ==
    /\ token.exp # NoClaim
    /\ time <= token.exp + Leeway
    /\ token.nbf = NoClaim \/ token.nbf <= time + Leeway

\* verify.  Both verifiers encode what was signed as ASCII, outside any try.
Verify(token, settings, time) ==
    LET verifier == VerifierOf(settings)
        accepted == /\ token.signer = verifier.key
                    /\ InTime(token, time)
                    /\ token.iss /\ token.aud
                    /\ token.sub /\ token.tenant # "" /\ token.roles
    IN  IF ~token.parts \/ token.alg # verifier.alg
        THEN "AuthenticationError"
        ELSE IF ~token.ascii
        THEN "unexpected"
        ELSE IF accepted THEN "none" ELSE "AuthenticationError"

\* mint_hs256_token, whatever the verifier is.
Mint(settings, tenant, ttl, time) ==
    [parts |-> TRUE, alg |-> "HS256", signer |-> settings.secret, ascii |-> TRUE,
     exp |-> time + ttl, nbf |-> time, iss |-> TRUE, aud |-> TRUE, sub |-> TRUE,
     tenant |-> tenant, roles |-> TRUE]

\* build_app mounts the development sign-in.
DevLogin(settings) == settings.devLogin /\ ~settings.production
=============================================================================
