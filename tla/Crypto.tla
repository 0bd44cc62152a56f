------------------------------- MODULE Crypto -------------------------------
(***************************************************************************)
(* CoreLib's Crypto as the server uses it: an object holds a key and an    *)
(* initialisation vector, Encrypt gives a text in hexadecimal digits, and  *)
(* Decrypt recovers only what an object of the same key encrypted.         *)
(***************************************************************************)
CONSTANTS Cryptos,   \* the objects, one for each key
          Texts,     \* the texts that are encrypted
          Cipher     \* AES in CBC mode: for an object and a text, the digits

ASSUME CipherAssumption ==
    /\ DOMAIN Cipher = Cryptos \X Texts
    /\ \A c, d \in Cryptos : \A t, u \in Texts :
          Cipher[<<c, t>>] = Cipher[<<d, u>>] => c = d /\ t = u

Encrypt(crypto, plainText) == <<Cipher[<<crypto, plainText>>]>>

\* FALSE, and nothing useful recovered, when the digits or the padding of the
\* last block are wrong; the exception stays inside.
Decrypt(crypto, cipherText) ==
    LET plainTexts == {t \in Texts : Encrypt(crypto, t) = cipherText}
    IN  IF plainTexts = {}
        THEN [ok |-> FALSE]
        ELSE [ok |-> TRUE, recoveredText |-> CHOOSE t \in plainTexts : TRUE]
=============================================================================
