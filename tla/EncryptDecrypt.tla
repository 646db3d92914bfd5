--------------------------- MODULE EncryptDecrypt ---------------------------
(***************************************************************************)
(* secureFile and retrieveFile: a file is encrypted in place, and read     *)
(* again, in chunks.  The plaintext is cut every 100 bytes, because RSA    *)
(* takes no more than 214 of them, and the ciphertext every 256 bytes,     *)
(* which is what RSA gives for each.                                       *)
(*                                                                         *)
(* RSA itself is OpenSSL's and ideal here: 256 bytes that belong together  *)
(* decrypt to what they were made from, with the private key of the pair,  *)
(* and everything else is refused.                                         *)
(***************************************************************************)
EXTENDS Integers, Sequences

CONSTANTS
    Key,    \* the key pairs
    Byte,   \* the bytes of a plaintext
    File    \* the contents written

ASSUME FileAssumption == File \subseteq Seq(Byte)

VARIABLES
    at,         \* what is being done
    written,    \* the content the file was last written with
    public,     \* the key pair it is encrypted for
    private,    \* the key pair it is read with
    file,       \* what is in the file
    plaintext,
    ciphertext,
    i           \* the loop counter of both loops

vars == <<at, written, public, private, file, plaintext, ciphertext, i>>

-----------------------------------------------------------------------------
(* Chunks *)

\* Mutant: as much as RSA gives is thought to be what it takes.
CipherSizedChunk == 256

PlainChunk == 100

\* Mutant: the size of the key in 2000 bits.
CipherChunkRounded == 250

CipherChunk == 256

\* What OAEP leaves of a key of 2048 bits.
RSALimit == 214

Chunk(s, start, size) ==
    IF Len(s) - start < size THEN SubSeq(s, start + 1, Len(s))
                             ELSE SubSeq(s, start + 1, start + size)

encryptString(key, chunk) == [b \in 1 .. 256 |-> <<key, chunk, b>>]

\* A chunk of ciphertext that decrypts, and what it decrypts to.
Decrypts(key, chunk) ==
    Len(chunk) > 0 /\ chunk = encryptString(key, chunk[1][2])

decryptString(chunk) == chunk[1][2]

-----------------------------------------------------------------------------
Write(content, key) ==
    /\ at = "idle"
    /\ at' = "read"
    /\ written' = content /\ file' = content
    /\ public' = key
    /\ UNCHANGED <<private, plaintext, ciphertext, i>>

(* secureFile *)

ReadPlaintext ==
    /\ at = "read"
    /\ at' = "encrypt"
    /\ plaintext' = file /\ ciphertext' = <<>> /\ i' = 0
    /\ UNCHANGED <<written, public, private, file>>

\* Mutant: a last chunk that is not full is gone round for.
EncryptFullChunk ==
    /\ at = "encrypt"
    /\ i < Len(plaintext)
    /\ IF i + PlainChunk <= Len(plaintext)
       THEN /\ i' = i + PlainChunk
            /\ ciphertext' = ciphertext \o
                   encryptString(public, Chunk(plaintext, i, PlainChunk))
       ELSE UNCHANGED <<i, ciphertext>>
    /\ UNCHANGED <<at, written, public, private, file, plaintext>>

EncryptChunk ==
    /\ at = "encrypt"
    /\ i < Len(plaintext)
    /\ ciphertext' = ciphertext
                     \o encryptString(public, Chunk(plaintext, i, PlainChunk))
    /\ i' = i + PlainChunk
    /\ UNCHANGED <<at, written, public, private, file, plaintext>>

Overwrite ==
    /\ at = "encrypt"
    /\ i >= Len(plaintext)
    /\ file' = ciphertext
    /\ at' = "idle"
    /\ UNCHANGED <<written, public, private, plaintext, ciphertext, i>>

(* retrieveFile *)

ReadCiphertext(key) ==
    /\ at = "idle"
    /\ at' = "decrypt"
    /\ private' = key
    /\ ciphertext' = file /\ plaintext' = <<>> /\ i' = 0
    /\ UNCHANGED <<written, public, file>>

\* Mutant: a chunk that does not decrypt is passed over.
DecryptChunkQuietly ==
    LET chunk == Chunk(ciphertext, i, CipherChunk)
    IN  /\ at = "decrypt"
        /\ i < Len(ciphertext)
        /\ plaintext' = IF Decrypts(private, chunk)
                        THEN plaintext \o decryptString(chunk) ELSE plaintext
        /\ i' = i + CipherChunk
        /\ UNCHANGED <<at, written, public, private, file, ciphertext>>

DecryptChunk ==
    LET chunk == Chunk(ciphertext, i, CipherChunk)
    IN  /\ at = "decrypt"
        /\ i < Len(ciphertext)
        /\ Decrypts(private, chunk)
        /\ plaintext' = plaintext \o decryptString(chunk)
        /\ i' = i + CipherChunk
        /\ UNCHANGED <<at, written, public, private, file, ciphertext>>

Throw ==
    /\ at = "decrypt"
    /\ i < Len(ciphertext)
    /\ ~Decrypts(private, Chunk(ciphertext, i, CipherChunk))
    /\ at' = "thrown"
    /\ UNCHANGED <<written, public, private, file, plaintext, ciphertext, i>>

Return ==
    /\ at = "decrypt"
    /\ i >= Len(ciphertext)
    /\ at' = "returned"
    /\ UNCHANGED <<written, public, private, file, plaintext, ciphertext, i>>

\* The caller takes the result, or the exception.
Resume ==
    /\ at \in {"returned", "thrown"}
    /\ at' = "idle"
    /\ UNCHANGED <<written, public, private, file, plaintext, ciphertext, i>>

Init ==
    /\ at = "idle"
    /\ written = <<>> /\ file = <<>>
    /\ public \in Key /\ private \in Key
    /\ plaintext = <<>> /\ ciphertext = <<>> /\ i = 0

Loops ==
    \/ ReadPlaintext
    \/ EncryptChunk
    \/ Overwrite
    \/ DecryptChunk
    \/ Throw
    \/ Return

Next ==
    \/ \E content \in File, key \in Key : Write(content, key)
    \/ \E key \in Key : ReadCiphertext(key)
    \/ Loops
    \/ Resume

Spec == Init /\ [][Next]_vars

\* A thread that is in a loop goes on with it.
FairSpec == Spec /\ WF_vars(Loops)

-----------------------------------------------------------------------------
(* Properties *)

\* Whatever the length of a content, what is read with the key it was written
\* for is the content; what is read with another key is only the empty one.
RoundTrip ==
    at = "returned" =>
        /\ plaintext = written
        /\ private = public \/ written = <<>>

\* The right key is never refused.
RefusedRightly == at = "thrown" => private # public /\ written # <<>>

\* RSA is never given more than it takes, nor nothing at all, on which
\* encryptString throws.
ChunkFits ==
    at = "encrypt" /\ i < Len(plaintext) =>
        Len(Chunk(plaintext, i, PlainChunk)) \in 1 .. RSALimit

\* Both loops come to their end.
LoopsEnd == at \in {"read", "encrypt", "decrypt"}
                ~> at \in {"idle", "returned", "thrown"}
=============================================================================
