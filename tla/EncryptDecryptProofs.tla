------------------------ MODULE EncryptDecryptProofs ------------------------
(***************************************************************************)
(* A content of any length survives secureFile and retrieveFile.           *)
(*                                                                         *)
(* The two loops meet in the shape of the ciphertext: after n rounds of    *)
(* the first it is n blocks of 256 bytes, block k being made from the k-th *)
(* chunk of 100 bytes, and 100 * n runs past the content by less than one  *)
(* chunk; after m rounds of the second the first 100 * m bytes of the      *)
(* content are back.                                                       *)
(***************************************************************************)
EXTENDS EncryptDecrypt, SequenceTheorems, TLAPS

-----------------------------------------------------------------------------
(* Arithmetic *)

LEMMA InLastBlock ==
    \A n \in Nat, x \in Nat : 256 * n < x /\ x <= 256 * (n + 1) =>
        (x - 1) \div 256 = n /\ ((x - 1) % 256) + 1 = x - 256 * n
    OBVIOUS

LEMMA InBlock ==
    \A m, n \in Nat, b \in 1 .. 256 : m < n =>
        /\ 256 * m + b \in 1 .. 256 * n
        /\ (256 * m + b - 1) \div 256 = m
        /\ ((256 * m + b - 1) % 256) + 1 = b
    OBVIOUS

LEMMA BlockOf ==
    \A n, x \in Nat : x \in 1 .. 256 * n =>
        (x - 1) \div 256 \in Nat /\ ((x - 1) % 256) + 1 \in 1 .. 256
    OBVIOUS

\* Counting chunks of content and blocks of ciphertext.
LEMMA Rounds ==
    \A m, n, len \in Nat :
        /\ 256 * m < 256 * n => m < n /\ 256 <= 256 * n - 256 * m
        /\ 256 * m >= 256 * n => 100 * m >= 100 * n
        /\ m < n /\ 100 * n < len + 100 => 100 * m < len
        /\ 100 * m < len => 100 * (m + 1) < len + 100
    OBVIOUS

-----------------------------------------------------------------------------
(* Sequences *)

\* f is a sequence of n elements of S.
SeqOf(f, n, S) == f \in Seq(S) /\ Len(f) = n

LEMMA FunctionSeq ==
    ASSUME NEW S, NEW n \in Nat, NEW f \in [1 .. n -> S]
    PROVE  SeqOf(f, n, S)
<1>1. f \in UNION {[1 .. k -> S] : k \in Nat}
    OBVIOUS
<1>2. f \in Seq(S)
    BY <1>1, SeqDef, Zenon
<1>3. DOMAIN f = 1 .. n /\ DOMAIN f = 1 .. Len(f) /\ Len(f) \in Nat
    BY <1>2, LenProperties
<1> QED
    BY <1>2, <1>3 DEF SeqOf

\* c is a, of m elements, with b after it, of n.
Join(c, a, m, b, n) ==
    /\ \A x \in 1 .. m : c[x] = a[x]
    /\ \A x \in 1 .. m + n : x > m => c[x] = b[x - m]

LEMMA Joined ==
    ASSUME NEW S, NEW a, NEW b, NEW c, NEW m \in Nat, NEW n \in Nat,
           SeqOf(a, m, S), SeqOf(b, n, S), SeqOf(c, m + n, S), Join(c, a, m, b, n)
    PROVE  a \o b = c
<1>1. /\ a \o b \in Seq(S)
      /\ Len(a \o b) = m + n
      /\ \A x \in 1 .. m + n :
            (a \o b)[x] = IF x <= m THEN a[x] ELSE b[x - m]
    BY ConcatProperties DEF SeqOf
<1>2. \A x \in 1 .. m + n : (a \o b)[x] = c[x]
    BY <1>1 DEF Join
<1> QED
    BY <1>1, <1>2, SeqEqual DEF SeqOf

\* Two sequences with the same elements are the same.
Alike(a, b, n) == \A x \in 1 .. n : a[x] = b[x]

LEMMA AlikeEqual ==
    ASSUME NEW S, NEW n, NEW a, NEW b, SeqOf(a, n, S), SeqOf(b, n, S), Alike(a, b, n)
    PROVE  a = b
    BY SeqEqual DEF SeqOf, Alike

\* A piece of a sequence.
LEMMA Piece ==
    ASSUME NEW S, NEW a \in Seq(S), NEW m \in Nat, NEW n \in Nat, m + n <= Len(a)
    PROVE  /\ SubSeq(a, m + 1, m + n) \in Seq(S)
           /\ Len(SubSeq(a, m + 1, m + n)) = n
           /\ \A x \in 1 .. n : SubSeq(a, m + 1, m + n)[x] = a[m + x]
<1> DEFINE lo == m + 1
           hi == m + n
<1>1. lo \in Int /\ hi \in Int /\ (IF lo <= hi THEN hi - lo + 1 ELSE 0) = n
      /\ hi - lo + 1 = n
    OBVIOUS
<1>2. \A x \in lo .. hi : a[x] \in S
    BY ElementOfSeq, LenProperties
<1>3. \A x \in 1 .. n : lo + x - 1 = m + x
    OBVIOUS
<1> HIDE DEF lo, hi
<1>4. /\ SubSeq(a, lo, hi) \in Seq(S)
      /\ Len(SubSeq(a, lo, hi)) = IF lo <= hi THEN hi - lo + 1 ELSE 0
      /\ \A x \in 1 .. hi - lo + 1 : SubSeq(a, lo, hi)[x] = a[lo + x - 1]
    BY <1>1, <1>2, SubSeqProperties
<1>5. /\ SubSeq(a, lo, hi) \in Seq(S)
      /\ Len(SubSeq(a, lo, hi)) = n
      /\ \A x \in 1 .. n : SubSeq(a, lo, hi)[x] = a[m + x]
    BY <1>1, <1>3, <1>4
<1> QED
    BY <1>5 DEF lo, hi

\* The pieces up to m, and from there the n that follow.
LEMMA TwoPieces ==
    ASSUME NEW S, NEW a \in Seq(S), NEW m \in Nat, NEW n \in Nat, m + n <= Len(a)
    PROVE  SubSeq(a, 1, m) \o SubSeq(a, m + 1, m + n) = SubSeq(a, 1, m + n)
<1>1. 0 \in Nat /\ m + n \in Nat /\ Len(a) \in Nat
      /\ 0 + m <= Len(a) /\ 0 + (m + n) <= Len(a)
    BY LenProperties
<1>2. /\ SubSeq(a, 0 + 1, 0 + m) \in Seq(S)
      /\ Len(SubSeq(a, 0 + 1, 0 + m)) = m
      /\ \A x \in 1 .. m : SubSeq(a, 0 + 1, 0 + m)[x] = a[0 + x]
    BY <1>1, Piece
<1>3. /\ SubSeq(a, 0 + 1, 0 + (m + n)) \in Seq(S)
      /\ Len(SubSeq(a, 0 + 1, 0 + (m + n))) = m + n
      /\ \A x \in 1 .. m + n : SubSeq(a, 0 + 1, 0 + (m + n))[x] = a[0 + x]
    BY <1>1, Piece
<1>4. 0 + 1 = 1 /\ 0 + m = m /\ 0 + (m + n) = m + n /\ \A x \in Int : 0 + x = x
    OBVIOUS
<1> DEFINE first == SubSeq(a, 1, m)
           second == SubSeq(a, m + 1, m + n)
           both == SubSeq(a, 1, m + n)
<1>5. first \in Seq(S) /\ Len(first) = m /\ \A x \in 1 .. m : first[x] = a[x]
    BY <1>2, <1>4
<1>6. both \in Seq(S) /\ Len(both) = m + n /\ \A x \in 1 .. m + n : both[x] = a[x]
    BY <1>3, <1>4
<1>7. /\ second \in Seq(S) /\ Len(second) = n
      /\ \A x \in 1 .. n : second[x] = a[m + x]
    BY Piece
<1> HIDE DEF first, second, both
<1>8. \A x \in 1 .. m : both[x] = first[x]
    BY <1>5, <1>6
<1>9. \A x \in 1 .. m + n : x > m => both[x] = second[x - m]
  <2> TAKE x \in 1 .. m + n
  <2> HAVE x > m
  <2>1. x - m \in 1 .. n /\ m + (x - m) = x
    OBVIOUS
  <2> QED
    BY <1>6, <1>7, <2>1
<1>10. SeqOf(first, m, S) /\ SeqOf(second, n, S) /\ SeqOf(both, m + n, S)
    BY <1>5, <1>6, <1>7 DEF SeqOf
<1>11. Join(both, first, m, second, n)
    BY <1>8, <1>9 DEF Join
<1>12. first \o second = both
    BY <1>10, <1>11, Joined
<1> QED
    BY <1>12 DEF first, second, both

-----------------------------------------------------------------------------
(* The ciphertext after n rounds *)

\* A byte of the ciphertext of a content.
CipherByte(key, s) ==
    {<<key, Chunk(s, 100 * k, 100), b>> : k \in Nat, b \in 1 .. 256}

Encrypted(key, s, n) ==
    [x \in 1 .. 256 * n |->
        <<key, Chunk(s, 100 * ((x - 1) \div 256), 100), ((x - 1) % 256) + 1>>]

LEMMA BlockType ==
    ASSUME NEW key, NEW s, NEW k \in Nat
    PROVE  SeqOf(encryptString(key, Chunk(s, 100 * k, 100)), 256, CipherByte(key, s))
<1> DEFINE T == CipherByte(key, s)
           chunk == Chunk(s, 100 * k, 100)
<1>1. \A b \in 1 .. 256 : <<key, chunk, b>> \in T
    BY DEF CipherByte
<1> HIDE DEF T, chunk
<1>2. encryptString(key, chunk) \in [1 .. 256 -> T]
    BY <1>1 DEF encryptString
<1>3. 256 \in Nat
    OBVIOUS
<1> DEFINE block == encryptString(key, chunk)
           size == 256
<1>4. block \in [1 .. size -> T] /\ size \in Nat
    BY <1>2, <1>3
<1> HIDE DEF block, size
<1>5. SeqOf(block, size, T)
    BY <1>4, FunctionSeq
<1> QED
    BY <1>5 DEF T, chunk, block, size

LEMMA EncryptedType ==
    ASSUME NEW key, NEW s, NEW n \in Nat
    PROVE  SeqOf(Encrypted(key, s, n), 256 * n, CipherByte(key, s))
<1> DEFINE e == Encrypted(key, s, n)
           T == CipherByte(key, s)
           size == 256 * n
<1>1. size \in Nat
    OBVIOUS
<1>2. \A x \in 1 .. size : (x - 1) \div 256 \in Nat /\ ((x - 1) % 256) + 1 \in 1 .. 256
    BY BlockOf
<1>3. e \in [1 .. size -> T]
    BY <1>2 DEF Encrypted, CipherByte
<1> HIDE DEF e, T, size
<1>4. SeqOf(e, size, T)
    BY <1>1, <1>3, FunctionSeq
<1> QED
    BY <1>4 DEF e, T, size

\* One round of secureFile.
LEMMA EncryptedNext ==
    ASSUME NEW key, NEW s, NEW n \in Nat
    PROVE  Encrypted(key, s, n) \o encryptString(key, Chunk(s, 100 * n, 100))
               = Encrypted(key, s, n + 1)
<1> DEFINE e == Encrypted(key, s, n)
           block == encryptString(key, Chunk(s, 100 * n, 100))
           f == Encrypted(key, s, n + 1)
           T == CipherByte(key, s)
           size == 256 * n
           more == 256
<1>1. n + 1 \in Nat /\ size \in Nat /\ more \in Nat /\ 256 * (n + 1) = size + more
    OBVIOUS
<1>2. SeqOf(e, size, T)
    BY EncryptedType
<1>3. SeqOf(block, more, T)
    BY BlockType
<1>4. SeqOf(f, size + more, T)
  <2>1. SeqOf(f, 256 * (n + 1), T)
    BY <1>1, EncryptedType
  <2> HIDE DEF f, T, size
  <2> QED
    BY <1>1, <2>1
<1>5. \A x \in 1 .. size : f[x] = e[x]
    BY DEF Encrypted
<1>6. ASSUME NEW x \in 1 .. size + more, x > size
      PROVE  f[x] = block[x - size]
  <2>1. (x - 1) \div 256 = n /\ ((x - 1) % 256) + 1 = x - size
        /\ x - size \in 1 .. 256 /\ x \in 1 .. 256 * (n + 1)
    BY <1>6, InLastBlock
  <2>2. block[x - size] = <<key, Chunk(s, 100 * n, 100), x - size>>
    BY <2>1 DEF encryptString
  <2>3. f[x] = <<key, Chunk(s, 100 * ((x - 1) \div 256), 100), ((x - 1) % 256) + 1>>
    BY <2>1 DEF Encrypted
  <2> HIDE DEF f, block, size
  <2> QED
    BY <2>1, <2>2, <2>3
<1> HIDE DEF e, block, f, T, size, more
<1>7. Join(f, e, size, block, more)
    BY <1>5, <1>6 DEF Join
<1>8. e \o block = f
    BY <1>1, <1>2, <1>3, <1>4, <1>7, Joined
<1> QED
    BY <1>8 DEF e, block, f

\* What a round of retrieveFile cuts out of the ciphertext.
LEMMA BlockOfEncrypted ==
    ASSUME NEW key, NEW s, NEW n \in Nat, NEW m \in Nat, m < n
    PROVE  Chunk(Encrypted(key, s, n), 256 * m, 256)
               = encryptString(key, Chunk(s, 100 * m, 100))
<1> DEFINE e == Encrypted(key, s, n)
           block == encryptString(key, Chunk(s, 100 * m, 100))
           T == CipherByte(key, s)
           from == 256 * m
           size == 256
<1>1. SeqOf(e, 256 * n, T)
    BY EncryptedType
<1>2. SeqOf(block, size, T)
    BY BlockType
<1>3. from \in Nat /\ size \in Nat /\ from + size <= 256 * n
      /\ ~(256 * n - from < size)
    OBVIOUS
<1>4. ASSUME NEW b \in 1 .. size
      PROVE  block[b] = e[from + b]
  <2>1. /\ 256 * m + b \in 1 .. 256 * n
        /\ (256 * m + b - 1) \div 256 = m
        /\ ((256 * m + b - 1) % 256) + 1 = b
    BY InBlock
  <2>2. e[256 * m + b] = <<key, Chunk(s, 100 * m, 100), b>>
    BY <2>1 DEF Encrypted
  <2>3. block[b] = <<key, Chunk(s, 100 * m, 100), b>>
    BY DEF encryptString
  <2> QED
    BY <2>2, <2>3
<1> HIDE DEF e, block, T, from, size
<1>5. SubSeq(e, from + 1, from + size) = block
  <2> DEFINE cut == SubSeq(e, from + 1, from + size)
  <2>1. e \in Seq(T) /\ from + size <= Len(e)
    BY <1>1, <1>3 DEF SeqOf
  <2>2. SeqOf(cut, size, T) /\ \A b \in 1 .. size : cut[b] = e[from + b]
    BY <1>3, <2>1, Piece DEF SeqOf
  <2> HIDE DEF cut
  <2>3. Alike(cut, block, size)
    BY <1>4, <2>2 DEF Alike
  <2>4. cut = block
    BY <1>2, <2>2, <2>3, AlikeEqual
  <2> QED
    BY <2>4 DEF cut
<1>6. Chunk(e, from, size) = block
    BY <1>1, <1>3, <1>5 DEF Chunk, SeqOf
<1> QED
    BY <1>6 DEF e, block, from, size

\* A round of either loop goes through one more chunk of the content.
LEMMA PrefixNext ==
    ASSUME NEW S, NEW s \in Seq(S), NEW m \in Nat, 100 * m < Len(s)
    PROVE  /\ Chunk(s, 0, 100 * m) \o Chunk(s, 100 * m, 100)
                  = Chunk(s, 0, 100 * (m + 1))
           /\ Len(Chunk(s, 100 * m, 100)) \in 1 .. 100
<1> DEFINE len == Len(s)
           from == 100 * m
           n == IF len - from < 100 THEN len - from ELSE 100
<1>1. len \in Nat
    BY LenProperties
<1>2. from \in Nat /\ 100 * (m + 1) = from + 100 /\ from < len
    OBVIOUS
<1> HIDE DEF len, from
<1>3. n \in 1 .. 100 /\ n \in Nat /\ from + n <= len
    BY <1>1, <1>2
<1>4. /\ Chunk(s, 0, from) = SubSeq(s, 1, from)
      /\ Chunk(s, from, 100) = SubSeq(s, from + 1, from + n)
      /\ Chunk(s, 0, from + 100) = SubSeq(s, 1, from + n)
  <2>1. ~(len - 0 < from) /\ 0 + 1 = 1 /\ 0 + from = from
    BY <1>1, <1>2
  <2>2. CASE len - from < 100
    <3>1. n = len - from /\ from + n = len /\ len - 0 < from + 100
      BY <1>1, <1>2, <2>2
    <3> QED
      BY <2>1, <2>2, <3>1 DEF Chunk, len
  <2>3. CASE ~(len - from < 100)
    <3>1. n = 100 /\ ~(len - 0 < from + 100) /\ 0 + (from + 100) = from + 100
      BY <1>1, <1>2, <2>3
    <3> QED
      BY <2>1, <2>3, <3>1 DEF Chunk, len
  <2> QED
    BY <2>2, <2>3
<1> HIDE DEF n
<1>5. from + n <= Len(s)
    BY <1>3 DEF len
<1>6. SubSeq(s, 1, from) \o SubSeq(s, from + 1, from + n) = SubSeq(s, 1, from + n)
    BY <1>2, <1>3, <1>5, TwoPieces
<1>7. Len(SubSeq(s, from + 1, from + n)) = n
    BY <1>2, <1>3, <1>5, Piece
<1> QED
    BY <1>2, <1>3, <1>4, <1>6, <1>7 DEF from

\* Cut behind its end, a content is all there.
LEMMA WholePrefix ==
    ASSUME NEW S, NEW s \in Seq(S), NEW size \in Nat, Len(s) <= size
    PROVE  Chunk(s, 0, size) = s
<1> DEFINE len == Len(s)
<1>1. len \in Nat /\ len <= size
    BY LenProperties
<1>2. SubSeq(s, 1, len) = s
  <2>1. 0 \in Nat /\ 0 + len <= len /\ 0 + 1 = 1 /\ 0 + len = len
        /\ \A x \in 1 .. len : 0 + x = x
    BY <1>1
  <2>2. /\ SubSeq(s, 0 + 1, 0 + len) \in Seq(S)
        /\ Len(SubSeq(s, 0 + 1, 0 + len)) = len
        /\ \A x \in 1 .. len : SubSeq(s, 0 + 1, 0 + len)[x] = s[0 + x]
    BY <1>1, <2>1, Piece
  <2> DEFINE cut == SubSeq(s, 1, len)
  <2>3. SeqOf(cut, len, S) /\ SeqOf(s, len, S) /\ Alike(cut, s, len)
    BY <2>1, <2>2 DEF SeqOf, Alike
  <2> HIDE DEF cut, len
  <2>4. cut = s
    BY <2>3, AlikeEqual
  <2> QED
    BY <2>4 DEF cut
<1>3. 0 + 1 = 1 /\ 0 + size = size /\ (len - 0 < size \/ size = len)
    BY <1>1
<1> QED
    BY <1>2, <1>3 DEF Chunk

\* A block decrypts with the private key of its pair alone, to its chunk.
LEMMA DecryptsOwn ==
    ASSUME NEW key, NEW own, NEW s, NEW k \in Nat
    PROVE  LET block == encryptString(key, Chunk(s, 100 * k, 100))
           IN  /\ Decrypts(own, block) <=> own = key
               /\ decryptString(block) = Chunk(s, 100 * k, 100)
<1> DEFINE chunk == Chunk(s, 100 * k, 100)
           block == encryptString(key, chunk)
<1>1. Len(block) = 256
    BY BlockType DEF SeqOf
<1>2. Len(block) > 0
    BY <1>1
<1> HIDE DEF chunk
<1>3. block[1] = <<key, chunk, 1>> /\ block[1][1] = key /\ block[1][2] = chunk
    BY DEF encryptString
<1>4. encryptString(own, chunk)[1][1] = own
    BY DEF encryptString
<1>5. Decrypts(own, block) <=> block = encryptString(own, chunk)
    BY <1>2, <1>3 DEF Decrypts
<1>6. Decrypts(own, block) <=> own = key
  <2> HIDE DEF block
  <2>1. block = encryptString(own, chunk) => own = key
    BY <1>3, <1>4
  <2>2. own = key => block = encryptString(own, chunk)
    BY DEF block
  <2> QED
    BY <1>5, <2>1, <2>2
<1>7. decryptString(block) = chunk
    BY <1>3 DEF decryptString
<1> QED
    BY <1>6, <1>7 DEF chunk

\* The ciphertext of nothing.
LEMMA EncryptedNothing ==
    ASSUME NEW key, NEW s
    PROVE  Encrypted(key, s, 0) = <<>>
<1> DEFINE e == Encrypted(key, s, 0)
           T == CipherByte(key, s)
<1>1. SeqOf(e, 256 * 0, T) /\ 256 * 0 = 0
    BY EncryptedType
<1> HIDE DEF e, T
<1>2. e \in Seq(T) /\ Len(e) = 0
    BY <1>1 DEF SeqOf
<1> QED
    BY <1>2, EmptySeq DEF e

-----------------------------------------------------------------------------
(* The inductive invariant *)

\* What secureFile leaves in the file, and where its loop stands before.
Sealed(c, key, s) ==
    \E n \in Nat : /\ c = Encrypted(key, s, n)
                   /\ Len(s) <= 100 * n /\ 100 * n < Len(s) + 100

Encrypting(done, c, key, s) ==
    \E n \in Nat : /\ done = 100 * n
                   /\ c = Encrypted(key, s, n)
                   /\ 100 * n < Len(s) + 100

\* Where the loop of retrieveFile stands: once it is through a chunk, the key
\* is the right one.
Decrypting(done, p, own, key, s) ==
    \E m \in Nat : /\ done = 256 * m
                   /\ p = Chunk(s, 0, 100 * m)
                   /\ m > 0 => own = key

Inv ==
    /\ at \in {"idle", "read", "encrypt", "decrypt", "returned", "thrown"}
    /\ written \in Seq(Byte)
    /\ at = "read" => file = written
    /\ at = "encrypt" => plaintext = written /\ Encrypting(i, ciphertext, public, written)
    /\ at \notin {"read", "encrypt"} => Sealed(file, public, written)
    /\ at = "decrypt" => ciphertext = file /\ Decrypting(i, plaintext, private, public, written)
    /\ RoundTrip
    /\ RefusedRightly

LEMMA SealedNothing ==
    ASSUME NEW key
    PROVE  Sealed(<<>>, key, <<>>)
<1>1. Len(<<>>) = 0
    BY EmptySeq
<1>2. 0 \in Nat /\ Len(<<>>) <= 100 * 0 /\ 100 * 0 < Len(<<>>) + 100
    BY <1>1
<1> QED
    BY <1>2, EncryptedNothing DEF Sealed

\* The first round of secureFile's loop, and every other.
LEMMA EncryptingStart ==
    ASSUME NEW key, NEW s \in Seq(Byte)
    PROVE  Encrypting(0, <<>>, key, s)
<1>1. Len(s) \in Nat
    BY LenProperties
<1>2. 0 \in Nat /\ 0 = 100 * 0 /\ 100 * 0 < Len(s) + 100
    BY <1>1
<1> QED
    BY <1>2, EncryptedNothing DEF Encrypting

LEMMA EncryptingStep ==
    ASSUME NEW key, NEW s \in Seq(Byte), NEW done, NEW c,
           Encrypting(done, c, key, s), done < Len(s)
    PROVE  Encrypting(done + 100, c \o encryptString(key, Chunk(s, done, 100)), key, s)
<1>1. PICK n \in Nat : done = 100 * n /\ c = Encrypted(key, s, n)
    BY DEF Encrypting
<1> DEFINE len == Len(s)
<1>2. len \in Nat /\ 100 * n < len
    BY <1>1, LenProperties
<1> HIDE DEF len
<1>3. n + 1 \in Nat /\ done + 100 = 100 * (n + 1) /\ 100 * (n + 1) < len + 100
    BY <1>1, <1>2
<1>4. c \o encryptString(key, Chunk(s, done, 100)) = Encrypted(key, s, n + 1)
    BY <1>1, EncryptedNext
<1> QED
    BY <1>3, <1>4 DEF Encrypting, len

LEMMA EncryptingEnd ==
    ASSUME NEW key, NEW s, NEW done, NEW c,
           Encrypting(done, c, key, s), done >= Len(s)
    PROVE  Sealed(c, key, s)
    BY DEF Encrypting, Sealed

\* The first round of retrieveFile's loop, and every other.
LEMMA DecryptingStart ==
    ASSUME NEW own, NEW key, NEW s \in Seq(Byte)
    PROVE  Decrypting(0, <<>>, own, key, s)
<1>1. Chunk(s, 0, 0) = <<>>
  <2>1. Len(s) \in Nat /\ ~(Len(s) - 0 < 0) /\ 0 + 1 = 1 /\ 0 + 0 = 0
    BY LenProperties
  <2>2. \A x \in 1 .. 0 : s[x] \in Byte
    OBVIOUS
  <2>3. SubSeq(s, 1, 0) \in Seq(Byte) /\ Len(SubSeq(s, 1, 0)) = 0
    BY <2>2, SubSeqProperties
  <2>4. SubSeq(s, 1, 0) = <<>>
    BY <2>3, EmptySeq
  <2> QED
    BY <2>1, <2>4 DEF Chunk
<1>2. 0 \in Nat /\ 0 = 256 * 0 /\ 100 * 0 = 0
    OBVIOUS
<1> QED
    BY <1>1, <1>2 DEF Decrypting

\* What the loop cuts out while it is not at its end.
LEMMA DecryptingChunk ==
    ASSUME NEW own, NEW key, NEW s \in Seq(Byte), NEW done, NEW p, NEW c,
           Decrypting(done, p, own, key, s), Sealed(c, key, s), done < Len(c)
    PROVE  \E m \in Nat :
               /\ done = 256 * m
               /\ p = Chunk(s, 0, 100 * m)
               /\ 100 * m < Len(s)
               /\ Chunk(c, done, 256) = encryptString(key, Chunk(s, 100 * m, 100))
<1>1. PICK m \in Nat : done = 256 * m /\ p = Chunk(s, 0, 100 * m)
    BY DEF Decrypting
<1>2. PICK n \in Nat : c = Encrypted(key, s, n) /\ 100 * n < Len(s) + 100
    BY DEF Sealed
<1>3. Len(c) = 256 * n
    BY <1>2, EncryptedType DEF SeqOf
<1> DEFINE len == Len(s)
<1>4. len \in Nat /\ 100 * n < len + 100 /\ 256 * m < 256 * n
    BY <1>1, <1>2, <1>3, LenProperties
<1> HIDE DEF len
<1>5. m < n /\ 100 * m < len
    BY <1>4
<1>6. Chunk(c, 256 * m, 256) = encryptString(key, Chunk(s, 100 * m, 100))
    BY <1>2, <1>5, BlockOfEncrypted
<1> QED
    BY <1>1, <1>5, <1>6 DEF len

LEMMA DecryptingStep ==
    ASSUME NEW own, NEW key, NEW s \in Seq(Byte), NEW done, NEW p, NEW c,
           Decrypting(done, p, own, key, s), Sealed(c, key, s), done < Len(c),
           Decrypts(own, Chunk(c, done, 256))
    PROVE  Decrypting(done + 256, p \o decryptString(Chunk(c, done, 256)), own, key, s)
<1>1. PICK m \in Nat :
          /\ done = 256 * m
          /\ p = Chunk(s, 0, 100 * m)
          /\ 100 * m < Len(s)
          /\ Chunk(c, done, 256) = encryptString(key, Chunk(s, 100 * m, 100))
    BY DecryptingChunk
<1> DEFINE part == Chunk(s, 100 * m, 100)
           block == Chunk(c, done, 256)
<1>2. own = key /\ decryptString(block) = part
    BY <1>1, DecryptsOwn
<1>3. p \o part = Chunk(s, 0, 100 * (m + 1))
    BY <1>1, PrefixNext
<1> HIDE DEF part, block
<1> DEFINE next == m + 1
<1>4. next \in Nat /\ done + 256 = 256 * next
    BY <1>1
<1> DEFINE q == p \o decryptString(block)
<1>5. q = Chunk(s, 0, 100 * next)
    BY <1>2, <1>3
<1> HIDE DEF q, next
<1>6. Decrypting(done + 256, q, own, key, s)
    BY <1>2, <1>4, <1>5 DEF Decrypting
<1> QED
    BY <1>6 DEF q, block

LEMMA DecryptingRefused ==
    ASSUME NEW own, NEW key, NEW s \in Seq(Byte), NEW done, NEW p, NEW c,
           Decrypting(done, p, own, key, s), Sealed(c, key, s), done < Len(c),
           ~Decrypts(own, Chunk(c, done, 256))
    PROVE  own # key /\ s # <<>>
<1>1. PICK m \in Nat :
          /\ 100 * m < Len(s)
          /\ Chunk(c, done, 256) = encryptString(key, Chunk(s, 100 * m, 100))
    BY DecryptingChunk
<1>2. own # key
    BY <1>1, DecryptsOwn
<1>3. Len(s) # 0
    BY <1>1
<1>4. Len(<<>>) = 0
    BY EmptySeq
<1> QED
    BY <1>2, <1>3, <1>4

LEMMA DecryptingEnd ==
    ASSUME NEW own, NEW key, NEW s \in Seq(Byte), NEW done, NEW p, NEW c,
           Decrypting(done, p, own, key, s), Sealed(c, key, s), done >= Len(c)
    PROVE  p = s /\ (own = key \/ s = <<>>)
<1>1. PICK m \in Nat :
          /\ done = 256 * m
          /\ p = Chunk(s, 0, 100 * m)
          /\ m > 0 => own = key
    BY DEF Decrypting
<1>2. PICK n \in Nat : c = Encrypted(key, s, n) /\ Len(s) <= 100 * n
    BY DEF Sealed
<1>3. Len(c) = 256 * n
    BY <1>2, EncryptedType DEF SeqOf
<1> DEFINE len == Len(s)
           size == 100 * m
<1>4. /\ len \in Nat
      /\ len <= 100 * n
      /\ 256 * m >= 256 * n
  <2>1. len \in Nat
    BY LenProperties
  <2>2. 256 * m >= 256 * n
    BY <1>1, <1>3
  <2> QED
    BY <1>2, <2>1, <2>2
<1> HIDE DEF len
<1>5. size \in Nat /\ len <= size /\ (m > 0 \/ len = 0)
    BY <1>4
<1>6. p = s
  <2>1. p = Chunk(s, 0, size)
    BY <1>1
  <2> HIDE DEF size
  <2> QED
    BY <1>5, <2>1, WholePrefix DEF len
<1>7. len = 0 => s = <<>>
    BY EmptySeq DEF len
<1> QED
    BY <1>1, <1>5, <1>6, <1>7

-----------------------------------------------------------------------------
(* The steps *)

LEMMA InitInv == Init => Inv
<1> SUFFICES ASSUME Init
             PROVE  Inv
    OBVIOUS
<1>1. <<>> \in Seq(Byte)
    BY EmptySeq
<1> QED
    BY <1>1, SealedNothing DEF Init, Inv, RoundTrip, RefusedRightly

LEMMA WriteInv ==
    ASSUME Inv, NEW content \in File, NEW key \in Key, Write(content, key)
    PROVE  Inv'
<1>1. content \in Seq(Byte)
    BY FileAssumption
<1> QED
    BY <1>1 DEF Inv, Write, RoundTrip, RefusedRightly

LEMMA ReadPlaintextInv ==
    ASSUME Inv, ReadPlaintext
    PROVE  Inv'
<1>1. Encrypting(0, <<>>, public, written)
    BY EncryptingStart DEF Inv
<1> QED
    BY <1>1 DEF Inv, ReadPlaintext, RoundTrip, RefusedRightly

LEMMA EncryptChunkInv ==
    ASSUME Inv, EncryptChunk
    PROVE  Inv'
<1>1. /\ at = "encrypt" /\ plaintext = written /\ written \in Seq(Byte)
      /\ Encrypting(i, ciphertext, public, written) /\ i < Len(written)
    BY DEF Inv, EncryptChunk
<1>2. Encrypting(i + 100, ciphertext \o encryptString(public, Chunk(written, i, 100)),
                 public, written)
    BY <1>1, EncryptingStep
<1>3. Encrypting(i', ciphertext', public', written')
    BY <1>1, <1>2 DEF EncryptChunk, PlainChunk
<1> QED
    BY <1>1, <1>3 DEF Inv, EncryptChunk, RoundTrip, RefusedRightly

LEMMA OverwriteInv ==
    ASSUME Inv, Overwrite
    PROVE  Inv'
<1>1. Sealed(ciphertext, public, written)
    BY EncryptingEnd DEF Inv, Overwrite
<1> QED
    BY <1>1 DEF Inv, Overwrite, RoundTrip, RefusedRightly

LEMMA ReadCiphertextInv ==
    ASSUME Inv, NEW key \in Key, ReadCiphertext(key)
    PROVE  Inv'
<1>1. Decrypting(0, <<>>, key, public, written)
    BY DecryptingStart DEF Inv
<1> QED
    BY <1>1 DEF Inv, ReadCiphertext, RoundTrip, RefusedRightly

LEMMA DecryptChunkInv ==
    ASSUME Inv, DecryptChunk
    PROVE  Inv'
<1> DEFINE chunk == Chunk(ciphertext, i, 256)
<1>1. /\ at = "decrypt" /\ ciphertext = file /\ written \in Seq(Byte)
      /\ Decrypting(i, plaintext, private, public, written)
      /\ Sealed(ciphertext, public, written)
      /\ i < Len(ciphertext) /\ Decrypts(private, chunk)
    BY DEF Inv, DecryptChunk, CipherChunk
<1>2. Decrypting(i + 256, plaintext \o decryptString(chunk), private, public, written)
    BY <1>1, DecryptingStep
<1>3. Decrypting(i', plaintext', private', public', written')
    BY <1>2 DEF DecryptChunk, CipherChunk
<1> QED
    BY <1>1, <1>3 DEF Inv, DecryptChunk, RoundTrip, RefusedRightly

LEMMA ThrowInv ==
    ASSUME Inv, Throw
    PROVE  Inv'
<1>1. /\ at = "decrypt" /\ written \in Seq(Byte)
      /\ Decrypting(i, plaintext, private, public, written)
      /\ Sealed(ciphertext, public, written)
      /\ i < Len(ciphertext) /\ ~Decrypts(private, Chunk(ciphertext, i, 256))
    BY DEF Inv, Throw, CipherChunk
<1>2. private # public /\ written # <<>>
    BY <1>1, DecryptingRefused
<1> QED
    BY <1>1, <1>2 DEF Inv, Throw, RoundTrip, RefusedRightly

LEMMA ReturnInv ==
    ASSUME Inv, Return
    PROVE  Inv'
<1>1. /\ at = "decrypt" /\ written \in Seq(Byte)
      /\ Decrypting(i, plaintext, private, public, written)
      /\ Sealed(ciphertext, public, written)
      /\ i >= Len(ciphertext)
    BY DEF Inv, Return
<1>2. plaintext = written /\ (private = public \/ written = <<>>)
    BY <1>1, DecryptingEnd
<1> QED
    BY <1>1, <1>2 DEF Inv, Return, RoundTrip, RefusedRightly

LEMMA ResumeInv ==
    ASSUME Inv, Resume
    PROVE  Inv'
    BY DEF Inv, Resume, RoundTrip, RefusedRightly

LEMMA StutterInv ==
    ASSUME Inv, UNCHANGED vars
    PROVE  Inv'
    BY DEF Inv, vars, RoundTrip, RefusedRightly

LEMMA NextInv == Inv /\ [Next]_vars => Inv'
<1> SUFFICES ASSUME Inv, [Next]_vars
             PROVE  Inv'
    OBVIOUS
<1>1. CASE \E content \in File, key \in Key : Write(content, key)
    BY <1>1, WriteInv
<1>2. CASE \E key \in Key : ReadCiphertext(key)
    BY <1>2, ReadCiphertextInv
<1>3. CASE Loops
    BY <1>3, ReadPlaintextInv, EncryptChunkInv, OverwriteInv, DecryptChunkInv,
       ThrowInv, ReturnInv DEF Loops
<1>4. CASE Resume
    BY <1>4, ResumeInv
<1>5. CASE UNCHANGED vars
    BY <1>5, StutterInv
<1> QED
    BY <1>1, <1>2, <1>3, <1>4, <1>5 DEF Next

LEMMA Invariant == Spec => []Inv
<1> QED
    BY InitInv, NextInv, PTL DEF Spec

-----------------------------------------------------------------------------
(* The theorems *)

\* Every content, of every length, is read again as it was written, and only
\* with the key it was written for unless it is empty: no chunk of secureFile
\* (EncryptDecrypt.cpp:148-160) or of retrieveFile (:117-125) is lost, doubled
\* or cut at another place by the other.
THEOREM EveryContentReturns == Spec => []RoundTrip
<1>1. Inv => RoundTrip
    BY DEF Inv
<1> QED
    BY <1>1, Invariant, PTL

\* retrieveFile throws for another key only, and never on an empty file.
THEOREM RightKeyServed == Spec => []RefusedRightly
<1>1. Inv => RefusedRightly
    BY DEF Inv
<1> QED
    BY <1>1, Invariant, PTL

\* No round of secureFile gives RSA an empty chunk, on which encryptString
\* throws, or more than it takes.
THEOREM EveryChunkFits == Spec => []ChunkFits
<1>1. Inv => ChunkFits
  <2> SUFFICES ASSUME Inv, at = "encrypt", i < Len(plaintext)
               PROVE  Len(Chunk(plaintext, i, 100)) \in 1 .. 214
      BY DEF ChunkFits, PlainChunk, RSALimit
  <2>1. PICK n \in Nat : i = 100 * n
      BY DEF Inv, Encrypting
  <2>2. written \in Seq(Byte) /\ plaintext = written /\ 100 * n < Len(written)
      BY <2>1 DEF Inv
  <2>3. Len(Chunk(written, 100 * n, 100)) \in 1 .. 100
      BY <2>2, PrefixNext
  <2> QED
      BY <2>1, <2>2, <2>3
<1> QED
    BY <1>1, Invariant, PTL
=============================================================================
