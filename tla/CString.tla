------------------------------ MODULE CString -------------------------------
(***************************************************************************)
(* lib/string.c on a byte-addressed memory m, a function from addresses    *)
(* 0..MemTop to bytes; a pointer is an address and a null pointer is -1.   *)
(* A string's character set (DELIMITERS, SKIP, STOP) is given as a set.    *)
(* Functions that write return the new memory next to their result.        *)
(***************************************************************************)
EXTENDS Integers, Sequences, SequencesExt, FiniteSetsExt

NoPtr == -1

\* Copies the bytes at the given offsets, in that order, one at a time.
CopyBytes(m, dst, src, offsets) ==
  FoldLeft(LAMBDA n, i : [n EXCEPT ![dst + i] = n[src + i]], m, offsets)
Upward(size) == [k \in 1..size |-> k - 1]
Downward(size) == [k \in 1..size |-> size - k]

memcpy(m, dst, src, size) == CopyBytes(m, dst, src, Upward(size))

memmove_Upward(m, dst, src, size) ==
  [m |-> CopyBytes(m, dst, src, Upward(size)), ret |-> dst + size]

\* Returns the local pointer, which the upward loop has advanced.
memmove(m, dst, src, size) ==
  IF dst < src
  THEN [m |-> CopyBytes(m, dst, src, Upward(size)), ret |-> dst + size]
  ELSE [m |-> CopyBytes(m, dst, src, Downward(size)), ret |-> dst]

memset(m, dst, value, size) ==
  [a \in DOMAIN m |-> IF a \in dst..(dst + size - 1) THEN value ELSE m[a]]

memcmp(m, a, b, size) ==
  LET diff == {i \in 0..(size - 1) : m[a + i] # m[b + i]}
      i == Min(diff)
  IN  IF diff = {} THEN 0 ELSE IF m[a + i] > m[b + i] THEN 1 ELSE -1

\* The number of bytes from p on before the first one in S.
Before(m, p, S) == Min({i \in 0..(Max(DOMAIN m) - p) : m[p + i] \in S})

strlen(m, p) == Before(m, p, {0})
strnlen(m, p, maxlen) ==
  LET ends == {i \in 0..(maxlen - 1) : m[p + i] = 0}
  IN  IF ends = {} THEN maxlen ELSE Min(ends)

strcmp(m, a, b) ==
  LET i == Min({k \in 0..Min({strlen(m, a), strlen(m, b)}) :
                  m[a + k] = 0 \/ m[a + k] # m[b + k]})
      x == m[a + i]
      y == m[b + i]
  IN  IF x < y THEN -1 ELSE IF x > y THEN 1 ELSE 0

memchr(m, p, c, size) ==
  LET hits == {i \in 0..(size - 1) : m[p + i] = c}
  IN  IF hits = {} THEN NoPtr ELSE p + Min(hits)
strchr(m, p, c) ==
  LET i == Before(m, p, {c, 0}) IN IF m[p + i] = c THEN p + i ELSE NoPtr
strrchr(m, p, c) ==
  LET hits == {i \in 0..(strlen(m, p) - 1) : m[p + i] = c}
  IN  IF hits = {} THEN NoPtr ELSE p + Max(hits)
strcspn(m, p, stop) == Before(m, p, stop \cup {0})
strspn(m, p, skip) == Before(m, p, (Range(m) \ skip) \cup {0})
strpbrk(m, p, stop) ==
  LET i == strcspn(m, p, stop) IN IF m[p + i] = 0 THEN NoPtr ELSE p + i

strstr(m, hay, needle) ==
  LET hl == strlen(m, hay)
      nl == strlen(m, needle)
      hits == {i \in 0..(hl - nl) : memcmp(m, hay + i, needle, nl) = 0}
  IN  IF hl >= nl /\ hits # {} THEN hay + Min(hits) ELSE NoPtr

\* s is a start pointer or NoPtr (then the saved position is used).
strtok_r(m, s, delims, save_ptr) ==
  LET start == IF s = NoPtr THEN save_ptr ELSE s
      token == start + strspn(m, start, delims)
      end == token + strcspn(m, token, delims)
  IN  IF m[token] = 0 THEN [m |-> m, save |-> token, ret |-> NoPtr]
      ELSE IF m[end] # 0
      THEN [m |-> [m EXCEPT ![end] = 0], save |-> end + 1, ret |-> token]
      ELSE [m |-> m, save |-> end, ret |-> token]

strlcpy(m, dst, src, size) ==
  LET len == strlen(m, src)
      n == Min({len, size - 1})
  IN  [m |-> IF size > 0 THEN [memcpy(m, dst, src, n) EXCEPT ![dst + n] = 0]
             ELSE m,
       ret |-> len]

strlcat(m, dst, src, size) ==
  LET len == strlen(m, src)
      at == strlen(m, dst)
      n == Min({len, size - at - 1})
  IN  [m |-> IF size > 0 /\ at < size
             THEN [memcpy(m, dst + at, src, n) EXCEPT ![dst + at + n] = 0]
             ELSE m,
       ret |-> len + at]
=============================================================================
